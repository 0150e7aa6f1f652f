------------------------- MODULE NodeManagerProofs -------------------------
(***************************************************************************)
(* What NodeManager promises of the node table and of its file, for every  *)
(* set of nodes, ports, folders, settings, limits and faults.              *)
(*                                                                         *)
(* The manager is looked at in three layers.  A manager is Sound when what *)
(* it runs is what it lists and no two listeners share a port; every call  *)
(* that changes one (Starts, Stops, Updates, ...) leads from a sound one   *)
(* to a sound one and touches only its own nodes (Leads).  Every operation *)
(* Operates: what it leaves in the table and in the file, whichever of its *)
(* outcomes it takes.  Settled relates the table, the file and the process *)
(* that serves, and is inductive because every operation operates and      *)
(* every start and end of a process, and damage to the file, keeps it.     *)
(***************************************************************************)
EXTENDS NodeManager, FiniteSetTheorems, TLAPS

\* Any node table with any runtimes.
Managers == [nodes : Maps(Nodes, Node), runtimes : Maps(Nodes, Runtime)]

\* The nodes the table lists as running.
Running(m) == {n \in DOMAIN m.nodes : m.nodes[n].status = "running"}

\* ServedAsListed, of any manager.
Agrees(m) ==
  /\ DOMAIN m.runtimes = Running(m)
  /\ \A n \in DOMAIN m.runtimes :
       /\ m.runtimes[n].port = m.nodes[n].config.port
       /\ m.runtimes[n].settings = m.nodes[n].config.settings

\* No two runtimes listen on the same port.
Apart(m) ==
  \A n, k \in DOMAIN m.runtimes :
    /\ m.runtimes[n].listening /\ m.runtimes[k].listening
    /\ m.runtimes[n].port = m.runtimes[k].port
    => n = k

Sound(m) == m \in Managers /\ Agrees(m) /\ Apart(m)

\* No runtime lost its listeners.
Hearing(m) == \A n \in DOMAIN m.runtimes : m.runtimes[n].listening

\* Between m and w only the nodes S appear, disappear or change.
Keeps(m, w, S) ==
  /\ DOMAIN w.nodes \ S = DOMAIN m.nodes \ S
  /\ \A k \in DOMAIN m.nodes \ S : w.nodes[k] = m.nodes[k]

\* What can fail.
Kinds == {"start", "stop", "save", "cleanup", "corrupt"}

\* What every call does to the manager m that concerns the nodes S.
Leads(m, o, S) ==
  /\ Sound(o.mem)
  /\ o.cost \in Seq(Kinds)
  /\ Hearing(m) /\ "stop" \notin ToSet(o.cost) => Hearing(o.mem)
  /\ Keeps(m, o.mem, S)

-----------------------------------------------------------------------------
(***************************************************************************)
(* The helpers.                                                            *)
(***************************************************************************)
LEMMA MapsFacts ==
  ASSUME NEW K, NEW V, NEW f
  PROVE  f \in Maps(K, V) <=> DOMAIN f \subseteq K /\ f \in [DOMAIN f -> V]
BY DEF Maps

LEMMA PutFacts ==
  ASSUME NEW f, NEW key, NEW value
  PROVE  /\ DOMAIN Put(f, key, value) = DOMAIN f \cup {key}
         /\ Put(f, key, value)[key] = value
         /\ \A x \in DOMAIN f \ {key} : Put(f, key, value)[x] = f[x]
BY DEF Put

LEMMA PutMap ==
  ASSUME NEW K, NEW V, NEW f \in Maps(K, V), NEW key \in K, NEW value \in V
  PROVE  Put(f, key, value) \in Maps(K, V)
<1> DOMAIN f \subseteq K /\ f \in [DOMAIN f -> V]
  BY MapsFacts
<1>1. Put(f, key, value) \in [DOMAIN f \cup {key} -> V]
  BY DEF Put
<1>2. DOMAIN Put(f, key, value) = DOMAIN f \cup {key}
  BY PutFacts
<1> QED BY <1>1, <1>2, MapsFacts

LEMMA DropFacts ==
  ASSUME NEW f, NEW S
  PROVE  /\ DOMAIN Drop(f, S) = DOMAIN f \ S
         /\ \A x \in DOMAIN f \ S : Drop(f, S)[x] = f[x]
BY DEF Drop

LEMMA DropMap ==
  ASSUME NEW K, NEW V, NEW f \in Maps(K, V), NEW S
  PROVE  Drop(f, S) \in Maps(K, V)
<1> DOMAIN f \subseteq K /\ f \in [DOMAIN f -> V]
  BY MapsFacts
<1>1. Drop(f, S) \in [DOMAIN f \ S -> V]
  BY DEF Drop
<1>2. DOMAIN Drop(f, S) = DOMAIN f \ S
  BY DropFacts
<1> QED BY <1>1, <1>2, MapsFacts

\* A node that is listed has a configuration, and its runtime the port and settings of it.
LEMMA SoundFacts ==
  ASSUME NEW m, Sound(m)
  PROVE  /\ m.nodes \in Maps(Nodes, Node) /\ m.runtimes \in Maps(Nodes, Runtime)
         /\ DOMAIN m.nodes \subseteq Nodes
         /\ \A n \in DOMAIN m.nodes : /\ m.nodes[n] \in Node
                                      /\ m.nodes[n].config \in Config
                                      /\ m.nodes[n].status \in {"running", "stopped"}
         /\ \A n \in DOMAIN m.runtimes : m.runtimes[n] \in Runtime /\ m.runtimes[n].port \in Ports
<1>1. m.nodes \in Maps(Nodes, Node) /\ m.runtimes \in Maps(Nodes, Runtime)
  BY DEF Sound, Managers
<1>2. \A n \in DOMAIN m.nodes : m.nodes[n] \in Node
  BY <1>1, MapsFacts
<1>3. \A n \in DOMAIN m.runtimes : m.runtimes[n] \in Runtime
  BY <1>1, MapsFacts
<1>4. DOMAIN m.nodes \subseteq Nodes
  BY <1>1, MapsFacts
<1> QED BY <1>1, <1>2, <1>3, <1>4 DEF Node, Runtime

\* A manager that differs from a sound one in the node n only, and there listens to it.
LEMMA OneChanged ==
  ASSUME NEW m, Sound(m), NEW n \in Nodes, NEW w \in Managers,
         DOMAIN w.nodes \ {n} = DOMAIN m.nodes \ {n},
         \A k \in DOMAIN m.nodes \ {n} : w.nodes[k] = m.nodes[k],
         DOMAIN w.runtimes \ {n} = DOMAIN m.runtimes \ {n},
         \A k \in DOMAIN m.runtimes \ {n} : w.runtimes[k] = m.runtimes[k],
         n \in DOMAIN w.runtimes <=> n \in Running(w),
         n \in DOMAIN w.runtimes =>
           /\ w.runtimes[n].port = w.nodes[n].config.port
           /\ w.runtimes[n].settings = w.nodes[n].config.settings
           /\ w.runtimes[n].listening =>
                \A k \in DOMAIN m.runtimes \ {n} :
                  m.runtimes[k].listening => m.runtimes[k].port # w.runtimes[n].port
  PROVE  Sound(w) /\ Keeps(m, w, {n})
<1>1. \A k : k # n => (k \in Running(w) <=> k \in Running(m))
  BY DEF Running
<1>2. DOMAIN m.runtimes = Running(m)
  BY DEF Sound, Agrees
<1>3. DOMAIN w.runtimes = Running(w)
  BY <1>1, <1>2
<1>4. \A k \in DOMAIN w.runtimes : /\ w.runtimes[k].port = w.nodes[k].config.port
                                   /\ w.runtimes[k].settings = w.nodes[k].config.settings
  <2> TAKE k \in DOMAIN w.runtimes
  <2>1. CASE k = n
    BY <2>1
  <2>2. CASE k # n
    <3>1. k \in DOMAIN m.runtimes /\ k \in DOMAIN m.nodes /\ w.nodes[k] = m.nodes[k]
      BY <2>2, <1>2 DEF Running
    <3> QED BY <2>2, <3>1 DEF Sound, Agrees
  <2> QED BY <2>1, <2>2
<1>5. Apart(w)
  <2> SUFFICES ASSUME NEW i \in DOMAIN w.runtimes, NEW k \in DOMAIN w.runtimes,
                      w.runtimes[i].listening, w.runtimes[k].listening,
                      w.runtimes[i].port = w.runtimes[k].port
               PROVE  i = k
    BY DEF Apart
  <2>1. CASE i # n /\ k # n
    BY <2>1 DEF Sound, Apart
  <2>2. CASE i = n \/ k = n
    BY <2>2
  <2> QED BY <2>1, <2>2
<1> QED BY <1>3, <1>4, <1>5 DEF Sound, Agrees, Keeps

\* A port nobody listens on, or the node's own.
Vacant(m, n, p) ==
  \A k \in DOMAIN m.runtimes \ {n} : m.runtimes[k].listening => m.runtimes[k].port # p

\* factory.Start finds a port for the configuration.
HasRoom(m, config) == FreePorts(m, config) # {}

LEMMA FreeIsVacant ==
  ASSUME NEW m, NEW config, NEW n, NEW p \in FreePorts(m, config)
  PROVE  p \in Ports /\ Vacant(m, n, p)
BY DEF FreePorts, TakenPorts, Vacant

LEMMA ServedSound ==
  ASSUME NEW m, Sound(m), NEW n \in Nodes, NEW config \in Config, NEW p \in Ports, Vacant(m, n, p)
  PROVE  LET w == Served(m, n, config, p) IN
         /\ Sound(w) /\ Keeps(m, w, {n})
         /\ Hearing(m) => Hearing(w)
         /\ DOMAIN w.nodes = DOMAIN m.nodes \cup {n}
         /\ w.nodes[n] = [config |-> [config EXCEPT !.port = p], status |-> "running"]
         /\ DOMAIN w.runtimes = DOMAIN m.runtimes \cup {n}
         /\ w.runtimes[n] = [settings |-> config.settings, port |-> p, listening |-> TRUE]
         /\ \A k \in DOMAIN m.runtimes \ {n} : w.runtimes[k] = m.runtimes[k]
<1> DEFINE node == [config |-> [config EXCEPT !.port = p], status |-> "running"]
<1> DEFINE runtime == [settings |-> config.settings, port |-> p, listening |-> TRUE]
<1> DEFINE w == Served(m, n, config, p)
<1>1. node \in Node /\ runtime \in Runtime
  BY DEF Node, Config, Runtime
<1>2. m.nodes \in Maps(Nodes, Node) /\ m.runtimes \in Maps(Nodes, Runtime)
  BY SoundFacts
<1>3. w.nodes = Put(m.nodes, n, node) /\ w.runtimes = Put(m.runtimes, n, runtime)
  BY DEF Served
<1>4. w \in Managers
  BY <1>1, <1>2, PutMap DEF Managers, Served
<1>5. /\ DOMAIN w.nodes = DOMAIN m.nodes \cup {n}
      /\ w.nodes[n] = node
      /\ \A k \in DOMAIN m.nodes \ {n} : w.nodes[k] = m.nodes[k]
  <2>1. DOMAIN w.nodes = DOMAIN m.nodes \cup {n}
    BY DEF Served, Put
  <2>2. w.nodes[n] = node
    BY DEF Served, Put
  <2>3. \A k \in DOMAIN m.nodes \ {n} : w.nodes[k] = m.nodes[k]
    BY DEF Served, Put
  <2> QED BY <2>1, <2>2, <2>3
<1>6. /\ DOMAIN w.runtimes = DOMAIN m.runtimes \cup {n}
      /\ w.runtimes[n] = runtime
      /\ \A k \in DOMAIN m.runtimes \ {n} : w.runtimes[k] = m.runtimes[k]
  <2>1. DOMAIN w.runtimes = DOMAIN m.runtimes \cup {n}
    BY DEF Served, Put
  <2>2. w.runtimes[n] = runtime
    BY DEF Served, Put
  <2>3. \A k \in DOMAIN m.runtimes \ {n} : w.runtimes[k] = m.runtimes[k]
    BY DEF Served, Put
  <2> QED BY <2>1, <2>2, <2>3
<1>7. /\ node.status = "running" /\ runtime.port = p /\ runtime.settings = config.settings
      /\ node.config.port = p /\ node.config.settings = config.settings /\ runtime.listening
  BY DEF Config
<1>8. Sound(w) /\ Keeps(m, w, {n})
  <2> HIDE DEF node, runtime, w
  <2>1. n \in DOMAIN w.runtimes /\ n \in Running(w)
    BY <1>5, <1>6, <1>7 DEF Running
  <2>2. /\ w.runtimes[n].port = w.nodes[n].config.port
        /\ w.runtimes[n].settings = w.nodes[n].config.settings
        /\ \A k \in DOMAIN m.runtimes \ {n} :
             m.runtimes[k].listening => m.runtimes[k].port # w.runtimes[n].port
    BY <1>5, <1>6, <1>7 DEF Vacant
  <2> QED BY <1>4, <1>5, <1>6, <2>1, <2>2, OneChanged
<1>9. Hearing(m) => Hearing(w)
  <2> HIDE DEF runtime, w
  <2> QED BY <1>6, <1>7 DEF Hearing
<1> HIDE DEF w
<1> QED BY <1>5, <1>6, <1>8, <1>9 DEF w

LEMMA ListedSound ==
  ASSUME NEW m, Sound(m), NEW n \in Nodes, NEW config \in Config, n \notin DOMAIN m.runtimes
  PROVE  LET w == Listed(m, n, config, "stopped") IN
         /\ Sound(w) /\ Keeps(m, w, {n})
         /\ w.runtimes = m.runtimes
         /\ DOMAIN w.nodes = DOMAIN m.nodes \cup {n}
         /\ w.nodes[n] = [config |-> config, status |-> "stopped"]
<1> DEFINE node == [config |-> config, status |-> "stopped"]
<1> DEFINE w == Listed(m, n, config, "stopped")
<1>1. node \in Node
  BY DEF Node
<1>2. m.nodes \in Maps(Nodes, Node) /\ m.runtimes \in Maps(Nodes, Runtime)
  BY SoundFacts
<1>3. m \in Managers
  BY DEF Sound
<1>4. w.nodes = Put(m.nodes, n, node) /\ w.runtimes = m.runtimes
  BY <1>3 DEF Listed, Managers
<1>5. w \in Managers
  BY <1>1, <1>2, <1>3, PutMap DEF Managers, Listed
<1>6. /\ DOMAIN w.nodes = DOMAIN m.nodes \cup {n}
      /\ w.nodes[n] = node
      /\ \A k \in DOMAIN m.nodes \ {n} : w.nodes[k] = m.nodes[k]
  <2>1. DOMAIN w.nodes = DOMAIN m.nodes \cup {n}
    BY <1>3 DEF Listed, Managers, Put
  <2>2. w.nodes[n] = node
    BY <1>3 DEF Listed, Managers, Put
  <2>3. \A k \in DOMAIN m.nodes \ {n} : w.nodes[k] = m.nodes[k]
    BY <1>3 DEF Listed, Managers, Put
  <2> QED BY <2>1, <2>2, <2>3
<1>7. n \notin Running(w)
  <2> HIDE DEF w
  <2> QED BY <1>6 DEF Running
<1>8. Sound(w) /\ Keeps(m, w, {n})
  <2> HIDE DEF node, w
  <2> QED BY <1>4, <1>5, <1>6, <1>7, OneChanged
<1> HIDE DEF w
<1> QED BY <1>4, <1>6, <1>8 DEF w

LEMMA DeafSound ==
  ASSUME NEW m, Sound(m), NEW n \in DOMAIN m.runtimes
  PROVE  LET w == Deaf(m, n) IN Sound(w) /\ Keeps(m, w, {n}) /\ w.nodes = m.nodes
<1> DEFINE w == Deaf(m, n)
<1>1. m \in Managers /\ n \in Nodes
  BY MapsFacts DEF Sound, Managers
<1>2. w.nodes = m.nodes /\ w.runtimes = [m.runtimes EXCEPT ![n].listening = FALSE]
  BY <1>1 DEF Deaf, Managers
<1>3. m.nodes \in Maps(Nodes, Node) /\ \A k \in DOMAIN m.runtimes : m.runtimes[k] \in Runtime
  BY SoundFacts
<1>4. /\ DOMAIN w.runtimes = DOMAIN m.runtimes
      /\ \A k \in DOMAIN m.runtimes \ {n} : w.runtimes[k] = m.runtimes[k]
      /\ w.runtimes[n] = [m.runtimes[n] EXCEPT !.listening = FALSE]
  BY <1>2, <1>1 DEF Managers
<1>5. /\ w.runtimes[n] \in Runtime /\ w.runtimes[n].port = m.runtimes[n].port
      /\ w.runtimes[n].settings = m.runtimes[n].settings /\ ~w.runtimes[n].listening
  BY <1>3, <1>4 DEF Runtime
<1>6. w.runtimes \in Maps(Nodes, Runtime)
  <2>1. DOMAIN m.runtimes \subseteq Nodes
    BY <1>1, MapsFacts DEF Managers
  <2>2. w.runtimes = [k \in DOMAIN m.runtimes |-> w.runtimes[k]]
    BY <1>2, <1>1 DEF Managers, Maps
  <2>3. \A k \in DOMAIN m.runtimes : w.runtimes[k] \in Runtime
    BY <1>3, <1>4, <1>5
  <2> HIDE DEF w
  <2>4. w.runtimes \in [DOMAIN m.runtimes -> Runtime]
    BY <2>2, <2>3
  <2> QED BY <2>1, <2>4, <1>4, MapsFacts
<1>7. w \in Managers
  <2> DEFINE q == [m.runtimes EXCEPT ![n].listening = FALSE]
  <2>1. w = [m EXCEPT !.runtimes = q]
    BY DEF Deaf
  <2>2. q \in Maps(Nodes, Runtime)
    BY <1>2, <1>6
  <2> HIDE DEF q, w
  <2> QED BY <2>1, <2>2, <1>1 DEF Managers
<1>8. n \in Running(w) /\ n \in DOMAIN w.runtimes
  <2>1. n \in Running(m)
    BY DEF Sound, Agrees
  <2> QED BY <2>1, <1>2, <1>4 DEF Running
<1>9. w.runtimes[n].port = w.nodes[n].config.port /\ w.runtimes[n].settings = w.nodes[n].config.settings
  BY <1>2, <1>5 DEF Sound, Agrees
<1> HIDE DEF w
<1>10. Sound(w) /\ Keeps(m, w, {n})
  BY <1>1, <1>2, <1>4, <1>5, <1>7, <1>8, <1>9, OneChanged
<1> QED BY <1>2, <1>10 DEF w

LEMMA HaltedSound ==
  ASSUME NEW m, Sound(m), NEW n \in DOMAIN m.runtimes
  PROVE  LET w == Halted(m, n) IN
         /\ Sound(w) /\ Keeps(m, w, {n})
         /\ Hearing(m) => Hearing(w)
         /\ DOMAIN w.nodes = DOMAIN m.nodes
         /\ w.nodes[n] = [config |-> m.nodes[n].config, status |-> "stopped"]
         /\ DOMAIN w.runtimes = DOMAIN m.runtimes \ {n}
         /\ \A k \in DOMAIN m.runtimes \ {n} : w.runtimes[k] = m.runtimes[k]
<1> DEFINE w == Halted(m, n)
<1>1. m \in Managers /\ n \in Running(m) /\ n \in DOMAIN m.nodes /\ n \in Nodes
  BY MapsFacts DEF Sound, Agrees, Managers, Running
<1>2. /\ m.nodes \in Maps(Nodes, Node) /\ m.runtimes \in Maps(Nodes, Runtime)
      /\ \A k \in DOMAIN m.nodes : m.nodes[k] \in Node
  BY SoundFacts
<1>3. w.nodes = [m.nodes EXCEPT ![n].status = "stopped"] /\ w.runtimes = Drop(m.runtimes, {n})
  BY DEF Halted
<1>4. /\ DOMAIN w.nodes = DOMAIN m.nodes
      /\ \A k \in DOMAIN m.nodes \ {n} : w.nodes[k] = m.nodes[k]
      /\ w.nodes[n] = [m.nodes[n] EXCEPT !.status = "stopped"]
  BY <1>1, <1>3 DEF Managers
<1>5. w.nodes[n] = [config |-> m.nodes[n].config, status |-> "stopped"] /\ w.nodes[n] \in Node
  BY <1>1, <1>2, <1>4 DEF Node
<1>6. w.nodes \in Maps(Nodes, Node)
  <2>1. DOMAIN m.nodes \subseteq Nodes
    BY <1>1, MapsFacts DEF Managers
  <2>2. w.nodes = [k \in DOMAIN m.nodes |-> w.nodes[k]]
    BY <1>3, <1>1 DEF Managers, Maps
  <2>3. \A k \in DOMAIN m.nodes : w.nodes[k] \in Node
    BY <1>2, <1>4, <1>5
  <2> HIDE DEF w
  <2>4. w.nodes \in [DOMAIN m.nodes -> Node]
    BY <2>2, <2>3
  <2> QED BY <2>1, <2>4, <1>4, MapsFacts
<1>7. /\ DOMAIN w.runtimes = DOMAIN m.runtimes \ {n}
      /\ \A k \in DOMAIN m.runtimes \ {n} : w.runtimes[k] = m.runtimes[k]
  BY DEF Halted, Drop
<1>8. w \in Managers
  <2>1. Drop(m.runtimes, {n}) \in Maps(Nodes, Runtime)
    BY <1>2, DropMap
  <2> QED BY <2>1, <1>3, <1>6 DEF Halted, Managers
<1> HIDE DEF w
<1>9. n \notin Running(w)
  BY <1>5 DEF Running
<1>10. Sound(w) /\ Keeps(m, w, {n})
  BY <1>1, <1>4, <1>7, <1>8, <1>9, OneChanged
<1>11. Hearing(m) => Hearing(w)
  BY <1>7 DEF Hearing
<1> QED BY <1>4, <1>5, <1>7, <1>10, <1>11 DEF w

LEMMA RemovedSound ==
  ASSUME NEW m, Sound(m), NEW n \in Nodes, n \notin DOMAIN m.runtimes
  PROVE  LET w == Removed(m, {n}) IN
         /\ Sound(w) /\ Keeps(m, w, {n})
         /\ Hearing(m) => Hearing(w)
         /\ DOMAIN w.nodes = DOMAIN m.nodes \ {n}
         /\ DOMAIN w.runtimes = DOMAIN m.runtimes
         /\ \A k \in DOMAIN m.runtimes : w.runtimes[k] = m.runtimes[k]
<1> DEFINE w == Removed(m, {n})
<1>1. m.nodes \in Maps(Nodes, Node) /\ m.runtimes \in Maps(Nodes, Runtime)
  BY SoundFacts
<1>2. /\ Drop(m.nodes, {n}) \in Maps(Nodes, Node)
      /\ Drop(m.runtimes, {n}) \in Maps(Nodes, Runtime)
  BY <1>1, DropMap
<1>3. w \in Managers
  BY <1>2 DEF Removed, Managers
<1>4. /\ DOMAIN w.nodes = DOMAIN m.nodes \ {n}
      /\ \A k \in DOMAIN m.nodes \ {n} : w.nodes[k] = m.nodes[k]
  BY DEF Removed, Drop
<1>5. /\ DOMAIN w.runtimes = DOMAIN m.runtimes
      /\ \A k \in DOMAIN m.runtimes : w.runtimes[k] = m.runtimes[k]
  BY DEF Removed, Drop
<1> HIDE DEF w
<1>6. n \notin Running(w)
  BY <1>4 DEF Running
<1>7. Sound(w) /\ Keeps(m, w, {n})
  BY <1>3, <1>4, <1>5, <1>6, OneChanged
<1>8. Hearing(m) => Hearing(w)
  BY <1>5 DEF Hearing
<1> QED BY <1>4, <1>5, <1>7, <1>8 DEF w

LEMMA NoCost == << >> \in Seq(Kinds) /\ ToSet(<< >>) = {}
<1>1. << >> \in Seq(Kinds)
  OBVIOUS
<1>2. ToSet(<< >>) = {}
  BY DEF ToSet
<1> QED BY <1>1, <1>2

LEMMA OneCost == \A x \in Kinds : <<x>> \in Seq(Kinds) /\ ToSet(<<x>>) = {x}
<1> TAKE x \in Kinds
<1>1. <<x>> \in Seq(Kinds)
  OBVIOUS
<1>2. ToSet(<<x>>) = {x}
  BY DEF ToSet
<1> QED BY <1>1, <1>2

LEMMA CostUnion ==
  ASSUME NEW s \in Seq(Kinds), NEW t \in Seq(Kinds)
  PROVE  s \o t \in Seq(Kinds) /\ ToSet(s \o t) = ToSet(s) \cup ToSet(t)
<1>1. ToSet(s \o t) \subseteq ToSet(s) \cup ToSet(t)
  <2> SUFFICES ASSUME NEW i \in 1 .. Len(s) + Len(t)
               PROVE  (s \o t)[i] \in ToSet(s) \cup ToSet(t)
    BY DEF ToSet
  <2>1. CASE i <= Len(s)
    BY <2>1 DEF ToSet
  <2>2. CASE i > Len(s)
    <3>1. (s \o t)[i] = t[i - Len(s)] /\ i - Len(s) \in 1 .. Len(t)
      BY <2>2
    <3> QED BY <3>1 DEF ToSet
  <2> QED BY <2>1, <2>2
<1>2. ASSUME NEW i \in 1 .. Len(s) PROVE s[i] \in ToSet(s \o t)
  <2>1. (s \o t)[i] = s[i] /\ i \in 1 .. Len(s \o t)
    OBVIOUS
  <2> QED BY <2>1 DEF ToSet
<1>3. ASSUME NEW i \in 1 .. Len(t) PROVE t[i] \in ToSet(s \o t)
  <2>1. (s \o t)[i + Len(s)] = t[i] /\ i + Len(s) \in 1 .. Len(s \o t)
    OBVIOUS
  <2> QED BY <2>1 DEF ToSet
<1>4. ToSet(s) \cup ToSet(t) \subseteq ToSet(s \o t)
  <2>1. ASSUME NEW x \in ToSet(s) PROVE x \in ToSet(s \o t)
    BY <1>2 DEF ToSet
  <2>2. ASSUME NEW x \in ToSet(t) PROVE x \in ToSet(s \o t)
    <3>1. PICK i \in 1 .. Len(t) : x = t[i]
      BY <2>2 DEF ToSet
    <3> QED BY <3>1, <1>3
  <2> QED BY <2>1, <2>2
<1> QED BY <1>1, <1>4

LEMMA Unmoved ==
  ASSUME NEW m, Sound(m), NEW S, NEW o, o.mem = m, o.cost \in Seq(Kinds)
  PROVE  Leads(m, o, S)
BY DEF Leads, Keeps

LEMMA FailingFacts ==
  ASSUME NEW kind \in Kinds, NEW m, NEW o \in Failing(kind, m)
  PROVE  o.mem = m /\ o.ok = FALSE /\ o.cost \in Seq(Kinds) /\ ToSet(o.cost) = {kind}
<1>1. o = Outcome(m, FALSE, <<kind>>)
  BY DEF Failing
<1>2. o.mem = m /\ o.ok = FALSE /\ o.cost = <<kind>>
  BY <1>1 DEF Outcome
<1>3. <<kind>> \in Seq(Kinds) /\ ToSet(<<kind>>) = {kind}
  BY OneCost
<1> QED BY <1>2, <1>3

LEMMA StartsLeads ==
  ASSUME NEW m, Sound(m), NEW n \in Nodes, NEW config \in Config, NEW o \in Starts(m, n, config)
  PROVE  /\ Leads(m, o, {n})
         /\ o.ok \in BOOLEAN
         /\ o.ok => \E p \in FreePorts(m, config) : o.mem = Served(m, n, config, p)
         /\ ~o.ok => o.mem = m
         /\ HasRoom(m, config) /\ "start" \notin ToSet(o.cost) => o.ok
<1>1. CASE \E p \in FreePorts(m, config) : o = Outcome(Served(m, n, config, p), TRUE, << >>)
  <2>1. PICK p \in FreePorts(m, config) : o = Outcome(Served(m, n, config, p), TRUE, << >>)
    BY <1>1
  <2>2. p \in Ports /\ Vacant(m, n, p)
    BY FreeIsVacant
  <2>3. o.mem = Served(m, n, config, p) /\ o.ok = TRUE /\ o.cost = << >>
    BY <2>1 DEF Outcome
  <2>4. Sound(o.mem) /\ Keeps(m, o.mem, {n}) /\ (Hearing(m) => Hearing(o.mem))
    <3> DEFINE w == Served(m, n, config, p)
    <3>1. Sound(w) /\ Keeps(m, w, {n}) /\ (Hearing(m) => Hearing(w))
      BY <2>2, ServedSound
    <3> QED BY <2>3, <3>1
  <2>5. Leads(m, o, {n})
    BY <2>3, <2>4, NoCost DEF Leads
  <2> QED BY <2>3, <2>5
<1>2. CASE FreePorts(m, config) = {} /\ o = Outcome(m, FALSE, << >>)
  <2>1. o.mem = m /\ o.ok = FALSE /\ o.cost = << >>
    BY <1>2 DEF Outcome
  <2> QED BY <1>2, <2>1, NoCost, Unmoved DEF HasRoom
<1>3. CASE o \in Failing("start", m)
  <2>1. o.mem = m /\ o.ok = FALSE /\ o.cost \in Seq(Kinds) /\ ToSet(o.cost) = {"start"}
    BY <1>3, FailingFacts DEF Kinds
  <2> QED BY <2>1, Unmoved
<1>4. \/ \E p \in FreePorts(m, config) : o = Outcome(Served(m, n, config, p), TRUE, << >>)
      \/ FreePorts(m, config) = {} /\ o = Outcome(m, FALSE, << >>)
      \/ o \in Failing("start", m)
  BY DEF Starts
<1> QED BY <1>1, <1>2, <1>3, <1>4

LEMMA StopsLeads ==
  ASSUME NEW m, Sound(m), NEW n \in DOMAIN m.nodes, NEW o \in Stops(m, n)
  PROVE  /\ Leads(m, o, {n})
         /\ o.ok \in BOOLEAN
         /\ DOMAIN o.mem.nodes = DOMAIN m.nodes
         /\ o.ok => /\ n \notin DOMAIN o.mem.runtimes
                    /\ n \notin Running(m) => o.mem = m
                    /\ n \in Running(m) => m.runtimes[n].listening /\ o.mem = Halted(m, n)
         /\ ~o.ok => o.mem.nodes = m.nodes
         /\ ~o.ok /\ "stop" \notin ToSet(o.cost) =>
              n \in DOMAIN m.runtimes /\ ~m.runtimes[n].listening /\ o.mem = m
<1>0. n \in Nodes /\ m.nodes[n].status \in {"running", "stopped"}
  BY SoundFacts
<1>1. CASE m.nodes[n].status = "stopped"
  <2>1. o = Outcome(m, TRUE, << >>)
    BY <1>1 DEF Stops
  <2>2. o.mem = m /\ o.ok = TRUE /\ o.cost = << >>
    BY <2>1 DEF Outcome
  <2>3. n \notin Running(m) /\ n \notin DOMAIN m.runtimes
    BY <1>1 DEF Sound, Agrees, Running
  <2>4. Leads(m, o, {n})
    BY <2>2, NoCost, Unmoved
  <2> QED BY <2>2, <2>3, <2>4
<1>2. CASE m.nodes[n].status # "stopped"
  <2>1. n \in Running(m) /\ n \in DOMAIN m.runtimes
    BY <1>0, <1>2 DEF Sound, Agrees, Running
  <2>2. CASE ~m.runtimes[n].listening
    <3>1. o = Outcome(m, FALSE, << >>)
      BY <1>2, <2>2 DEF Stops
    <3>2. o.mem = m /\ o.ok = FALSE /\ o.cost = << >>
      BY <3>1 DEF Outcome
    <3>3. Leads(m, o, {n})
      BY <3>2, NoCost, Unmoved
    <3> QED BY <2>1, <2>2, <3>2, <3>3
  <2>3. CASE m.runtimes[n].listening /\ o = Outcome(Halted(m, n), TRUE, << >>)
    <3>1. o.mem = Halted(m, n) /\ o.ok = TRUE /\ o.cost = << >>
      BY <2>3 DEF Outcome
    <3> DEFINE w == Halted(m, n)
    <3>2. /\ Sound(w) /\ Keeps(m, w, {n}) /\ (Hearing(m) => Hearing(w))
          /\ DOMAIN w.nodes = DOMAIN m.nodes /\ DOMAIN w.runtimes = DOMAIN m.runtimes \ {n}
      BY <2>1, HaltedSound, Zenon
    <3>3. Leads(m, o, {n})
      BY <3>1, <3>2, NoCost DEF Leads
    <3> QED BY <2>1, <2>3, <3>1, <3>2, <3>3
  <2>4. CASE m.runtimes[n].listening /\ o \in Failing("stop", Deaf(m, n))
    <3>1. o.mem = Deaf(m, n) /\ o.ok = FALSE /\ o.cost \in Seq(Kinds) /\ ToSet(o.cost) = {"stop"}
      BY <2>4, FailingFacts DEF Kinds
    <3>2. Leads(m, o, {n}) /\ o.mem.nodes = m.nodes
      BY <2>1, <3>1, DeafSound DEF Leads
    <3> QED BY <3>1, <3>2
  <2> QED BY <1>2, <2>2, <2>3, <2>4 DEF Stops
<1> QED BY <1>1, <1>2

\* A stop that succeeds took no failure.
LEMMA StopsFree ==
  ASSUME NEW m, NEW n, NEW s \in Stops(m, n), s.ok
  PROVE  s.cost = << >>
BY DEF Stops, Outcome, Failing

LEMMA DeletesLeads ==
  ASSUME NEW m, Sound(m), NEW n \in DOMAIN m.nodes, NEW o \in Deletes(m, n)
  PROVE  /\ Leads(m, o, {n})
         /\ DOMAIN o.mem.nodes \subseteq DOMAIN m.nodes
         /\ Hearing(m) /\ "stop" \notin ToSet(o.cost) /\ "cleanup" \notin ToSet(o.cost)
              => DOMAIN o.mem.nodes = DOMAIN m.nodes \ {n}
<1>0. PICK s \in Stops(m, n) :
        o \in IF ~s.ok THEN {s}
              ELSE IF n \in Dedicated THEN Failing("cleanup", s.mem)
              ELSE {Outcome(Removed(s.mem, {n}), TRUE, s.cost)}
  BY DEF Deletes
<1>s. /\ Leads(m, s, {n})
      /\ s.ok \in BOOLEAN
      /\ DOMAIN s.mem.nodes = DOMAIN m.nodes
      /\ s.ok => n \notin DOMAIN s.mem.runtimes
      /\ ~s.ok /\ "stop" \notin ToSet(s.cost) => n \in DOMAIN m.runtimes /\ ~m.runtimes[n].listening
  BY StopsLeads
<1>n. n \in Nodes /\ Sound(s.mem) /\ s.cost \in Seq(Kinds)
  BY <1>s, SoundFacts DEF Leads
<1>1. CASE ~s.ok
  <2>1. o = s
    BY <1>0, <1>1
  <2>2. Hearing(m) => "stop" \in ToSet(o.cost)
    BY <1>1, <1>s, <2>1 DEF Hearing
  <2> QED BY <1>s, <2>1, <2>2
<1>2. CASE s.ok /\ n \in Dedicated
  <2>1. o \in Failing("cleanup", s.mem)
    BY <1>0, <1>2
  <2>2. o.mem = s.mem /\ o.cost \in Seq(Kinds) /\ ToSet(o.cost) = {"cleanup"}
    BY <2>1, FailingFacts DEF Kinds
  <2>3. Hearing(m) => Hearing(s.mem)
    <3>1. CASE n \in Running(m)
      <4> DEFINE w == Halted(m, n)
      <4>1. s.mem = w /\ n \in DOMAIN m.runtimes
        BY <1>2, <3>1, StopsLeads DEF Sound, Agrees
      <4>2. Hearing(m) => Hearing(w)
        BY <4>1, HaltedSound
      <4> QED BY <4>1, <4>2
    <3>2. CASE n \notin Running(m)
      BY <1>2, <3>2, StopsLeads
    <3> QED BY <3>1, <3>2
  <2>4. Leads(m, o, {n})
    BY <1>s, <2>2, <2>3 DEF Leads
  <2> QED BY <1>s, <2>2, <2>4
<1>3. CASE s.ok /\ n \notin Dedicated
  <2> DEFINE w == Removed(s.mem, {n})
  <2>1. o = Outcome(w, TRUE, s.cost)
    BY <1>0, <1>3
  <2>2. o.mem = w /\ o.cost = s.cost
    BY <2>1 DEF Outcome
  <2>3. /\ Sound(w) /\ Keeps(s.mem, w, {n}) /\ (Hearing(s.mem) => Hearing(w))
        /\ DOMAIN w.nodes = DOMAIN s.mem.nodes \ {n}
    BY <1>3, <1>s, <1>n, RemovedSound, Zenon
  <2> HIDE DEF w
  <2>4. Keeps(m, w, {n})
    BY <1>s, <2>3 DEF Leads, Keeps
  <2>5. Leads(m, o, {n})
    BY <1>s, <1>n, <2>2, <2>3, <2>4 DEF Leads
  <2> QED BY <1>s, <2>2, <2>3, <2>5
<1> QED BY <1>s, <1>1, <1>2, <1>3

LEMMA RebuiltLeads ==
  ASSUME NEW m, Sound(m), NEW n \in DOMAIN m.runtimes, NEW config \in Config,
         config.port = m.runtimes[n].port, NEW o \in Rebuilt(m, n, config)
  PROVE  /\ Leads(m, o, {n})
         /\ o.ok \in BOOLEAN
         /\ o.ok => o.mem = Served(m, n, config, config.port) /\ m.runtimes[n].listening
         /\ ~o.ok => o.mem = m
         /\ m.runtimes[n].listening /\ "start" \notin ToSet(o.cost) => o.ok
<1>n. n \in Nodes /\ config.port \in Ports
  BY SoundFacts, MapsFacts
<1>1. CASE ~m.runtimes[n].listening
  <2>1. o = Outcome(m, FALSE, << >>)
    BY <1>1 DEF Rebuilt
  <2>2. o.mem = m /\ o.ok = FALSE /\ o.cost = << >>
    BY <2>1 DEF Outcome
  <2>3. Leads(m, o, {n})
    BY <2>2, NoCost, Unmoved
  <2> QED BY <1>1, <2>2, <2>3
<1>2. CASE m.runtimes[n].listening
  <2>1. CASE o = Outcome(Served(m, n, config, config.port), TRUE, << >>)
    <3> DEFINE w == Served(m, n, config, config.port)
    <3>1. o.mem = w /\ o.ok = TRUE /\ o.cost = << >>
      BY <2>1 DEF Outcome
    <3>2. Vacant(m, n, config.port)
      BY <1>2 DEF Vacant, Sound, Apart
    <3>3. Sound(w) /\ Keeps(m, w, {n}) /\ (Hearing(m) => Hearing(w))
      BY <1>n, <3>2, ServedSound
    <3>4. Leads(m, o, {n})
      BY <3>1, <3>3, NoCost DEF Leads
    <3> QED BY <1>2, <3>1, <3>4
  <2>2. CASE o \in Failing("start", m)
    <3>1. o.mem = m /\ o.ok = FALSE /\ o.cost \in Seq(Kinds) /\ ToSet(o.cost) = {"start"}
      BY <2>2, FailingFacts DEF Kinds
    <3> QED BY <3>1, Unmoved
  <2>3. \/ o = Outcome(Served(m, n, config, config.port), TRUE, << >>)
        \/ o \in Failing("start", m)
    BY <1>2 DEF Rebuilt
  <2> QED BY <2>1, <2>2, <2>3
<1> QED BY <1>1, <1>2

LEMMA MovedLeads ==
  ASSUME NEW m, Sound(m), NEW n \in Nodes, NEW config \in Config, NEW o \in Moved(m, n, config)
  PROVE  /\ Leads(m, o, {n})
         /\ o.ok \in BOOLEAN
         /\ o.ok => \E p \in FreePorts(m, config) : o.mem = Served(m, n, config, p)
         /\ ~o.ok => o.mem = m
         /\ HasRoom(m, config) /\ "start" \notin ToSet(o.cost) => o.ok
<1>0. PICK s \in Starts(m, n, config) :
        o \in IF ~s.ok THEN {s}
              ELSE {s} \cup {[s EXCEPT !.cost = <<"stop">>] : x \in Faults \cap {"stop"}}
  BY DEF Moved
<1>1. CASE o = s
  BY <1>1, StartsLeads
<1>2. CASE o # s
  <2>1. s.ok /\ o = [s EXCEPT !.cost = <<"stop">>]
    BY <1>0, <1>2
  <2>2. PICK p \in FreePorts(m, config) : s.mem = Served(m, n, config, p)
    BY <2>1, StartsLeads
  <2>3. s = Outcome(s.mem, s.ok, s.cost)
    BY DEF Starts, Outcome, Failing
  <2>4. o.mem = s.mem /\ o.ok = s.ok /\ o.cost = <<"stop">>
    BY <2>1, <2>3 DEF Outcome
  <2>5. <<"stop">> \in Seq(Kinds) /\ ToSet(<<"stop">>) = {"stop"}
    BY OneCost DEF Kinds
  <2>6. Leads(m, s, {n}) /\ s.ok \in BOOLEAN
    BY StartsLeads
  <2>7. Leads(m, o, {n})
    BY <2>4, <2>5, <2>6 DEF Leads
  <2> QED BY <2>1, <2>2, <2>4, <2>6, <2>7
<1> QED BY <1>1, <1>2

\* A node that starts with config: on the port it asks for, or on one nobody listens on.
ServedOn(m, n, config, w) ==
  \E p \in Ports : /\ Vacant(m, n, p) /\ config.port \in {AnyPort, p}
                  /\ w = Served(m, n, config, p)

\* What Manager.Update makes of the node n.
Updated(m, n, config, o) ==
  /\ Leads(m, o, {n})
  /\ o.ok \in BOOLEAN
  /\ ~o.ok => o.mem = m
  /\ o.ok /\ n \in Running(m) => ServedOn(m, n, config, o.mem)
  /\ n \notin Running(m) => o.ok /\ o.mem = Listed(m, n, config, "stopped")
  /\ /\ n \in Running(m) /\ Hearing(m) /\ "start" \notin ToSet(o.cost)
     /\ HasRoom(m, config) \/ config.port = m.runtimes[n].port
     => o.ok

LEMMA UpdatesUpdated ==
  ASSUME NEW m, Sound(m), NEW n \in DOMAIN m.nodes, NEW config \in Config, NEW o \in Updates(m, n, config)
  PROVE  Updated(m, n, config, o)
<1>n. n \in Nodes /\ m.nodes[n].status \in {"running", "stopped"}
  BY SoundFacts
<1>1. CASE m.nodes[n].status = "stopped"
  <2> DEFINE w == Listed(m, n, config, "stopped")
  <2>1. o = Outcome(w, TRUE, << >>)
    BY <1>1 DEF Updates
  <2>2. o.mem = w /\ o.ok = TRUE /\ o.cost = << >>
    BY <2>1 DEF Outcome
  <2>3. n \notin Running(m) /\ n \notin DOMAIN m.runtimes
    BY <1>1 DEF Sound, Agrees, Running
  <2>4. Sound(w) /\ Keeps(m, w, {n}) /\ w.runtimes = m.runtimes
    BY <1>n, <2>3, ListedSound
  <2>5. Leads(m, o, {n})
    BY <2>2, <2>4, NoCost DEF Leads, Hearing
  <2> QED BY <2>2, <2>3, <2>5 DEF Updated
<1>2. CASE m.nodes[n].status = "running" /\ config.port = m.runtimes[n].port
  <2>1. n \in Running(m) /\ n \in DOMAIN m.runtimes /\ m.nodes[n].status # "stopped"
    BY <1>2 DEF Sound, Agrees, Running
  <2>2. o \in Rebuilt(m, n, config)
    BY <1>2, <2>1 DEF Updates
  <2>3. /\ Leads(m, o, {n})
        /\ o.ok \in BOOLEAN
        /\ o.ok => o.mem = Served(m, n, config, config.port) /\ m.runtimes[n].listening
        /\ ~o.ok => o.mem = m
        /\ m.runtimes[n].listening /\ "start" \notin ToSet(o.cost) => o.ok
    BY <1>2, <2>1, <2>2, RebuiltLeads
  <2>4. ASSUME o.ok PROVE ServedOn(m, n, config, o.mem)
    <3>1. config.port \in Ports /\ m.runtimes[n].listening
      BY <1>2, <2>1, <2>3, <2>4, SoundFacts
    <3>2. Vacant(m, n, config.port)
      BY <1>2, <2>1, <3>1 DEF Vacant, Sound, Apart
    <3> QED BY <2>3, <2>4, <3>1, <3>2 DEF ServedOn
  <2> QED BY <2>1, <2>3, <2>4 DEF Hearing, Updated
<1>3. CASE m.nodes[n].status = "running" /\ config.port # m.runtimes[n].port
  <2>1. n \in Running(m) /\ m.nodes[n].status # "stopped"
    BY <1>3 DEF Running
  <2>2. o \in Moved(m, n, config)
    BY <1>3, <2>1 DEF Updates
  <2>3. /\ Leads(m, o, {n})
        /\ o.ok \in BOOLEAN
        /\ o.ok => \E p \in FreePorts(m, config) : o.mem = Served(m, n, config, p)
        /\ ~o.ok => o.mem = m
        /\ HasRoom(m, config) /\ "start" \notin ToSet(o.cost) => o.ok
    BY <1>n, <2>2, MovedLeads
  <2>4. ASSUME o.ok PROVE ServedOn(m, n, config, o.mem)
    <3>1. PICK p \in FreePorts(m, config) : o.mem = Served(m, n, config, p)
      BY <2>3, <2>4
    <3>2. p \in Ports /\ Vacant(m, n, p) /\ config.port \in {AnyPort, p}
      BY FreeIsVacant DEF FreePorts
    <3> QED BY <3>1, <3>2 DEF ServedOn
  <2> QED BY <1>3, <2>1, <2>3, <2>4 DEF Updated
<1> QED BY <1>n, <1>1, <1>2, <1>3

LEMMA UpdatesLeads ==
  ASSUME NEW m, Sound(m), NEW n \in DOMAIN m.nodes, NEW config \in Config, NEW o \in Updates(m, n, config)
  PROVE  Leads(m, o, {n}) /\ o.ok \in BOOLEAN /\ (~o.ok => o.mem = m)
<1>1. Updated(m, n, config, o)
  BY UpdatesUpdated
<1> QED BY <1>1 DEF Updated

LEMMA UpdatesReach ==
  ASSUME NEW m, Sound(m), NEW n \in DOMAIN m.nodes, NEW config \in Config, NEW o \in Updates(m, n, config)
  PROVE  /\ o.ok /\ n \in Running(m) => ServedOn(m, n, config, o.mem)
         /\ n \notin Running(m) => o.ok /\ o.mem = Listed(m, n, config, "stopped")
<1>1. Updated(m, n, config, o)
  BY UpdatesUpdated
<1> QED BY <1>1 DEF Updated

LEMMA UpdatesSucceed ==
  ASSUME NEW m, Sound(m), NEW n \in DOMAIN m.nodes, NEW config \in Config, NEW o \in Updates(m, n, config),
         n \in Running(m), Hearing(m), "start" \notin ToSet(o.cost),
         HasRoom(m, config) \/ config.port = m.runtimes[n].port
  PROVE  o.ok
<1>1. Updated(m, n, config, o)
  BY UpdatesUpdated
<1> QED BY <1>1 DEF Updated

\* Restarts and Reinstates of a node that runs afterwards.
LEMMA StartsOn ==
  ASSUME NEW m, Sound(m), NEW n \in Nodes, NEW config \in Config, NEW o \in Starts(m, n, config)
  PROVE  o.ok => ServedOn(m, n, config, o.mem)
<1> SUFFICES ASSUME o.ok PROVE ServedOn(m, n, config, o.mem)
  OBVIOUS
<1>1. PICK p \in FreePorts(m, config) : o.mem = Served(m, n, config, p)
  BY StartsLeads
<1>2. p \in Ports /\ Vacant(m, n, p) /\ config.port \in {AnyPort, p}
  BY FreeIsVacant DEF FreePorts
<1> QED BY <1>1, <1>2 DEF ServedOn

LEMMA RestartsLeads ==
  ASSUME NEW m, Sound(m), NEW n \in DOMAIN m.nodes, NEW o \in Restarts(m, n)
  PROVE  /\ Leads(m, o, {n})
         /\ o.ok \in BOOLEAN
         /\ ~o.ok => o.mem = m /\ n \notin Running(m)
         /\ o.ok /\ n \notin Running(m) => ServedOn(m, n, m.nodes[n].config, o.mem)
         /\ n \in Running(m) => o.ok /\ o.mem = m
         /\ HasRoom(m, m.nodes[n].config) /\ "start" \notin ToSet(o.cost) => o.ok
<1>n. n \in Nodes /\ m.nodes[n].config \in Config
  BY SoundFacts
<1>1. CASE n \in Running(m)
  <2>1. o = Outcome(m, TRUE, << >>)
    BY <1>1 DEF Restarts, Running
  <2>2. o.mem = m /\ o.ok = TRUE /\ o.cost = << >>
    BY <2>1 DEF Outcome
  <2>3. Leads(m, o, {n})
    BY <2>2, NoCost, Unmoved
  <2> QED BY <1>1, <2>2, <2>3
<1>2. CASE n \notin Running(m)
  <2>1. o \in Starts(m, n, m.nodes[n].config)
    BY <1>2 DEF Restarts, Running
  <2> QED BY <1>n, <1>2, <2>1, StartsLeads, StartsOn
<1> QED BY <1>1, <1>2

LEMMA ReinstatesLeads ==
  ASSUME NEW m, Sound(m), NEW n \in Nodes \ DOMAIN m.nodes, NEW node \in Node,
         NEW o \in Reinstates(m, n, node)
  PROVE  /\ Leads(m, o, {n})
         /\ o.ok \in BOOLEAN
         /\ ~o.ok => o.mem = m
         /\ o.ok /\ node.status = "stopped" => o.mem = Listed(m, n, node.config, "stopped")
         /\ o.ok /\ node.status # "stopped" => ServedOn(m, n, node.config, o.mem)
         /\ o.ok => ~(Cardinality(DOMAIN m.nodes) >= limit)
         /\ /\ ~(Cardinality(DOMAIN m.nodes) >= limit)
            /\ node.status = "stopped" \/ (HasRoom(m, node.config) /\ "start" \notin ToSet(o.cost))
            => o.ok
<1>n. node.config \in Config /\ n \notin DOMAIN m.runtimes
  BY DEF Node, Sound, Agrees, Running
<1>1. CASE Cardinality(DOMAIN m.nodes) >= limit
  <2>1. o = Outcome(m, FALSE, << >>)
    BY <1>1 DEF Reinstates
  <2>2. o.mem = m /\ o.ok = FALSE /\ o.cost = << >>
    BY <2>1 DEF Outcome
  <2>3. Leads(m, o, {n})
    BY <2>2, NoCost, Unmoved
  <2> QED BY <1>1, <2>2, <2>3
<1>2. CASE ~(Cardinality(DOMAIN m.nodes) >= limit) /\ node.status = "stopped"
  <2> DEFINE w == Listed(m, n, node.config, "stopped")
  <2>1. o = Outcome(w, TRUE, << >>)
    BY <1>2 DEF Reinstates
  <2>2. o.mem = w /\ o.ok = TRUE /\ o.cost = << >>
    BY <2>1 DEF Outcome
  <2>3. Sound(w) /\ Keeps(m, w, {n}) /\ w.runtimes = m.runtimes
    BY <1>n, ListedSound
  <2>4. Leads(m, o, {n})
    BY <2>2, <2>3, NoCost DEF Leads, Hearing
  <2> QED BY <1>2, <2>2, <2>4
<1>3. CASE ~(Cardinality(DOMAIN m.nodes) >= limit) /\ node.status # "stopped"
  <2>1. o \in Starts(m, n, node.config)
    BY <1>3 DEF Reinstates
  <2> QED BY <1>n, <1>3, <2>1, StartsLeads, StartsOn
<1> QED BY <1>1, <1>2, <1>3

LEMMA BatchServedSound ==
  ASSUME NEW m, Sound(m), NEW S \in SUBSET Nodes, S \cap DOMAIN m.runtimes = {},
         NEW configs, S \subseteq DOMAIN configs, \A k \in S : configs[k] \in Config,
         NEW g \in Assignments(m, configs, S)
  PROVE  LET w == BatchServed(m, configs, S, g) IN
         /\ Sound(w) /\ Keeps(m, w, S)
         /\ Hearing(m) => Hearing(w)
         /\ DOMAIN w.nodes = DOMAIN m.nodes \cup S
         /\ S \subseteq DOMAIN w.runtimes
<1> DEFINE w == BatchServed(m, configs, S, g)
<1>1. m \in Managers /\ DOMAIN m.nodes \subseteq Nodes /\ DOMAIN m.runtimes \subseteq Nodes
  BY SoundFacts, MapsFacts DEF Sound, Managers
<1>2. /\ \A k \in DOMAIN m.nodes : m.nodes[k] \in Node
      /\ \A k \in DOMAIN m.runtimes : m.runtimes[k] \in Runtime
  BY SoundFacts
<1>3. \A k \in S : g[k] \in Ports /\ g[k] \notin TakenPorts(m)
  BY DEF Assignments, FreePorts
<1>4. \A k, l \in S : g[k] = g[l] => k = l
  BY DEF Assignments
<1>5. /\ DOMAIN w.nodes = DOMAIN m.nodes \cup S
      /\ \A k \in DOMAIN m.nodes \ S : w.nodes[k] = m.nodes[k]
      /\ \A k \in S : w.nodes[k] = [config |-> [configs[k] EXCEPT !.port = g[k]], status |-> "running"]
  BY DEF BatchServed
<1>6. /\ DOMAIN w.runtimes = DOMAIN m.runtimes \cup S
      /\ \A k \in DOMAIN m.runtimes : w.runtimes[k] = m.runtimes[k]
      /\ \A k \in S : w.runtimes[k] = [settings |-> configs[k].settings, port |-> g[k], listening |-> TRUE]
  BY DEF BatchServed
<1>s. ASSUME NEW k \in S
      PROVE  /\ w.nodes[k] \in Node /\ w.nodes[k].status = "running"
             /\ w.nodes[k].config.port = g[k] /\ w.nodes[k].config.settings = configs[k].settings
             /\ w.runtimes[k] \in Runtime /\ w.runtimes[k].listening
             /\ w.runtimes[k].port = g[k] /\ w.runtimes[k].settings = configs[k].settings
  <2> DEFINE config == [configs[k] EXCEPT !.port = g[k]]
  <2>1. w.nodes[k] = [config |-> config, status |-> "running"]
    BY <1>5
  <2>2. w.runtimes[k] = [settings |-> configs[k].settings, port |-> g[k], listening |-> TRUE]
    BY <1>6
  <2>3. configs[k] \in Config /\ g[k] \in Ports
    BY <1>3
  <2>4. config \in Config /\ config.port = g[k] /\ config.settings = configs[k].settings
    BY <2>3 DEF Config
  <2>5. configs[k].settings \in Settings
    BY <2>3 DEF Config
  <2> HIDE DEF config, w
  <2> QED BY <2>1, <2>2, <2>3, <2>4, <2>5 DEF Node, Runtime
<1>7. w \in Managers
  <2>1. w.nodes = [k \in DOMAIN w.nodes |-> w.nodes[k]] /\ w.runtimes = [k \in DOMAIN w.runtimes |-> w.runtimes[k]]
    BY DEF BatchServed
  <2>2. w = [nodes |-> w.nodes, runtimes |-> w.runtimes]
    BY DEF BatchServed
  <2> HIDE DEF w
  <2>3. ASSUME NEW k \in DOMAIN w.nodes PROVE w.nodes[k] \in Node
    <3>1. CASE k \in S
      BY <3>1, <1>s
    <3>2. CASE k \notin S
      BY <3>2, <1>2, <1>5
    <3> QED BY <3>1, <3>2
  <2>4. ASSUME NEW k \in DOMAIN w.runtimes PROVE w.runtimes[k] \in Runtime
    <3>1. CASE k \in S
      BY <3>1, <1>s
    <3>2. CASE k \notin S
      BY <3>2, <1>2, <1>6
    <3> QED BY <3>1, <3>2
  <2>5. w.nodes \in [DOMAIN w.nodes -> Node] /\ DOMAIN w.nodes \subseteq Nodes
    BY <2>1, <2>3, <1>1, <1>5
  <2>6. w.runtimes \in [DOMAIN w.runtimes -> Runtime] /\ DOMAIN w.runtimes \subseteq Nodes
    BY <2>1, <2>4, <1>1, <1>6
  <2>7. w.nodes \in Maps(Nodes, Node) /\ w.runtimes \in Maps(Nodes, Runtime)
    BY <2>5, <2>6, MapsFacts
  <2> QED BY <2>2, <2>7 DEF Managers
<1> HIDE DEF w
<1>8. DOMAIN m.runtimes = Running(m)
  BY DEF Sound, Agrees
<1>9. DOMAIN w.runtimes = Running(w)
  <2>1. \A k \in S : k \in Running(w)
    BY <1>5, <1>s DEF Running
  <2>2. \A k : k \notin S => (k \in Running(w) <=> k \in Running(m))
    BY <1>5 DEF Running
  <2> QED BY <2>1, <2>2, <1>6, <1>8
<1>10. ASSUME NEW k \in DOMAIN w.runtimes
       PROVE  /\ w.runtimes[k].port = w.nodes[k].config.port
              /\ w.runtimes[k].settings = w.nodes[k].config.settings
  <2>1. CASE k \in S
    BY <2>1, <1>s
  <2>2. CASE k \notin S
    <3>1. k \in DOMAIN m.runtimes /\ k \in DOMAIN m.nodes
      BY <2>2, <1>6, <1>8 DEF Running
    <3> QED BY <2>2, <3>1, <1>5, <1>6 DEF Sound, Agrees
  <2> QED BY <2>1, <2>2
<1>11. Apart(w)
  <2> SUFFICES ASSUME NEW i \in DOMAIN w.runtimes, NEW k \in DOMAIN w.runtimes,
                      w.runtimes[i].listening, w.runtimes[k].listening,
                      w.runtimes[i].port = w.runtimes[k].port
               PROVE  i = k
    BY DEF Apart
  <2>1. \A x \in S : w.runtimes[x].port = g[x]
    BY <1>s
  <2>2. \A x \in DOMAIN m.runtimes : m.runtimes[x].listening => m.runtimes[x].port \in TakenPorts(m)
    BY DEF TakenPorts
  <2>3. CASE i \in S /\ k \in S
    BY <2>1, <2>3, <1>4
  <2>4. CASE i \in S /\ k \notin S
    BY <2>1, <2>2, <2>4, <1>3, <1>6
  <2>5. CASE i \notin S /\ k \in S
    BY <2>1, <2>2, <2>5, <1>3, <1>6
  <2>6. CASE i \notin S /\ k \notin S
    BY <2>6, <1>6 DEF Sound, Apart
  <2> QED BY <2>3, <2>4, <2>5, <2>6
<1>12. Hearing(m) => Hearing(w)
  BY <1>6, <1>s DEF Hearing
<1>13. Sound(w) /\ Keeps(m, w, S)
  BY <1>5, <1>7, <1>9, <1>10, <1>11 DEF Sound, Agrees, Keeps
<1> QED BY <1>5, <1>6, <1>12, <1>13 DEF w

LEMMA BatchUndoneSound ==
  ASSUME NEW m, Sound(m), NEW S, S \subseteq DOMAIN m.runtimes, NEW T \in SUBSET S
  PROVE  LET w == BatchUndone(m, S, T) IN
         /\ Sound(w) /\ Keeps(m, w, S)
         /\ T = {} /\ Hearing(m) => Hearing(w)
         /\ DOMAIN w.nodes \subseteq DOMAIN m.nodes
         /\ T = {} /\ S \cap Dedicated = {} => DOMAIN w.nodes = DOMAIN m.nodes \ S
<1> DEFINE w == BatchUndone(m, S, T)
<1> DEFINE pooled == (S \cap Dedicated) \ T
<1>1. m \in Managers /\ DOMAIN m.nodes \subseteq Nodes /\ DOMAIN m.runtimes \subseteq Nodes
  BY SoundFacts, MapsFacts DEF Sound, Managers
<1>2. /\ \A k \in DOMAIN m.nodes : m.nodes[k] \in Node
      /\ \A k \in DOMAIN m.runtimes : m.runtimes[k] \in Runtime
  BY SoundFacts
<1>3. DOMAIN m.runtimes = Running(m)
  BY DEF Sound, Agrees
<1>4. /\ w.nodes = [k \in DOMAIN m.nodes \ (S \ (T \cup pooled)) |->
                     IF k \in pooled THEN [m.nodes[k] EXCEPT !.status = "stopped"] ELSE m.nodes[k]]
      /\ w.runtimes = [k \in DOMAIN m.runtimes \ (S \ T) |->
                        [m.runtimes[k] EXCEPT !.listening = @ /\ k \notin T]]
      /\ w = [nodes |-> w.nodes, runtimes |-> w.runtimes]
  BY DEF BatchUndone
<1> HIDE DEF w
<1>5. /\ DOMAIN w.nodes = DOMAIN m.nodes \ (S \ (T \cup pooled))
      /\ \A k \in DOMAIN w.nodes \ pooled : w.nodes[k] = m.nodes[k]
      /\ \A k \in DOMAIN w.nodes \cap pooled : w.nodes[k] = [m.nodes[k] EXCEPT !.status = "stopped"]
  BY <1>4
<1>6. DOMAIN w.runtimes = DOMAIN m.runtimes \ (S \ T)
  BY <1>4
<1>7. ASSUME NEW k \in DOMAIN w.runtimes
      PROVE  /\ w.runtimes[k] \in Runtime
             /\ w.runtimes[k].port = m.runtimes[k].port
             /\ w.runtimes[k].settings = m.runtimes[k].settings
             /\ w.runtimes[k].listening = (m.runtimes[k].listening /\ k \notin T)
  <2>1. w.runtimes[k] = [m.runtimes[k] EXCEPT !.listening = @ /\ k \notin T] /\ m.runtimes[k] \in Runtime
    BY <1>2, <1>4
  <2> QED BY <2>1 DEF Runtime
<1>8. w \in Managers
  <2>1. ASSUME NEW k \in DOMAIN w.nodes PROVE w.nodes[k] \in Node
    <3>1. m.nodes[k] \in Node
      BY <1>2, <1>5
    <3>2. CASE k \in pooled
      BY <3>1, <3>2, <1>5 DEF Node
    <3>3. CASE k \notin pooled
      BY <3>1, <3>3, <1>5
    <3> QED BY <3>2, <3>3
  <2>2. w.nodes \in [DOMAIN w.nodes -> Node] /\ DOMAIN w.nodes \subseteq Nodes
    BY <2>1, <1>1, <1>4, <1>5
  <2>3. w.runtimes \in [DOMAIN w.runtimes -> Runtime] /\ DOMAIN w.runtimes \subseteq Nodes
    BY <1>1, <1>4, <1>6, <1>7
  <2>4. w.nodes \in Maps(Nodes, Node) /\ w.runtimes \in Maps(Nodes, Runtime)
    BY <2>2, <2>3, MapsFacts
  <2> QED BY <2>4, <1>4 DEF Managers
<1>9. \A k \in pooled : k \in DOMAIN w.nodes => w.nodes[k].status = "stopped"
  <2> TAKE k \in pooled
  <2> SUFFICES ASSUME k \in DOMAIN w.nodes PROVE w.nodes[k].status = "stopped"
    OBVIOUS
  <2>1. m.nodes[k] \in Node /\ w.nodes[k] = [m.nodes[k] EXCEPT !.status = "stopped"]
    BY <1>2, <1>5
  <2> QED BY <2>1 DEF Node
<1>10. DOMAIN w.runtimes = Running(w)
  <2>1. \A k \in DOMAIN w.runtimes : k \in Running(w)
    BY <1>3, <1>5, <1>6 DEF Running
  <2>2. \A k \in Running(w) : k \in DOMAIN w.runtimes
    BY <1>3, <1>5, <1>6, <1>9 DEF Running
  <2> QED BY <2>1, <2>2
<1>11. ASSUME NEW k \in DOMAIN w.runtimes
       PROVE  /\ w.runtimes[k].port = w.nodes[k].config.port
              /\ w.runtimes[k].settings = w.nodes[k].config.settings
  <2>1. k \in DOMAIN w.nodes /\ k \notin pooled /\ k \in DOMAIN m.runtimes
    BY <1>3, <1>5, <1>6 DEF Running
  <2> QED BY <2>1, <1>5, <1>7 DEF Sound, Agrees
<1>12. Apart(w)
  BY <1>6, <1>7 DEF Sound, Apart
<1>13. T = {} /\ Hearing(m) => Hearing(w)
  BY <1>6, <1>7 DEF Hearing
<1>14. Keeps(m, w, S)
  BY <1>5 DEF Keeps
<1>15. Sound(w)
  BY <1>8, <1>10, <1>11, <1>12 DEF Sound, Agrees
<1> QED BY <1>5, <1>13, <1>14, <1>15 DEF w

LEMMA BatchUndosLeads ==
  ASSUME NEW m, Sound(m), NEW S, S \subseteq DOMAIN m.runtimes, NEW o \in BatchUndos(m, S)
  PROVE  /\ Leads(m, o, S)
         /\ DOMAIN o.mem.nodes \subseteq DOMAIN m.nodes
         /\ "stop" \notin ToSet(o.cost) /\ "cleanup" \notin ToSet(o.cost)
              => DOMAIN o.mem.nodes = DOMAIN m.nodes \ S
<1>1. PICK T \in SUBSET S :
        o = Outcome(BatchUndone(m, S, T), T = {} /\ S \cap Dedicated = {},
                    [i \in 1 .. Cardinality(T \cup (S \cap Dedicated)) |->
                       IF i <= Cardinality(T) THEN "stop" ELSE "cleanup"])
  BY DEF BatchUndos
<1> DEFINE count == Cardinality(T \cup (S \cap Dedicated))
           cost == [i \in 1 .. count |-> IF i <= Cardinality(T) THEN "stop" ELSE "cleanup"]
           w == BatchUndone(m, S, T)
<1>2. o.mem = w /\ o.cost = cost
  BY <1>1 DEF Outcome
<1>3. IsFiniteSet(T) /\ IsFiniteSet(T \cup (S \cap Dedicated))
  <2>1. S \subseteq Nodes
    BY MapsFacts DEF Sound, Managers
  <2> QED BY <2>1, NodeAssumption, FS_Subset
<1>4. count \in Nat /\ Cardinality(T) \in Nat /\ Cardinality(T) <= count
  BY <1>3, FS_CardinalityType, FS_Subset
<1>5. cost \in Seq(Kinds)
  <2>1. \A i \in 1 .. count : cost[i] \in Kinds
    BY DEF Kinds
  <2>2. cost \in [1 .. count -> Kinds]
    BY <2>1
  <2> HIDE DEF cost, count
  <2> QED BY <1>4, <2>2
<1>6. T # {} => "stop" \in ToSet(cost)
  <2> SUFFICES ASSUME T # {} PROVE "stop" \in ToSet(cost)
    OBVIOUS
  <2>1. Cardinality(T) # 0
    BY <1>3, FS_EmptySet
  <2>2. 1 \in DOMAIN cost /\ cost[1] = "stop"
    BY <2>1, <1>4
  <2> HIDE DEF cost
  <2> QED BY <2>2 DEF ToSet
<1>7. T \cup (S \cap Dedicated) # {} => "stop" \in ToSet(cost) \/ "cleanup" \in ToSet(cost)
  <2> SUFFICES ASSUME T \cup (S \cap Dedicated) # {}
               PROVE  "stop" \in ToSet(cost) \/ "cleanup" \in ToSet(cost)
    OBVIOUS
  <2>1. count # 0
    BY <1>3, FS_EmptySet
  <2>2. 1 \in DOMAIN cost /\ cost[1] \in {"stop", "cleanup"}
    BY <2>1, <1>4
  <2> HIDE DEF cost
  <2> QED BY <2>2 DEF ToSet
<1>8. /\ Sound(w) /\ Keeps(m, w, S)
      /\ T = {} /\ Hearing(m) => Hearing(w)
      /\ DOMAIN w.nodes \subseteq DOMAIN m.nodes
      /\ T = {} /\ S \cap Dedicated = {} => DOMAIN w.nodes = DOMAIN m.nodes \ S
  BY BatchUndoneSound, Zenon
<1> HIDE DEF w, cost
<1>9. Leads(m, o, S)
  BY <1>2, <1>5, <1>6, <1>8 DEF Leads
<1> QED BY <1>2, <1>7, <1>8, <1>9

-----------------------------------------------------------------------------
(***************************************************************************)
(* The invariant and what an operation does.                               *)
(***************************************************************************)

\* The nodes a restore starts have ports, and different ones.
FileApart(f) ==
  \A n \in {k \in DOMAIN f : f[k].status = "running"} :
    /\ f[n].config.port \in Ports
    /\ \A k \in DOMAIN f : f[k].status = "running" /\ f[k].config.port = f[n].config.port => k = n

\* A service runs.
Up(p) == p \in {"serving", "cleaning"}

\* A node whose pool is cleaned is not in the table, which has room for it.
Awaited ==
  phase = "cleaning" =>
    /\ \E n \in Nodes \ DOMAIN mem.nodes :
         DOMAIN detached = {n} /\ detached[n] \in Node /\ detached[n].status = "stopped"
    /\ Cardinality(DOMAIN mem.nodes) < limit

\* The table is sound and within the limit, and lists nobody where no service runs; a process
\* that admitted its file lists every node of the file, and runs those that were running, as
\* long as nothing but the failures named went wrong.
Settled ==
  /\ Sound(mem)
  /\ file = Unreadable \/ file \in Maps(Nodes, Node)
  /\ ~Up(phase) => mem = Empty
  /\ Awaited
  /\ limit \in Limits /\ Cardinality(DOMAIN mem.nodes) <= limit
  /\ "stop" \notin failed => Hearing(mem) /\ FileApart(Saved)
  /\ Up(phase) /\ Admitted =>
       /\ failed \subseteq {"save"} => DOMAIN Saved \subseteq DOMAIN mem.nodes
       /\ failed \subseteq {"cleanup"} => SavedRunning \subseteq Running(mem)

\* Whoever the operation removed or stopped was its subject.
Accounted ==
  /\ \A n \in DOMAIN mem.nodes \ DOMAIN mem'.nodes :
       /\ n \in reply'.on /\ reply'.op = "delete"
       /\ reply'.result = "ok" \/ (n \in DOMAIN detached' /\ phase' = "cleaning")
  /\ \A n \in Running(mem) \ Running(mem') :
       /\ n \in reply'.on
       /\ reply'.op = "delete" \/ (reply'.op = "stop" /\ reply'.result = "ok")

\* A refusal that only a save caused shows in no node.
SeenKept ==
  failed' \subseteq {"save", "corrupt"} /\ reply'.result = "refused" /\ reply'.op # "start"
    => Seen(mem'.nodes) = Seen(mem.nodes)

\* The table that is left is in the file, or the file is the old one and the table lost nothing.
Effects ==
  /\ failed \subseteq failed'
  /\ Sound(mem')
  /\ "stop" \notin failed' => Hearing(mem')
  /\ Cardinality(DOMAIN mem'.nodes) <= limit
  /\ \/ file' = mem'.nodes /\ Accounted
     \/ /\ file' = file
        /\ failed' \subseteq {"save"} => DOMAIN mem.nodes \subseteq DOMAIN mem'.nodes
        /\ failed' \subseteq {"cleanup"} => Running(mem) \subseteq Running(mem')
  /\ SeenKept

\* An operation of a service that is up; the two halves of a deletion with a dedicated pool.
Operates == phase = "serving" /\ UNCHANGED <<phase, limit>> /\ Effects
Detaches == phase = "serving" /\ phase' = "cleaning" /\ Awaited' /\ UNCHANGED limit /\ Effects
Reattaches ==
  /\ phase = "cleaning" /\ phase' = "serving" /\ UNCHANGED limit /\ Effects
  /\ "save" \notin failed' => DOMAIN detached \subseteq DOMAIN Saved'

\* Adding nodes takes nothing from those that are there.
LEMMA KeepsNew ==
  ASSUME NEW m, NEW w, NEW S, Keeps(m, w, S), S \cap DOMAIN m.nodes = {}
  PROVE  /\ DOMAIN m.nodes \subseteq DOMAIN w.nodes
         /\ Running(m) \subseteq Running(w)
         /\ \A n \in DOMAIN m.nodes : w.nodes[n] = m.nodes[n]
<1>1. \A n \in DOMAIN m.nodes : n \in DOMAIN w.nodes /\ w.nodes[n] = m.nodes[n]
  BY DEF Keeps
<1> QED BY <1>1 DEF Running

LEMMA KeepsTrans ==
  ASSUME NEW m, NEW w, NEW v, NEW S, Keeps(m, w, S), Keeps(w, v, S)
  PROVE  Keeps(m, v, S)
BY DEF Keeps

\* Tables that differ in ports only look the same.
LEMMA SeenSame ==
  ASSUME NEW f, NEW g, DOMAIN f = DOMAIN g,
         \A n \in DOMAIN f : /\ f[n].status = g[n].status
                            /\ f[n].config.folder = g[n].config.folder
                            /\ f[n].config.settings = g[n].config.settings
  PROVE  Seen(f) = Seen(g)
BY DEF Seen

LEMMA Bounded ==
  ASSUME NEW V, IsFiniteSet(V), NEW U \in SUBSET V, limit \in Nat, Cardinality(V) <= limit
  PROVE  Cardinality(U) <= limit
<1>1. Cardinality(U) <= Cardinality(V) /\ Cardinality(U) \in Nat /\ Cardinality(V) \in Nat
  BY FS_Subset, FS_CardinalityType
<1> QED BY <1>1

LEMMA Counted ==
  Settled => IsFiniteSet(DOMAIN mem.nodes) /\ limit \in Nat /\ Cardinality(DOMAIN mem.nodes) \in Nat
<1> SUFFICES ASSUME Settled
             PROVE  IsFiniteSet(DOMAIN mem.nodes) /\ limit \in Nat /\ Cardinality(DOMAIN mem.nodes) \in Nat
  OBVIOUS
<1>1. DOMAIN mem.nodes \subseteq Nodes
  BY SoundFacts DEF Settled
<1>2. IsFiniteSet(DOMAIN mem.nodes)
  BY <1>1, NodeAssumption, FS_Subset
<1> QED BY <1>2, FS_CardinalityType, LimitAssumption DEF Settled

LEMMA ServedOnFacts ==
  ASSUME NEW m, Sound(m), NEW n \in Nodes, NEW config \in Config, NEW w, ServedOn(m, n, config, w)
  PROVE  /\ DOMAIN w.nodes = DOMAIN m.nodes \cup {n}
         /\ w.nodes[n].status = "running"
         /\ w.nodes[n].config.folder = config.folder
         /\ w.nodes[n].config.settings = config.settings
         /\ Running(w) = Running(m) \cup {n}
         /\ DOMAIN w.runtimes = DOMAIN m.runtimes \cup {n}
         /\ \A k \in DOMAIN m.runtimes \ {n} : w.runtimes[k] = m.runtimes[k]
<1>1. PICK p \in Ports : Vacant(m, n, p) /\ w = Served(m, n, config, p)
  BY DEF ServedOn
<1>2. /\ DOMAIN w.nodes = DOMAIN m.nodes \cup {n}
      /\ w.nodes[n] = [config |-> [config EXCEPT !.port = p], status |-> "running"]
      /\ DOMAIN w.runtimes = DOMAIN m.runtimes \cup {n}
      /\ \A k \in DOMAIN m.runtimes \ {n} : w.runtimes[k] = m.runtimes[k]
      /\ Sound(w)
  <2>1. Sound(w)
    BY <1>1, ServedSound
  <2>2. DOMAIN w.nodes = DOMAIN m.nodes \cup {n} /\ DOMAIN w.runtimes = DOMAIN m.runtimes \cup {n}
    BY <1>1 DEF Served, Put
  <2>3. w.nodes[n] = [config |-> [config EXCEPT !.port = p], status |-> "running"]
    BY <1>1 DEF Served, Put
  <2>4. \A k \in DOMAIN m.runtimes \ {n} : w.runtimes[k] = m.runtimes[k]
    BY <1>1 DEF Served, Put
  <2> QED BY <2>1, <2>2, <2>3, <2>4
<1>3. /\ w.nodes[n].status = "running"
      /\ w.nodes[n].config.folder = config.folder
      /\ w.nodes[n].config.settings = config.settings
  BY <1>2 DEF Config
<1>4. Running(w) = Running(m) \cup {n}
  BY <1>2 DEF Sound, Agrees
<1> QED BY <1>2, <1>3, <1>4

\* The port a node had is free as soon as the node is not on it.
LEMMA OwnPortFree ==
  ASSUME NEW m, Sound(m), Hearing(m), NEW n \in DOMAIN m.runtimes, NEW w,
         DOMAIN w.runtimes \ {n} = DOMAIN m.runtimes \ {n},
         \A k \in DOMAIN m.runtimes \ {n} : w.runtimes[k] = m.runtimes[k],
         n \in DOMAIN w.runtimes => w.runtimes[n].port # m.runtimes[n].port,
         NEW config, config.port = m.runtimes[n].port
  PROVE  HasRoom(w, config)
<1>1. m.runtimes[n].port \in Ports
  BY SoundFacts
<1>2. m.runtimes[n].port \notin TakenPorts(w)
  BY DEF TakenPorts, Sound, Apart, Hearing
<1> QED BY <1>1, <1>2 DEF FreePorts, HasRoom

\* A refusal leaves the file.
LEMMA RefuseFacts ==
  ASSUME NEW op, NEW on, NEW m, NEW cost, Refuse(op, on, m, cost)
  PROVE  /\ UNCHANGED <<file, phase, limit>>
         /\ failed \subseteq failed' /\ ToSet(cost) \subseteq failed'
         /\ mem' = m
         /\ reply'.op = op /\ reply'.on = on /\ reply'.result = "refused"
BY DEF Refuse, Fails, Reply

\* A commit saves what was reached, or takes one of the ways back.
LEMMA CommitFacts ==
  ASSUME NEW op, NEW on, NEW m, NEW cost \in Seq(Kinds), NEW Undos, Commit(op, on, m, cost, Undos),
         \A u \in Undos : u.cost \in Seq(Kinds)
  PROVE  /\ UNCHANGED <<phase, limit>>
         /\ failed \subseteq failed' /\ ToSet(cost) \subseteq failed'
         /\ reply'.op = op /\ reply'.on = on
         /\ \/ /\ mem' = m /\ file' = m.nodes
               /\ reply'.result # "refused" /\ (cost = << >> => reply'.result = "ok")
            \/ /\ file' = file /\ reply'.result = "refused" /\ "save" \in failed'
               /\ \E u \in Undos : mem' = u.mem /\ ToSet(u.cost) \subseteq failed'
<1>1. CASE /\ Fails(cost) /\ mem' = m /\ file' = m.nodes /\ UNCHANGED <<phase, limit>>
           /\ reply' = Reply(op, on, IF cost = << >> THEN "ok" ELSE "unclean")
  BY <1>1 DEF Fails, Reply
<1>2. CASE \E u \in Undos : Refuse(op, on, u.mem, cost \o <<"save">> \o u.cost)
  <2>1. PICK u \in Undos : Refuse(op, on, u.mem, cost \o <<"save">> \o u.cost)
    BY <1>2
  <2>2. <<"save">> \in Seq(Kinds) /\ ToSet(<<"save">>) = {"save"}
    BY OneCost DEF Kinds
  <2>3. cost \o <<"save">> \in Seq(Kinds) /\ ToSet(cost \o <<"save">>) = ToSet(cost) \cup {"save"}
    BY <2>2, CostUnion
  <2>4. ToSet(cost \o <<"save">> \o u.cost) = ToSet(cost) \cup {"save"} \cup ToSet(u.cost)
    BY <2>3, CostUnion
  <2>5. /\ UNCHANGED <<file, phase, limit>>
        /\ failed \subseteq failed' /\ ToSet(cost \o <<"save">> \o u.cost) \subseteq failed'
        /\ mem' = u.mem
        /\ reply'.op = op /\ reply'.on = on /\ reply'.result = "refused"
    BY <2>1, RefuseFacts
  <2> QED BY <2>4, <2>5
<1> QED BY <1>1, <1>2 DEF Commit

-----------------------------------------------------------------------------
(***************************************************************************)
(* Every operation operates.                                               *)
(***************************************************************************)
LEMMA CreateOperates ==
  ASSUME Settled, NEW n \in Nodes, NEW config \in Config, Create(n, config)
  PROVE  Operates
<1>1. /\ phase = "serving" /\ n \notin DOMAIN mem.nodes
      /\ Cardinality(DOMAIN mem.nodes) < limit
  BY DEF Create
<1>2. PICK s \in Starts(mem, n, config) :
        IF s.ok THEN Commit("create", {n}, s.mem, s.cost, Deletes(s.mem, n))
                ELSE Refuse("create", {n}, s.mem, s.cost)
  BY DEF Create
<1>3. Sound(mem) /\ ("stop" \notin failed => Hearing(mem))
  BY DEF Settled
<1>4. /\ Leads(mem, s, {n}) /\ s.ok \in BOOLEAN
      /\ s.ok => ServedOn(mem, n, config, s.mem)
      /\ ~s.ok => s.mem = mem
  BY <1>3, StartsLeads, StartsOn
<1>5. ASSUME NEW U \in SUBSET (DOMAIN mem.nodes \cup {n}) PROVE Cardinality(U) <= limit
  <2>1. /\ IsFiniteSet(DOMAIN mem.nodes \cup {n})
        /\ Cardinality(DOMAIN mem.nodes \cup {n}) = Cardinality(DOMAIN mem.nodes) + 1
    BY <1>1, Counted, FS_AddElement
  <2> QED BY <1>1, <2>1, Counted, Bounded
<1>6. CASE ~s.ok
  <2>1. Refuse("create", {n}, s.mem, s.cost)
    BY <1>2, <1>6
  <2>2. UNCHANGED <<file, phase, limit>> /\ failed \subseteq failed' /\ mem' = mem
    BY <1>4, <1>6, <2>1, RefuseFacts
  <2> QED BY <1>1, <1>3, <2>2 DEF Operates, Effects, SeenKept, Settled
<1>7. CASE s.ok
  <2>0. /\ Commit("create", {n}, s.mem, s.cost, Deletes(s.mem, n))
        /\ DOMAIN s.mem.nodes = DOMAIN mem.nodes \cup {n}
        /\ Sound(s.mem) /\ s.cost \in Seq(Kinds) /\ Keeps(mem, s.mem, {n})
        /\ Hearing(mem) /\ "stop" \notin ToSet(s.cost) => Hearing(s.mem)
    BY <1>2, <1>3, <1>4, <1>7, ServedOnFacts DEF Leads
  <2>u. ASSUME NEW u \in Deletes(s.mem, n)
        PROVE  /\ Leads(s.mem, u, {n})
               /\ DOMAIN u.mem.nodes \subseteq DOMAIN s.mem.nodes
               /\ Hearing(s.mem) /\ "stop" \notin ToSet(u.cost) /\ "cleanup" \notin ToSet(u.cost)
                     => DOMAIN u.mem.nodes = DOMAIN s.mem.nodes \ {n}
    BY <2>0, DeletesLeads
  <2>1. /\ UNCHANGED <<phase, limit>>
        /\ failed \subseteq failed' /\ ToSet(s.cost) \subseteq failed'
        /\ \/ mem' = s.mem /\ file' = s.mem.nodes /\ reply'.result # "refused"
           \/ /\ file' = file /\ reply'.result = "refused" /\ "save" \in failed'
              /\ \E u \in Deletes(s.mem, n) : mem' = u.mem /\ ToSet(u.cost) \subseteq failed'
    BY <2>0, <2>u, CommitFacts DEF Leads
  <2>2. CASE mem' = s.mem /\ file' = s.mem.nodes /\ reply'.result # "refused"
    <3>1. DOMAIN mem.nodes \subseteq DOMAIN mem'.nodes /\ Running(mem) \subseteq Running(mem')
      BY <1>1, <2>0, <2>2, KeepsNew
    <3>2. Cardinality(DOMAIN mem'.nodes) <= limit
      BY <1>5, <2>0, <2>2
    <3>3. Accounted /\ SeenKept
      BY <2>2, <3>1 DEF Accounted, SeenKept
    <3> QED BY <1>1, <1>3, <2>0, <2>1, <2>2, <3>2, <3>3 DEF Operates, Effects
  <2>3. ASSUME file' = file, reply'.result = "refused", "save" \in failed',
               NEW u \in Deletes(s.mem, n), mem' = u.mem, ToSet(u.cost) \subseteq failed'
        PROVE  Operates
    <3>1. Sound(u.mem) /\ Keeps(s.mem, u.mem, {n}) /\ DOMAIN u.mem.nodes \subseteq DOMAIN s.mem.nodes
      BY <2>u, <2>3 DEF Leads
    <3>2. Keeps(mem, u.mem, {n})
      BY <2>0, <3>1, KeepsTrans
    <3>3. /\ DOMAIN mem.nodes \subseteq DOMAIN mem'.nodes /\ Running(mem) \subseteq Running(mem')
          /\ \A k \in DOMAIN mem.nodes : mem'.nodes[k] = mem.nodes[k]
      BY <1>1, <2>3, <3>2, KeepsNew
    <3>4. Cardinality(DOMAIN mem'.nodes) <= limit
      BY <1>5, <2>0, <2>3, <3>1
    <3>5. "stop" \notin failed' => Hearing(s.mem) /\ Hearing(mem')
      BY <1>3, <2>0, <2>1, <2>u, <2>3 DEF Leads
    <3>6. SeenKept
      <4> SUFFICES ASSUME failed' \subseteq {"save", "corrupt"} PROVE Seen(mem'.nodes) = Seen(mem.nodes)
        BY DEF SeenKept
      <4>1. DOMAIN mem'.nodes = DOMAIN mem.nodes
        BY <1>1, <2>0, <2>u, <2>3, <3>5
      <4> QED BY <3>3, <4>1, SeenSame
    <3> QED BY <1>1, <2>1, <2>3, <3>1, <3>3, <3>4, <3>5, <3>6 DEF Operates, Effects
  <2> QED BY <2>1, <2>2, <2>3
<1> QED BY <1>4, <1>6, <1>7

\* An operation on a node that is there, and that stays there.
LEMMA SameDomain ==
  ASSUME NEW m, NEW w, NEW n \in DOMAIN m.nodes, Keeps(m, w, {n}), n \in DOMAIN w.nodes
  PROVE  /\ DOMAIN w.nodes = DOMAIN m.nodes
         /\ \A k \in DOMAIN m.nodes \ {n} : w.nodes[k] = m.nodes[k]
         /\ \A k \in Running(m) : k # n => k \in Running(w)
<1>1. DOMAIN w.nodes = DOMAIN m.nodes
  BY DEF Keeps
<1>2. \A k \in DOMAIN m.nodes \ {n} : w.nodes[k] = m.nodes[k]
  BY DEF Keeps
<1> QED BY <1>1, <1>2 DEF Running

LEMMA ListedFacts ==
  ASSUME NEW m, Sound(m), NEW n \in Nodes, NEW config \in Config, n \notin DOMAIN m.runtimes,
         NEW w, w = Listed(m, n, config, "stopped")
  PROVE  /\ DOMAIN w.nodes = DOMAIN m.nodes \cup {n}
         /\ w.nodes[n].status = "stopped" /\ w.nodes[n].config = config
         /\ w.runtimes = m.runtimes
<1>1. m \in Managers
  BY DEF Sound
<1>2. DOMAIN w.nodes = DOMAIN m.nodes \cup {n} /\ w.runtimes = m.runtimes
  BY <1>1 DEF Listed, Put, Managers
<1>3. w.nodes[n] = [config |-> config, status |-> "stopped"]
  BY <1>1 DEF Listed, Put, Managers
<1> QED BY <1>2, <1>3

LEMMA UpdatesFacts ==
  ASSUME NEW m, Sound(m), NEW n \in DOMAIN m.nodes, NEW config \in Config, NEW o \in Updates(m, n, config)
  PROVE  /\ n \in DOMAIN o.mem.nodes
         /\ n \in Running(m) <=> n \in Running(o.mem)
         /\ o.ok => /\ o.mem.nodes[n].status = m.nodes[n].status
                    /\ o.mem.nodes[n].config.folder = config.folder
                    /\ o.mem.nodes[n].config.settings = config.settings
<1>n. n \in Nodes /\ m.nodes[n].status \in {"running", "stopped"}
  BY SoundFacts
<1>1. CASE ~o.ok
  <2>1. ~o.ok => o.mem = m
    BY UpdatesLeads
  <2> QED BY <1>1, <2>1
<1>2. CASE o.ok /\ n \in Running(m)
  <2>1. ServedOn(m, n, config, o.mem)
    BY <1>2, UpdatesReach
  <2>2. /\ DOMAIN o.mem.nodes = DOMAIN m.nodes \cup {n}
        /\ o.mem.nodes[n].status = "running"
        /\ o.mem.nodes[n].config.folder = config.folder
        /\ o.mem.nodes[n].config.settings = config.settings
    BY <1>n, <2>1, ServedOnFacts
  <2>3. n \in DOMAIN o.mem.nodes /\ n \in Running(o.mem)
    BY <2>2 DEF Running
  <2>4. m.nodes[n].status = "running"
    BY <1>2 DEF Running
  <2>5. o.mem.nodes[n].status = m.nodes[n].status
    BY <2>2, <2>4
  <2>6. o.mem.nodes[n].config.folder = config.folder /\ o.mem.nodes[n].config.settings = config.settings
    BY <2>2
  <2> QED BY <1>2, <2>3, <2>5, <2>6, Zenon
<1>3. CASE n \notin Running(m)
  <2>1. o.mem = Listed(m, n, config, "stopped") /\ n \notin DOMAIN m.runtimes
    BY <1>3, UpdatesReach DEF Sound, Agrees
  <2>2. /\ DOMAIN o.mem.nodes = DOMAIN m.nodes \cup {n}
        /\ o.mem.nodes[n].status = "stopped" /\ o.mem.nodes[n].config = config
    BY <1>n, <2>1, ListedFacts
  <2> QED BY <1>n, <1>3, <2>2 DEF Running
<1>4. o.ok \in BOOLEAN
  BY UpdatesLeads
<1> QED BY <1>1, <1>2, <1>3, <1>4

LEMMA UpdateOperates ==
  ASSUME Settled, NEW n \in Nodes, NEW config \in Config, Update(n, config)
  PROVE  Operates
<1>1. phase = "serving" /\ n \in DOMAIN mem.nodes
  BY DEF Update
<1> DEFINE old == mem.nodes[n].config
<1>2. PICK s \in Updates(mem, n, config) :
        IF s.ok THEN Commit("update", {n}, s.mem, s.cost, Updates(s.mem, n, old))
                ELSE Refuse("update", {n}, s.mem, s.cost)
  BY DEF Update
<1>3. Sound(mem) /\ ("stop" \notin failed => Hearing(mem)) /\ old \in Config
  BY <1>1, SoundFacts DEF Settled
<1>4. Leads(mem, s, {n}) /\ s.ok \in BOOLEAN /\ (~s.ok => s.mem = mem)
  BY <1>1, <1>3, UpdatesLeads
<1>5. n \in DOMAIN s.mem.nodes /\ (n \in Running(mem) <=> n \in Running(s.mem))
  BY <1>1, <1>3, UpdatesFacts
<1>6. CASE ~s.ok
  <2>1. Refuse("update", {n}, s.mem, s.cost)
    BY <1>2, <1>6
  <2>2. UNCHANGED <<file, phase, limit>> /\ failed \subseteq failed' /\ mem' = mem
    BY <1>4, <1>6, <2>1, RefuseFacts
  <2> QED BY <1>1, <1>3, <2>2 DEF Operates, Effects, SeenKept, Settled
<1>7. CASE s.ok
  <2>0. /\ Commit("update", {n}, s.mem, s.cost, Updates(s.mem, n, old))
        /\ Sound(s.mem) /\ s.cost \in Seq(Kinds) /\ Keeps(mem, s.mem, {n})
        /\ Hearing(mem) /\ "stop" \notin ToSet(s.cost) => Hearing(s.mem)
    BY <1>2, <1>4, <1>7 DEF Leads
  <2>u. ASSUME NEW u \in Updates(s.mem, n, old)
        PROVE  /\ Leads(s.mem, u, {n}) /\ n \in DOMAIN u.mem.nodes
               /\ n \in Running(s.mem) <=> n \in Running(u.mem)
    <3>1. Leads(s.mem, u, {n})
      BY <1>3, <1>5, <2>0, UpdatesLeads
    <3>2. n \in DOMAIN u.mem.nodes /\ (n \in Running(s.mem) <=> n \in Running(u.mem))
      BY <1>3, <1>5, <2>0, UpdatesFacts
    <3> QED BY <3>1, <3>2
  <2>1. /\ UNCHANGED <<phase, limit>>
        /\ failed \subseteq failed' /\ ToSet(s.cost) \subseteq failed'
        /\ \/ mem' = s.mem /\ file' = s.mem.nodes /\ reply'.result # "refused"
           \/ /\ file' = file /\ reply'.result = "refused" /\ "save" \in failed'
              /\ \E u \in Updates(s.mem, n, old) : mem' = u.mem /\ ToSet(u.cost) \subseteq failed'
    BY <2>0, <2>u, CommitFacts DEF Leads
  <2>2. CASE mem' = s.mem /\ file' = s.mem.nodes /\ reply'.result # "refused"
    <3>1. DOMAIN mem'.nodes = DOMAIN mem.nodes /\ Running(mem) \subseteq Running(mem')
      BY <1>1, <1>5, <2>0, <2>2, SameDomain
    <3>2. Accounted /\ SeenKept
      BY <2>2, <3>1 DEF Accounted, SeenKept
    <3>3. "stop" \notin failed' => Hearing(mem')
      BY <1>3, <2>0, <2>1, <2>2
    <3>4. Cardinality(DOMAIN mem'.nodes) <= limit
      BY <3>1 DEF Settled
    <3> QED BY <1>1, <2>0, <2>1, <2>2, <3>2, <3>3, <3>4 DEF Operates, Effects
  <2>3. ASSUME file' = file, reply'.result = "refused", "save" \in failed',
               NEW u \in Updates(s.mem, n, old), mem' = u.mem, ToSet(u.cost) \subseteq failed'
        PROVE  Operates
    <3>1. /\ Sound(u.mem) /\ Keeps(s.mem, u.mem, {n}) /\ n \in DOMAIN u.mem.nodes
          /\ n \in Running(s.mem) <=> n \in Running(u.mem)
      BY <2>u, <2>3 DEF Leads
    <3>2. Keeps(mem, u.mem, {n})
      BY <2>0, <3>1, KeepsTrans
    <3>3. /\ DOMAIN mem'.nodes = DOMAIN mem.nodes /\ Running(mem) \subseteq Running(mem')
          /\ \A k \in DOMAIN mem.nodes \ {n} : mem'.nodes[k] = mem.nodes[k]
      <4>1. /\ DOMAIN u.mem.nodes = DOMAIN mem.nodes
            /\ \A k \in DOMAIN mem.nodes \ {n} : u.mem.nodes[k] = mem.nodes[k]
            /\ \A k \in Running(mem) : k # n => k \in Running(u.mem)
        BY <1>1, <3>1, <3>2, SameDomain, Zenon
      <4> QED BY <1>5, <2>3, <3>1, <4>1
    <3>4. Cardinality(DOMAIN mem'.nodes) <= limit
      BY <3>3 DEF Settled
    <3>5. "stop" \notin failed' => Hearing(s.mem) /\ Hearing(mem')
      BY <1>3, <2>0, <2>1, <2>u, <2>3 DEF Leads
    <3>6. SeenKept
      <4> SUFFICES ASSUME failed' \subseteq {"save", "corrupt"} PROVE Seen(mem'.nodes) = Seen(mem.nodes)
        BY DEF SeenKept
      <4>1. "stop" \notin failed /\ "stop" \notin failed' /\ "start" \notin ToSet(u.cost)
        BY <2>1, <2>3
      <4>2. u.ok
        <5>1. CASE n \notin Running(mem)
          <6>1. n \notin Running(s.mem)
            BY <1>5, <5>1
          <6> QED BY <1>3, <1>5, <2>0, <6>1, UpdatesReach
        <5>2. CASE n \in Running(mem)
          <6>1. ServedOn(mem, n, config, s.mem)
            BY <1>1, <1>3, <1>7, <5>2, UpdatesReach
          <6>2. /\ DOMAIN s.mem.runtimes = DOMAIN mem.runtimes \cup {n}
                /\ \A k \in DOMAIN mem.runtimes \ {n} : s.mem.runtimes[k] = mem.runtimes[k]
            BY <1>3, <6>1, ServedOnFacts
          <6>3. n \in DOMAIN mem.runtimes /\ old.port = mem.runtimes[n].port
            BY <1>3, <5>2 DEF Sound, Agrees
          <6>4. HasRoom(s.mem, old) \/ old.port = s.mem.runtimes[n].port
            BY <1>3, <4>1, <6>2, <6>3, OwnPortFree
          <6>5. n \in Running(s.mem) /\ Hearing(s.mem) /\ "start" \notin ToSet(u.cost)
            BY <1>5, <3>5, <4>1, <5>2
          <6> HIDE DEF old
          <6> QED BY <1>3, <1>5, <2>0, <6>4, <6>5, UpdatesSucceed
        <5> QED BY <5>1, <5>2
      <4>3. /\ u.mem.nodes[n].status = s.mem.nodes[n].status
            /\ u.mem.nodes[n].config.folder = old.folder
            /\ u.mem.nodes[n].config.settings = old.settings
        BY <1>3, <1>5, <2>0, <4>2, UpdatesFacts
      <4>4. s.mem.nodes[n].status = mem.nodes[n].status
        BY <1>1, <1>3, <1>7, UpdatesFacts
      <4> QED BY <2>3, <3>3, <4>3, <4>4, SeenSame
    <3> QED BY <1>1, <2>1, <2>3, <3>1, <3>3, <3>4, <3>5, <3>6 DEF Operates, Effects
  <2> QED BY <2>1, <2>2, <2>3
<1> QED BY <1>4, <1>6, <1>7

LEMMA RestartsFacts ==
  ASSUME NEW m, Sound(m), NEW n \in DOMAIN m.nodes, NEW o \in Restarts(m, n)
  PROVE  /\ Leads(m, o, {n}) /\ o.ok \in BOOLEAN
         /\ n \in DOMAIN o.mem.nodes
         /\ ~o.ok => o.mem = m
         /\ n \in Running(m) => n \in Running(o.mem)
         /\ o.ok => n \in Running(o.mem)
<1>0. n \in Nodes /\ m.nodes[n].config \in Config
  BY SoundFacts
<1>1. /\ Leads(m, o, {n}) /\ o.ok \in BOOLEAN
      /\ ~o.ok => o.mem = m /\ n \notin Running(m)
      /\ o.ok /\ n \notin Running(m) => ServedOn(m, n, m.nodes[n].config, o.mem)
      /\ n \in Running(m) => o.ok /\ o.mem = m
  BY RestartsLeads
<1>2. CASE o.ok /\ n \notin Running(m)
  <2>1. /\ DOMAIN o.mem.nodes = DOMAIN m.nodes \cup {n}
        /\ o.mem.nodes[n].config.folder = m.nodes[n].config.folder
        /\ o.mem.nodes[n].config.settings = m.nodes[n].config.settings
        /\ Running(o.mem) = Running(m) \cup {n}
    BY <1>0, <1>1, <1>2, ServedOnFacts
  <2> QED BY <1>1, <1>2, <2>1
<1>3. CASE ~o.ok \/ n \in Running(m)
  BY <1>1, <1>3
<1> QED BY <1>1, <1>2, <1>3

LEMMA RestartsShows ==
  ASSUME NEW m, Sound(m), NEW n \in DOMAIN m.nodes, NEW o \in Restarts(m, n), o.ok
  PROVE  /\ n \in Running(o.mem)
         /\ o.mem.nodes[n].config.folder = m.nodes[n].config.folder
         /\ o.mem.nodes[n].config.settings = m.nodes[n].config.settings
<1>0. n \in Nodes /\ m.nodes[n].config \in Config
  BY SoundFacts
<1>1. /\ Leads(m, o, {n}) /\ o.ok \in BOOLEAN
      /\ ~o.ok => o.mem = m /\ n \notin Running(m)
      /\ o.ok /\ n \notin Running(m) => ServedOn(m, n, m.nodes[n].config, o.mem)
      /\ n \in Running(m) => o.ok /\ o.mem = m
  BY RestartsLeads
<1>2. CASE n \notin Running(m)
  <2>1. /\ DOMAIN o.mem.nodes = DOMAIN m.nodes \cup {n}
        /\ o.mem.nodes[n].config.folder = m.nodes[n].config.folder
        /\ o.mem.nodes[n].config.settings = m.nodes[n].config.settings
        /\ Running(o.mem) = Running(m) \cup {n}
    BY <1>0, <1>1, <1>2, ServedOnFacts
  <2> QED BY <1>1, <1>2, <2>1
<1>3. CASE n \in Running(m)
  BY <1>1, <1>3
<1> QED BY <1>1, <1>2, <1>3

LEMMA StartOperates ==
  ASSUME Settled, NEW n \in Nodes, StartNode(n)
  PROVE  Operates
<1>1. phase = "serving" /\ n \in DOMAIN mem.nodes
  BY DEF StartNode
<1>2. PICK s \in Restarts(mem, n) :
        IF s.ok THEN Commit("start", {n}, s.mem, s.cost, Stops(s.mem, n))
                ELSE Refuse("start", {n}, s.mem, s.cost)
  BY DEF StartNode
<1>3. Sound(mem) /\ ("stop" \notin failed => Hearing(mem))
  BY DEF Settled
<1>4. /\ Leads(mem, s, {n}) /\ s.ok \in BOOLEAN
      /\ n \in DOMAIN s.mem.nodes
      /\ ~s.ok => s.mem = mem
      /\ n \in Running(mem) => n \in Running(s.mem)
  BY <1>1, <1>3, RestartsFacts
<1>6. CASE ~s.ok
  <2>1. Refuse("start", {n}, s.mem, s.cost)
    BY <1>2, <1>6
  <2>2. UNCHANGED <<file, phase, limit>> /\ failed \subseteq failed' /\ mem' = mem
    BY <1>4, <1>6, <2>1, RefuseFacts
  <2> QED BY <1>1, <1>3, <2>2 DEF Operates, Effects, SeenKept, Settled
<1>7. CASE s.ok
  <2>0. /\ Commit("start", {n}, s.mem, s.cost, Stops(s.mem, n))
        /\ Sound(s.mem) /\ s.cost \in Seq(Kinds) /\ Keeps(mem, s.mem, {n})
        /\ Hearing(mem) /\ "stop" \notin ToSet(s.cost) => Hearing(s.mem)
    BY <1>2, <1>4, <1>7 DEF Leads
  <2>u. ASSUME NEW u \in Stops(s.mem, n)
        PROVE  Leads(s.mem, u, {n}) /\ DOMAIN u.mem.nodes = DOMAIN s.mem.nodes
    BY <1>4, <2>0, StopsLeads
  <2>1. /\ UNCHANGED <<phase, limit>>
        /\ failed \subseteq failed' /\ ToSet(s.cost) \subseteq failed' /\ reply'.op = "start"
        /\ \/ mem' = s.mem /\ file' = s.mem.nodes /\ reply'.result # "refused"
           \/ /\ file' = file /\ reply'.result = "refused" /\ "save" \in failed'
              /\ \E u \in Stops(s.mem, n) : mem' = u.mem /\ ToSet(u.cost) \subseteq failed'
    BY <2>0, <2>u, CommitFacts DEF Leads
  <2>d. DOMAIN s.mem.nodes = DOMAIN mem.nodes /\ Running(mem) \subseteq Running(s.mem)
    <3>1. DOMAIN s.mem.nodes = DOMAIN mem.nodes
      BY <1>1, <1>4, <2>0, SameDomain
    <3>2. \A k \in Running(mem) : k # n => k \in Running(s.mem)
      BY <1>1, <1>4, <2>0, SameDomain
    <3> QED BY <1>4, <3>1, <3>2
  <2>k. SeenKept
    BY <2>1 DEF SeenKept
  <2>2. CASE mem' = s.mem /\ file' = s.mem.nodes /\ reply'.result # "refused"
    <3>2. Accounted
      BY <2>2, <2>d DEF Accounted
    <3>3. "stop" \notin failed' => Hearing(mem')
      BY <1>3, <2>0, <2>1, <2>2
    <3>4. Cardinality(DOMAIN mem'.nodes) <= limit
      BY <2>2, <2>d DEF Settled
    <3> QED BY <1>1, <2>0, <2>1, <2>k, <2>2, <3>2, <3>3, <3>4 DEF Operates, Effects
  <2>3. ASSUME file' = file, "save" \in failed',
               NEW u \in Stops(s.mem, n), mem' = u.mem, ToSet(u.cost) \subseteq failed'
        PROVE  Operates
    <3>1. Sound(u.mem) /\ DOMAIN u.mem.nodes = DOMAIN mem.nodes
      BY <2>u, <2>3, <2>d DEF Leads
    <3>2. "stop" \notin failed' => Hearing(mem')
      BY <1>3, <2>0, <2>1, <2>u, <2>3 DEF Leads
    <3>3. Cardinality(DOMAIN mem'.nodes) <= limit
      BY <2>3, <3>1 DEF Settled
    <3> QED BY <1>1, <2>1, <2>3, <2>k, <3>1, <3>2, <3>3 DEF Operates, Effects
  <2> QED BY <2>1, <2>2, <2>3
<1> QED BY <1>4, <1>6, <1>7

LEMMA StopOperates ==
  ASSUME Settled, NEW n \in Nodes, StopNode(n)
  PROVE  Operates
<1>1. phase = "serving" /\ n \in DOMAIN mem.nodes
  BY DEF StopNode
<1>2. PICK s \in Stops(mem, n) :
        IF s.ok THEN Commit("stop", {n}, s.mem, s.cost,
                            IF mem.nodes[n].status = "running" THEN Restarts(s.mem, n)
                                                               ELSE {Outcome(s.mem, TRUE, << >>)})
                ELSE Refuse("stop", {n}, s.mem, s.cost)
  BY DEF StopNode
<1>3. Sound(mem) /\ ("stop" \notin failed => Hearing(mem))
  BY DEF Settled
<1>4. /\ Leads(mem, s, {n}) /\ s.ok \in BOOLEAN
      /\ DOMAIN s.mem.nodes = DOMAIN mem.nodes
      /\ ~s.ok => s.mem.nodes = mem.nodes
  BY <1>1, <1>3, StopsLeads
<1>5. /\ Sound(s.mem) /\ s.cost \in Seq(Kinds) /\ Keeps(mem, s.mem, {n})
      /\ Hearing(mem) /\ "stop" \notin ToSet(s.cost) => Hearing(s.mem)
  BY <1>4 DEF Leads
<1>6. CASE ~s.ok
  <2>1. Refuse("stop", {n}, s.mem, s.cost)
    BY <1>2, <1>6
  <2>2. /\ UNCHANGED <<file, phase, limit>> /\ failed \subseteq failed'
        /\ mem' = s.mem /\ ToSet(s.cost) \subseteq failed'
    BY <2>1, RefuseFacts
  <2>3. mem'.nodes = mem.nodes
    BY <1>4, <1>6, <2>2
  <2>4. Running(mem') = Running(mem)
    BY <2>3 DEF Running
  <2>5. "stop" \notin failed' => Hearing(mem')
    BY <1>3, <1>5, <2>2
  <2>6. SeenKept /\ Cardinality(DOMAIN mem'.nodes) <= limit
    BY <2>3 DEF SeenKept, Settled
  <2> QED BY <1>1, <1>5, <2>2, <2>3, <2>4, <2>5, <2>6 DEF Operates, Effects
<1>7. CASE s.ok
  <2> DEFINE undos == IF mem.nodes[n].status = "running" THEN Restarts(s.mem, n)
                                                        ELSE {Outcome(s.mem, TRUE, << >>)}
  <2>0. Commit("stop", {n}, s.mem, s.cost, undos)
    BY <1>2, <1>7
  <2>s. /\ n \in Running(mem) <=> mem.nodes[n].status = "running"
        /\ mem.nodes[n].status \in {"running", "stopped"}
        /\ n \notin DOMAIN s.mem.runtimes
        /\ n \notin Running(mem) => s.mem = mem
        /\ n \in Running(mem) => s.mem = Halted(mem, n)
    <3>1. mem.nodes[n].status \in {"running", "stopped"}
      BY <1>1, <1>3, SoundFacts
    <3> QED BY <1>1, <1>3, <1>7, <3>1, StopsLeads DEF Running
  <2>u. ASSUME NEW u \in undos
        PROVE  /\ Leads(s.mem, u, {n}) /\ u.ok \in BOOLEAN
               /\ n \in DOMAIN u.mem.nodes
               /\ n \notin Running(mem) => u.mem = mem
    <3>1. CASE n \in Running(mem)
      <4>1. u \in Restarts(s.mem, n) /\ n \in DOMAIN s.mem.nodes
        BY <1>1, <1>4, <2>s, <3>1
      <4> QED BY <1>5, <3>1, <4>1, RestartsFacts
    <3>2. CASE n \notin Running(mem)
      <4>1. u = Outcome(s.mem, TRUE, << >>)
        BY <2>s, <3>2
      <4>2. u.mem = s.mem /\ u.ok = TRUE /\ u.cost = << >>
        BY <4>1 DEF Outcome
      <4>3. Leads(s.mem, u, {n})
        BY <1>5, <4>2, NoCost, Unmoved
      <4> QED BY <1>1, <1>4, <2>s, <3>2, <4>2, <4>3
    <3> QED BY <3>1, <3>2
  <2>1. /\ UNCHANGED <<phase, limit>>
        /\ failed \subseteq failed' /\ ToSet(s.cost) \subseteq failed'
        /\ reply'.op = "stop" /\ reply'.on = {n}
        /\ \/ mem' = s.mem /\ file' = s.mem.nodes /\ reply'.result = "ok"
           \/ /\ file' = file /\ reply'.result = "refused" /\ "save" \in failed'
              /\ \E u \in undos : mem' = u.mem /\ ToSet(u.cost) \subseteq failed'
    <3> HIDE DEF undos
    <3>1. s.cost = << >>
      BY <1>7, StopsFree
    <3> QED BY <1>5, <2>0, <2>u, <3>1, CommitFacts DEF Leads
  <2> HIDE DEF undos
  <2>2. CASE mem' = s.mem /\ file' = s.mem.nodes /\ reply'.result = "ok"
    <3>1. \A k \in Running(mem) : k # n => k \in Running(s.mem)
      BY <1>1, <1>4, <1>5, SameDomain
    <3>2. Accounted
      BY <1>4, <2>1, <2>2, <3>1 DEF Accounted
    <3>3. "stop" \notin failed' => Hearing(mem')
      BY <1>3, <1>5, <2>1, <2>2
    <3>4. SeenKept /\ Cardinality(DOMAIN mem'.nodes) <= limit
      BY <1>4, <2>2 DEF SeenKept, Settled
    <3> QED BY <1>1, <1>5, <2>1, <2>2, <3>2, <3>3, <3>4 DEF Operates, Effects
  <2>3. ASSUME file' = file, reply'.result = "refused", "save" \in failed',
               NEW u \in undos, mem' = u.mem, ToSet(u.cost) \subseteq failed'
        PROVE  Operates
    <3>1. Sound(u.mem) /\ Keeps(s.mem, u.mem, {n}) /\ n \in DOMAIN u.mem.nodes
      BY <2>u, <2>3 DEF Leads
    <3>2. Keeps(mem, u.mem, {n})
      BY <1>5, <3>1, KeepsTrans
    <3>3. DOMAIN u.mem.nodes = DOMAIN mem.nodes /\ \A k \in DOMAIN mem.nodes \ {n} : u.mem.nodes[k] = mem.nodes[k]
      BY <1>1, <3>1, <3>2, SameDomain
    <3>4. "stop" \notin failed' => Hearing(mem')
      BY <1>3, <1>5, <2>1, <2>u, <2>3 DEF Leads
    <3>5. Cardinality(DOMAIN mem'.nodes) <= limit
      BY <2>3, <3>3 DEF Settled
    <3>6. SeenKept
      <4> SUFFICES ASSUME failed' \subseteq {"save", "corrupt"} PROVE Seen(u.mem.nodes) = Seen(mem.nodes)
        BY <2>3 DEF SeenKept
      <4>1. CASE n \notin Running(mem)
        BY <2>u, <4>1
      <4>2. CASE n \in Running(mem)
        <5>1. u \in Restarts(s.mem, n) /\ n \in DOMAIN s.mem.nodes /\ s.mem = Halted(mem, n)
          BY <1>1, <1>4, <2>s, <4>2 DEF undos
        <5>2. n \in DOMAIN mem.runtimes /\ mem.nodes[n].config.port = mem.runtimes[n].port
          BY <1>3, <4>2 DEF Sound, Agrees
        <5>3. /\ s.mem.nodes[n].config = mem.nodes[n].config
              /\ DOMAIN s.mem.runtimes = DOMAIN mem.runtimes \ {n}
              /\ \A k \in DOMAIN mem.runtimes \ {n} : s.mem.runtimes[k] = mem.runtimes[k]
          <6> DEFINE w == Halted(mem, n)
          <6>1. w.nodes[n] = [config |-> mem.nodes[n].config, status |-> "stopped"]
            BY <1>3, <5>2, HaltedSound
          <6>2. /\ DOMAIN w.runtimes = DOMAIN mem.runtimes \ {n}
                /\ \A k \in DOMAIN mem.runtimes \ {n} : w.runtimes[k] = mem.runtimes[k]
            BY DEF Halted, Drop
          <6> QED BY <5>1, <6>1, <6>2
        <5>4. Hearing(mem) /\ "start" \notin ToSet(u.cost)
          BY <1>3, <2>1, <2>3
        <5>5. HasRoom(s.mem, s.mem.nodes[n].config)
          BY <1>3, <5>2, <5>3, <5>4, OwnPortFree
        <5>6. u.ok
          BY <1>5, <5>1, <5>4, <5>5, RestartsLeads
        <5>7. /\ n \in Running(u.mem)
              /\ u.mem.nodes[n].config.folder = s.mem.nodes[n].config.folder
              /\ u.mem.nodes[n].config.settings = s.mem.nodes[n].config.settings
          BY <1>5, <5>1, <5>6, RestartsShows
        <5>8. u.mem.nodes[n].status = "running" /\ mem.nodes[n].status = "running"
          BY <4>2, <5>7 DEF Running
        <5> QED BY <3>3, <5>3, <5>7, <5>8, SeenSame
      <4> QED BY <4>1, <4>2
    <3> QED BY <1>1, <2>1, <2>3, <3>1, <3>3, <3>4, <3>5, <3>6 DEF Operates, Effects
  <2> QED BY <2>1, <2>2, <2>3
<1> QED BY <1>4, <1>6, <1>7

\* Nodes that only change their folders.
LEMMA Relabelled ==
  ASSUME NEW m, Sound(m), NEW w, w \in Managers, w.runtimes = m.runtimes,
         DOMAIN w.nodes = DOMAIN m.nodes,
         \A k \in DOMAIN m.nodes : /\ w.nodes[k].status = m.nodes[k].status
                                 /\ w.nodes[k].config.port = m.nodes[k].config.port
                                 /\ w.nodes[k].config.settings = m.nodes[k].config.settings
  PROVE  Sound(w) /\ Running(w) = Running(m) /\ (Hearing(m) => Hearing(w))
<1>1. Running(w) = Running(m)
  BY DEF Running
<1>2. DOMAIN m.runtimes = Running(m) /\ Running(m) \subseteq DOMAIN m.nodes
  BY DEF Sound, Agrees, Running
<1>3. Agrees(w)
  BY <1>1, <1>2 DEF Sound, Agrees
<1>4. Apart(w) /\ (Hearing(m) => Hearing(w))
  BY DEF Sound, Apart, Hearing
<1> QED BY <1>1, <1>3, <1>4 DEF Sound

LEMMA FolderFacts ==
  ASSUME NEW node \in Node, NEW f \in Folders \cup {NoFolder}
  PROVE  LET w == [node EXCEPT !.config.folder = f] IN
         /\ w \in Node /\ w.config.folder = f
         /\ w.status = node.status /\ w.config.port = node.config.port
         /\ w.config.settings = node.config.settings
BY DEF Node, Config

LEMMA InFolderFacts ==
  ASSUME NEW m, Sound(m), NEW n \in DOMAIN m.nodes, NEW f \in Folders \cup {NoFolder},
         NEW w, w = InFolder(m, n, f)
  PROVE  /\ Sound(w) /\ Running(w) = Running(m) /\ (Hearing(m) => Hearing(w))
         /\ DOMAIN w.nodes = DOMAIN m.nodes
         /\ \A k \in DOMAIN m.nodes : /\ w.nodes[k].status = m.nodes[k].status
                                     /\ w.nodes[k].config.settings = m.nodes[k].config.settings
         /\ \A k \in DOMAIN m.nodes \ {n} : w.nodes[k].config.folder = m.nodes[k].config.folder
         /\ w.nodes[n].config.folder = f
<1>1. m \in Managers /\ DOMAIN m.nodes \subseteq Nodes /\ \A k \in DOMAIN m.nodes : m.nodes[k] \in Node
  BY SoundFacts DEF Sound
<1> DEFINE nodes == [m.nodes EXCEPT ![n].config.folder = f]
<1>2. w = [m EXCEPT !.nodes = nodes]
  BY DEF InFolder
<1>3. w.nodes = nodes /\ w.runtimes = m.runtimes
  BY <1>1, <1>2 DEF Managers
<1>4. DOMAIN nodes = DOMAIN m.nodes /\ nodes = [k \in DOMAIN m.nodes |-> nodes[k]]
  BY <1>1 DEF Managers, Maps
<1>5. \A k \in DOMAIN m.nodes \ {n} : nodes[k] = m.nodes[k]
  BY <1>1 DEF Managers
<1>6. nodes[n] = [m.nodes[n] EXCEPT !.config.folder = f]
  BY <1>1 DEF Managers
<1> HIDE DEF nodes
<1>7. /\ nodes[n] \in Node /\ nodes[n].config.folder = f
      /\ nodes[n].status = m.nodes[n].status /\ nodes[n].config.port = m.nodes[n].config.port
      /\ nodes[n].config.settings = m.nodes[n].config.settings
  <2>1. m.nodes[n] \in Node
    BY <1>1
  <2> QED BY <1>6, <2>1 DEF Node, Config
<1>8. \A k \in DOMAIN m.nodes : nodes[k] \in Node
  BY <1>1, <1>5, <1>7
<1>9. nodes \in Maps(Nodes, Node)
  <2>1. nodes \in [DOMAIN m.nodes -> Node]
    BY <1>4, <1>8
  <2> QED BY <1>1, <1>4, <2>1, MapsFacts
<1>10. w \in Managers
  BY <1>1, <1>2, <1>9 DEF Managers
<1>11. \A k \in DOMAIN m.nodes : /\ w.nodes[k].status = m.nodes[k].status
                                 /\ w.nodes[k].config.port = m.nodes[k].config.port
                                 /\ w.nodes[k].config.settings = m.nodes[k].config.settings
  BY <1>3, <1>5, <1>7
<1>12. Sound(w) /\ Running(w) = Running(m) /\ (Hearing(m) => Hearing(w))
  BY <1>3, <1>4, <1>10, <1>11, Relabelled
<1> QED BY <1>3, <1>4, <1>5, <1>7, <1>11, <1>12

\* An operation that leaves every node's status alone, whether it is saved or undone.
LEMMA KeptOperates ==
  ASSUME Settled, phase = "serving", UNCHANGED <<phase, limit>>, failed \subseteq failed',
         Sound(mem'), Hearing(mem) => Hearing(mem'), DOMAIN mem'.nodes = DOMAIN mem.nodes,
         Running(mem') = Running(mem), file' \in {file, mem'.nodes},
         reply'.result = "refused" => Seen(mem'.nodes) = Seen(mem.nodes)
  PROVE  Operates
<1>1. Accounted /\ SeenKept
  BY DEF Accounted, SeenKept
<1>2. Cardinality(DOMAIN mem'.nodes) <= limit /\ ("stop" \notin failed' => Hearing(mem'))
  BY DEF Settled
<1> QED BY <1>1, <1>2 DEF Operates, Effects

LEMMA OneOutcome ==
  ASSUME NEW m, NEW u \in {Outcome(m, TRUE, << >>)}
  PROVE  u.mem = m /\ u.cost \in Seq(Kinds)
<1>1. u.mem = m /\ u.cost = << >>
  BY DEF Outcome
<1> QED BY <1>1, NoCost

LEMMA MoveOperates ==
  ASSUME Settled, NEW n \in Nodes, NEW f \in Folders \cup {NoFolder}, MoveToFolder(n, f)
  PROVE  Operates
<1> DEFINE old == mem.nodes[n].config.folder
<1>1. PICK m : m = InFolder(mem, n, f)
  OBVIOUS
<1>2. PICK v : v = InFolder(m, n, old)
  OBVIOUS
<1>3. /\ phase = "serving" /\ n \in DOMAIN mem.nodes
      /\ Commit("move", {n}, m, << >>, {Outcome(v, TRUE, << >>)})
  BY <1>1, <1>2 DEF MoveToFolder
<1>4. Sound(mem) /\ old \in Folders \cup {NoFolder}
  BY <1>3, SoundFacts DEF Settled, Config
<1>5. /\ Sound(m) /\ Running(m) = Running(mem) /\ (Hearing(mem) => Hearing(m))
      /\ DOMAIN m.nodes = DOMAIN mem.nodes
      /\ \A k \in DOMAIN mem.nodes : /\ m.nodes[k].status = mem.nodes[k].status
                                    /\ m.nodes[k].config.settings = mem.nodes[k].config.settings
      /\ \A k \in DOMAIN mem.nodes \ {n} : m.nodes[k].config.folder = mem.nodes[k].config.folder
  BY <1>1, <1>3, <1>4, InFolderFacts
<1>6. /\ Sound(v) /\ Running(v) = Running(m) /\ (Hearing(m) => Hearing(v))
      /\ DOMAIN v.nodes = DOMAIN m.nodes
      /\ \A k \in DOMAIN m.nodes : /\ v.nodes[k].status = m.nodes[k].status
                                  /\ v.nodes[k].config.settings = m.nodes[k].config.settings
      /\ \A k \in DOMAIN m.nodes \ {n} : v.nodes[k].config.folder = m.nodes[k].config.folder
      /\ v.nodes[n].config.folder = old
  <2>1. n \in DOMAIN m.nodes
    BY <1>3, <1>5
  <2> HIDE DEF old
  <2> QED BY <1>2, <1>4, <1>5, <2>1, InFolderFacts
<1>7. Seen(v.nodes) = Seen(mem.nodes)
  BY <1>5, <1>6, SeenSame
<1> DEFINE undos == {Outcome(v, TRUE, << >>)}
<1>8. /\ UNCHANGED <<phase, limit>> /\ failed \subseteq failed'
      /\ \/ mem' = m /\ file' = m.nodes /\ reply'.result # "refused"
         \/ /\ file' = file /\ reply'.result = "refused" /\ "save" \in failed'
            /\ \E u \in undos : mem' = u.mem /\ ToSet(u.cost) \subseteq failed'
  <2>1. \A u \in undos : u.cost \in Seq(Kinds)
    BY OneOutcome
  <2>2. << >> \in Seq(Kinds)
    OBVIOUS
  <2>3. Commit("move", {n}, m, << >>, undos)
    BY <1>3
  <2> HIDE DEF undos
  <2> QED BY <2>1, <2>2, <2>3, CommitFacts
<1>9. CASE mem' = m /\ file' = m.nodes /\ reply'.result # "refused"
  BY <1>3, <1>5, <1>8, <1>9, KeptOperates
<1>10. CASE file' = file /\ mem' = v
  BY <1>3, <1>5, <1>6, <1>7, <1>8, <1>10, KeptOperates
<1> QED BY <1>8, <1>9, <1>10, OneOutcome

LEMMA RenamedFacts ==
  ASSUME NEW m, Sound(m), NEW source \in Folders, NEW target \in Folders,
         NEW w, w = Renamed(m, source, target)
  PROVE  /\ Sound(w) /\ Running(w) = Running(m) /\ (Hearing(m) => Hearing(w))
         /\ DOMAIN w.nodes = DOMAIN m.nodes
         /\ \A k \in DOMAIN m.nodes :
              /\ w.nodes[k].status = m.nodes[k].status
              /\ w.nodes[k].config.settings = m.nodes[k].config.settings
              /\ w.nodes[k].config.folder =
                   IF m.nodes[k].config.folder = source THEN target ELSE m.nodes[k].config.folder
<1>1. m \in Managers /\ DOMAIN m.nodes \subseteq Nodes /\ \A k \in DOMAIN m.nodes : m.nodes[k] \in Node
  BY SoundFacts DEF Sound
<1> DEFINE nodes == [n \in DOMAIN m.nodes |-> IF n \in Members(m, source)
                       THEN [m.nodes[n] EXCEPT !.config.folder = target] ELSE m.nodes[n]]
<1>2. w = [m EXCEPT !.nodes = nodes]
  BY <1>1 DEF Renamed, Managers
<1>3. w.nodes = nodes /\ w.runtimes = m.runtimes
  BY <1>1, <1>2 DEF Managers
<1>4. ASSUME NEW k \in DOMAIN m.nodes
      PROVE  /\ nodes[k] \in Node
             /\ nodes[k].status = m.nodes[k].status
             /\ nodes[k].config.port = m.nodes[k].config.port
             /\ nodes[k].config.settings = m.nodes[k].config.settings
             /\ nodes[k].config.folder =
                  IF m.nodes[k].config.folder = source THEN target ELSE m.nodes[k].config.folder
  <2>1. m.nodes[k] \in Node
    BY <1>1
  <2>2. CASE m.nodes[k].config.folder = source
    <3>1. nodes[k] = [m.nodes[k] EXCEPT !.config.folder = target]
      BY <2>2 DEF Members
    <3> HIDE DEF nodes
    <3> QED BY <2>1, <2>2, <3>1 DEF Node, Config
  <2>3. CASE m.nodes[k].config.folder # source
    <3>1. nodes[k] = m.nodes[k]
      BY <2>3 DEF Members
    <3> HIDE DEF nodes
    <3> QED BY <2>1, <2>3, <3>1
  <2> QED BY <2>2, <2>3
<1>5. nodes \in Maps(Nodes, Node)
  <2>1. nodes \in [DOMAIN m.nodes -> Node]
    BY <1>4
  <2> QED BY <1>1, <2>1, MapsFacts
<1>6. DOMAIN nodes = DOMAIN m.nodes
  OBVIOUS
<1> HIDE DEF nodes
<1>7. w \in Managers
  BY <1>1, <1>2, <1>5 DEF Managers
<1>8. Sound(w) /\ Running(w) = Running(m) /\ (Hearing(m) => Hearing(w))
  BY <1>3, <1>4, <1>6, <1>7, Relabelled
<1> QED BY <1>3, <1>4, <1>6, <1>8

LEMMA RenameOperates ==
  ASSUME Settled, NEW source \in Folders, NEW target \in Folders, RenameFolder(source, target)
  PROVE  Operates
<1>1. PICK m : m = Renamed(mem, source, target)
  OBVIOUS
<1>2. PICK v : v = Renamed(m, target, source)
  OBVIOUS
<1>3. /\ phase = "serving"
      /\ source # target => Members(mem, target) = {}
      /\ Commit("rename", Members(mem, source), m, << >>, {Outcome(v, TRUE, << >>)})
  BY <1>1, <1>2 DEF RenameFolder
<1>4. Sound(mem)
  BY DEF Settled
<1>5. /\ Sound(m) /\ Running(m) = Running(mem) /\ (Hearing(mem) => Hearing(m))
      /\ DOMAIN m.nodes = DOMAIN mem.nodes
      /\ \A k \in DOMAIN mem.nodes :
           /\ m.nodes[k].status = mem.nodes[k].status
           /\ m.nodes[k].config.settings = mem.nodes[k].config.settings
           /\ m.nodes[k].config.folder =
                IF mem.nodes[k].config.folder = source THEN target ELSE mem.nodes[k].config.folder
  BY <1>1, <1>4, RenamedFacts
<1>6. /\ Sound(v) /\ Running(v) = Running(m) /\ (Hearing(m) => Hearing(v))
      /\ DOMAIN v.nodes = DOMAIN m.nodes
      /\ \A k \in DOMAIN m.nodes :
           /\ v.nodes[k].status = m.nodes[k].status
           /\ v.nodes[k].config.settings = m.nodes[k].config.settings
           /\ v.nodes[k].config.folder =
                IF m.nodes[k].config.folder = target THEN source ELSE m.nodes[k].config.folder
  BY <1>2, <1>5, RenamedFacts
<1>7. Seen(v.nodes) = Seen(mem.nodes)
  <2>1. \A k \in DOMAIN mem.nodes : source # target => mem.nodes[k].config.folder # target
    BY <1>3 DEF Members
  <2>2. \A k \in DOMAIN mem.nodes : v.nodes[k].config.folder = mem.nodes[k].config.folder
    BY <1>5, <1>6, <2>1
  <2> QED BY <1>5, <1>6, <2>2, SeenSame
<1> DEFINE undos == {Outcome(v, TRUE, << >>)}
<1>8. /\ UNCHANGED <<phase, limit>> /\ failed \subseteq failed'
      /\ \/ mem' = m /\ file' = m.nodes /\ reply'.result # "refused"
         \/ /\ file' = file /\ reply'.result = "refused" /\ "save" \in failed'
            /\ \E u \in undos : mem' = u.mem /\ ToSet(u.cost) \subseteq failed'
  <2>1. \A u \in undos : u.cost \in Seq(Kinds)
    BY OneOutcome
  <2>2. << >> \in Seq(Kinds)
    OBVIOUS
  <2>3. Commit("rename", Members(mem, source), m, << >>, undos)
    BY <1>3
  <2> HIDE DEF undos
  <2> QED BY <2>1, <2>2, <2>3, CommitFacts
<1>9. CASE mem' = m /\ file' = m.nodes /\ reply'.result # "refused"
  BY <1>3, <1>5, <1>8, <1>9, KeptOperates
<1>10. CASE file' = file /\ mem' = v
  BY <1>3, <1>5, <1>6, <1>7, <1>8, <1>10, KeptOperates
<1> QED BY <1>8, <1>9, <1>10, OneOutcome

\* What restoreNode makes of the node n.
Reinstated(m, n, node, o) ==
  /\ Leads(m, o, {n})
  /\ o.ok \in BOOLEAN
  /\ ~o.ok => o.mem = m
  /\ o.ok /\ node.status = "stopped" => o.mem = Listed(m, n, node.config, "stopped")
  /\ o.ok /\ node.status # "stopped" => ServedOn(m, n, node.config, o.mem)

LEMMA ReinstatesReinstated ==
  ASSUME NEW m, Sound(m), NEW n \in Nodes \ DOMAIN m.nodes, NEW node \in Node,
         NEW o \in Reinstates(m, n, node)
  PROVE  Reinstated(m, n, node, o)
BY ReinstatesLeads DEF Reinstated

LEMMA ReinstatesSucceed ==
  ASSUME NEW m, Sound(m), NEW n \in Nodes \ DOMAIN m.nodes, NEW node \in Node,
         NEW o \in Reinstates(m, n, node), ~(Cardinality(DOMAIN m.nodes) >= limit),
         node.status = "stopped" \/ (HasRoom(m, node.config) /\ "start" \notin ToSet(o.cost))
  PROVE  o.ok
BY ReinstatesLeads

LEMMA ReinstatesShows ==
  ASSUME NEW m, Sound(m), NEW n \in Nodes \ DOMAIN m.nodes, NEW node \in Node,
         NEW o \in Reinstates(m, n, node), o.ok
  PROVE  /\ DOMAIN o.mem.nodes = DOMAIN m.nodes \cup {n}
         /\ o.mem.nodes[n].status = node.status
         /\ o.mem.nodes[n].config.folder = node.config.folder
         /\ o.mem.nodes[n].config.settings = node.config.settings
<1>1. Reinstated(m, n, node, o)
  BY ReinstatesReinstated
<1>2. n \notin DOMAIN m.runtimes /\ node.config \in Config /\ node.status \in {"running", "stopped"}
  BY DEF Sound, Agrees, Running, Node
<1>3. CASE node.status = "stopped"
  <2>1. o.mem = Listed(m, n, node.config, "stopped")
    BY <1>1, <1>3 DEF Reinstated
  <2>2. /\ DOMAIN o.mem.nodes = DOMAIN m.nodes \cup {n}
        /\ o.mem.nodes[n].status = "stopped" /\ o.mem.nodes[n].config = node.config
    BY <1>2, <2>1, ListedFacts
  <2> QED BY <1>3, <2>2
<1>4. CASE node.status # "stopped"
  <2>1. ServedOn(m, n, node.config, o.mem)
    BY <1>1, <1>4 DEF Reinstated
  <2>2. /\ DOMAIN o.mem.nodes = DOMAIN m.nodes \cup {n}
        /\ o.mem.nodes[n].status = "running"
        /\ o.mem.nodes[n].config.folder = node.config.folder
        /\ o.mem.nodes[n].config.settings = node.config.settings
    BY <1>2, <2>1, ServedOnFacts
  <2> QED BY <1>2, <1>4, <2>2
<1> QED BY <1>3, <1>4

\* The manager without n, which stopped.
Without(m, n, w) ==
  /\ Sound(w) /\ Keeps(m, w, {n})
  /\ DOMAIN w.nodes = DOMAIN m.nodes \ {n}
  /\ DOMAIN w.runtimes = DOMAIN m.runtimes \ {n}
  /\ \A k \in DOMAIN m.runtimes \ {n} : w.runtimes[k] = m.runtimes[k]

LEMMA StopsRemoved ==
  ASSUME NEW m, Sound(m), NEW n \in DOMAIN m.nodes, NEW s \in Stops(m, n), s.ok
  PROVE  Without(m, n, Removed(s.mem, {n}))
<1>1. /\ Leads(m, s, {n}) /\ DOMAIN s.mem.nodes = DOMAIN m.nodes
      /\ n \notin DOMAIN s.mem.runtimes
      /\ n \notin Running(m) => s.mem = m
      /\ n \in Running(m) => s.mem = Halted(m, n)
  BY StopsLeads
<1>2. Sound(s.mem) /\ Keeps(m, s.mem, {n}) /\ n \in Nodes
  BY <1>1, SoundFacts DEF Leads
<1> DEFINE w == Removed(s.mem, {n})
<1>3. Sound(w) /\ Keeps(s.mem, w, {n})
  BY <1>1, <1>2, RemovedSound
<1>4. DOMAIN w.nodes = DOMAIN s.mem.nodes \ {n}
  BY DEF Removed, Drop
<1>5. /\ DOMAIN w.runtimes = DOMAIN s.mem.runtimes \ {n}
      /\ \A k \in DOMAIN s.mem.runtimes \ {n} : w.runtimes[k] = s.mem.runtimes[k]
  BY DEF Removed, Drop
<1>6. /\ DOMAIN s.mem.runtimes \ {n} = DOMAIN m.runtimes \ {n}
      /\ \A k \in DOMAIN m.runtimes \ {n} : s.mem.runtimes[k] = m.runtimes[k]
  <2>1. CASE n \in Running(m)
    BY <1>1, <2>1 DEF Halted, Drop
  <2>2. CASE n \notin Running(m)
    BY <1>1, <2>2
  <2> QED BY <2>1, <2>2
<1> HIDE DEF w
<1>7. Keeps(m, w, {n})
  BY <1>2, <1>3, KeepsTrans
<1> QED BY <1>1, <1>3, <1>4, <1>5, <1>6, <1>7 DEF Without, w

LEMMA WithoutHears ==
  ASSUME NEW m, NEW n, NEW w, Without(m, n, w), Hearing(m)
  PROVE  Hearing(w)
BY DEF Without, Hearing

\* The deletion of n was undone as far as it goes.
LEMMA UndeletedOperates ==
  ASSUME Settled, phase = "serving", NEW n \in DOMAIN mem.nodes, NEW m, Without(mem, n, m),
         NEW u \in Reinstates(m, n, mem.nodes[n]),
         UNCHANGED <<phase, limit, file>>, failed \subseteq failed', "save" \in failed',
         mem' = u.mem, ToSet(u.cost) \subseteq failed', reply'.op = "delete"
  PROVE  Operates
<1> DEFINE node == mem.nodes[n]
<1>1. Sound(mem) /\ ("stop" \notin failed => Hearing(mem)) /\ Sound(m)
  BY DEF Settled, Without
<1>2. n \in Nodes \ DOMAIN m.nodes /\ node \in Node /\ node.config \in Config
  BY <1>1, SoundFacts DEF Without
<1>3. Leads(m, u, {n}) /\ u.ok \in BOOLEAN
  BY <1>1, <1>2, ReinstatesReinstated DEF Reinstated
<1>4. Sound(u.mem) /\ Keeps(m, u.mem, {n})
  BY <1>3 DEF Leads
<1>5. Keeps(mem, u.mem, {n})
  BY <1>4, KeepsTrans DEF Without
<1>6. "stop" \notin failed' => Hearing(mem) /\ Hearing(mem')
  BY <1>1, <1>3, WithoutHears DEF Leads
<1>7. Cardinality(DOMAIN mem'.nodes) <= limit
  <2>1. DOMAIN u.mem.nodes \subseteq DOMAIN mem.nodes
    BY <1>5 DEF Keeps
  <2> QED BY <2>1, Counted, Bounded DEF Settled
<1>8. ASSUME failed' \subseteq {"save", "corrupt"}
      PROVE  DOMAIN mem'.nodes = DOMAIN mem.nodes /\ Seen(mem'.nodes) = Seen(mem.nodes)
  <2>1. Hearing(mem) /\ "start" \notin ToSet(u.cost)
    BY <1>6, <1>8
  <2>2. ~(Cardinality(DOMAIN m.nodes) >= limit)
    <3>1. Cardinality(DOMAIN m.nodes) = Cardinality(DOMAIN mem.nodes) - 1
      BY Counted, FS_RemoveElement DEF Without
    <3> QED BY <3>1, Counted DEF Settled
  <2>3. node.status = "stopped" \/ HasRoom(m, node.config)
    <3>1. CASE n \in Running(mem)
      <4>1. n \in DOMAIN mem.runtimes /\ node.config.port = mem.runtimes[n].port
        BY <1>1, <3>1 DEF Sound, Agrees
      <4>2. /\ DOMAIN m.runtimes = DOMAIN mem.runtimes \ {n}
            /\ \A k \in DOMAIN mem.runtimes \ {n} : m.runtimes[k] = mem.runtimes[k]
        BY DEF Without
      <4> HIDE DEF node
      <4>3. HasRoom(m, node.config)
        BY <1>1, <2>1, <4>1, <4>2, OwnPortFree
      <4> QED BY <4>3
    <3>2. CASE n \notin Running(mem)
      BY <1>2, <3>2 DEF Running, Node
    <3> QED BY <3>1, <3>2
  <2>4. u.ok
    BY <1>1, <1>2, <2>1, <2>2, <2>3, ReinstatesSucceed
  <2>5. /\ DOMAIN u.mem.nodes = DOMAIN m.nodes \cup {n}
        /\ u.mem.nodes[n].status = node.status
        /\ u.mem.nodes[n].config.folder = node.config.folder
        /\ u.mem.nodes[n].config.settings = node.config.settings
    BY <1>1, <1>2, <2>4, ReinstatesShows
  <2>6. DOMAIN u.mem.nodes = DOMAIN mem.nodes /\ \A k \in DOMAIN mem.nodes \ {n} : u.mem.nodes[k] = mem.nodes[k]
    BY <1>5, <2>5 DEF Without, Keeps
  <2> QED BY <2>5, <2>6, SeenSame
<1>9. SeenKept /\ (failed' \subseteq {"save"} => DOMAIN mem.nodes \subseteq DOMAIN mem'.nodes)
  BY <1>8 DEF SeenKept
<1> QED BY <1>4, <1>6, <1>7, <1>9 DEF Operates, Effects

LEMMA DeleteOperates ==
  ASSUME Settled, NEW n \in Nodes, DeleteNode(n)
  PROVE  Operates \/ Detaches
<1>1. phase = "serving" /\ n \in DOMAIN mem.nodes
  BY DEF DeleteNode
<1>2. PICK s \in Stops(mem, n) :
        LET m == Removed(s.mem, {n}) IN
        IF ~s.ok THEN Refuse("delete", {n}, s.mem, s.cost)
        ELSE IF n \notin Dedicated
          THEN Commit("delete", {n}, m, s.cost, Reinstates(m, n, mem.nodes[n]))
        ELSE \/ Detach(n, m, s.cost)
             \/ "save" \in Faults /\ \E u \in Reinstates(m, n, mem.nodes[n]) :
                  Refuse("delete", {n}, u.mem, s.cost \o <<"save">> \o u.cost)
  BY DEF DeleteNode
<1>3. Sound(mem) /\ ("stop" \notin failed => Hearing(mem)) /\ mem.nodes[n] \in Node
  BY <1>1, SoundFacts DEF Settled
<1>4. /\ Leads(mem, s, {n}) /\ s.ok \in BOOLEAN
      /\ ~s.ok => s.mem.nodes = mem.nodes
  BY <1>1, <1>3, StopsLeads
<1>5. /\ Sound(s.mem) /\ s.cost \in Seq(Kinds)
      /\ Hearing(mem) /\ "stop" \notin ToSet(s.cost) => Hearing(s.mem)
  BY <1>4 DEF Leads
<1>6. CASE ~s.ok
  <2>1. Refuse("delete", {n}, s.mem, s.cost)
    BY <1>2, <1>6
  <2>2. /\ UNCHANGED <<file, phase, limit>> /\ failed \subseteq failed'
        /\ mem' = s.mem /\ ToSet(s.cost) \subseteq failed'
    BY <2>1, RefuseFacts
  <2>3. mem'.nodes = mem.nodes
    BY <1>4, <1>6, <2>2
  <2>4. Running(mem') = Running(mem)
    BY <2>3 DEF Running
  <2>5. "stop" \notin failed' => Hearing(mem')
    BY <1>3, <1>5, <2>2
  <2>6. SeenKept /\ Cardinality(DOMAIN mem'.nodes) <= limit
    BY <2>3 DEF SeenKept, Settled
  <2> QED BY <1>1, <1>5, <2>2, <2>3, <2>4, <2>5, <2>6 DEF Operates, Effects
<1>7. CASE s.ok
  <2>1. PICK m : m = Removed(s.mem, {n})
    OBVIOUS
  <2>2. Without(mem, n, m)
    BY <1>1, <1>3, <1>7, <2>1, StopsRemoved
  <2>3. /\ Sound(m) /\ Keeps(mem, m, {n})
        /\ DOMAIN m.nodes = DOMAIN mem.nodes \ {n} /\ n \in Nodes \ DOMAIN m.nodes
    BY <2>2 DEF Without
  <2>4. \A k \in Running(mem) : k # n => k \in Running(m)
    BY <2>3 DEF Keeps, Running
  <2>u. ASSUME NEW u \in Reinstates(m, n, mem.nodes[n]) PROVE u.cost \in Seq(Kinds)
    BY <1>3, <2>3, ReinstatesReinstated DEF Reinstated, Leads
  <2>5. CASE n \notin Dedicated
    <3> DEFINE undos == Reinstates(m, n, mem.nodes[n])
    <3>1. Commit("delete", {n}, m, s.cost, undos)
      BY <1>2, <1>7, <2>1, <2>5
    <3>2. \A u \in undos : u.cost \in Seq(Kinds)
      BY <2>u
    <3>3. /\ UNCHANGED <<phase, limit>>
          /\ failed \subseteq failed' /\ ToSet(s.cost) \subseteq failed'
          /\ reply'.op = "delete" /\ reply'.on = {n}
          /\ \/ mem' = m /\ file' = m.nodes /\ reply'.result = "ok"
             \/ /\ file' = file /\ reply'.result = "refused" /\ "save" \in failed'
                /\ \E u \in undos : mem' = u.mem /\ ToSet(u.cost) \subseteq failed'
      <4> HIDE DEF undos
      <4>1. s.cost = << >>
        BY <1>7, StopsFree
      <4> QED BY <1>5, <3>1, <3>2, <4>1, CommitFacts
    <3>4. CASE mem' = m /\ file' = m.nodes /\ reply'.result = "ok"
      <4>1. Accounted /\ SeenKept
        BY <2>3, <2>4, <3>3, <3>4 DEF Accounted, SeenKept
      <4>2. "stop" \notin failed' => Hearing(mem')
        BY <1>3, <2>2, <3>3, <3>4, WithoutHears
      <4>3. Cardinality(DOMAIN mem'.nodes) <= limit
        BY <2>3, <3>4, Counted, Bounded DEF Settled
      <4> QED BY <1>1, <2>3, <3>3, <3>4, <4>1, <4>2, <4>3 DEF Operates, Effects
    <3>5. CASE /\ file' = file /\ "save" \in failed'
               /\ \E u \in undos : mem' = u.mem /\ ToSet(u.cost) \subseteq failed'
      BY <1>1, <2>2, <3>3, <3>5, UndeletedOperates
    <3> QED BY <3>3, <3>4, <3>5
  <2>6. ASSUME NEW u \in Reinstates(m, n, mem.nodes[n]),
               Refuse("delete", {n}, u.mem, s.cost \o <<"save">> \o u.cost)
        PROVE  Operates
    <3>1. <<"save">> \in Seq(Kinds) /\ ToSet(<<"save">>) = {"save"}
      BY OneCost DEF Kinds
    <3>2. s.cost \o <<"save">> \in Seq(Kinds) /\ ToSet(s.cost \o <<"save">>) = ToSet(s.cost) \cup {"save"}
      BY <1>5, <3>1, CostUnion
    <3>3. ToSet(s.cost \o <<"save">> \o u.cost) = ToSet(s.cost) \cup {"save"} \cup ToSet(u.cost)
      BY <2>u, <3>2, CostUnion
    <3>4. /\ UNCHANGED <<file, phase, limit>>
          /\ failed \subseteq failed' /\ ToSet(s.cost \o <<"save">> \o u.cost) \subseteq failed'
          /\ mem' = u.mem /\ reply'.op = "delete"
      BY <2>6, RefuseFacts
    <3> QED BY <1>1, <2>2, <3>3, <3>4, UndeletedOperates
  <2>7. CASE Detach(n, m, s.cost)
    <3>1. /\ mem' = m /\ file' = mem'.nodes /\ phase' = "cleaning" /\ UNCHANGED limit
          /\ detached' = [k \in {n} |-> [mem.nodes[n] EXCEPT !.status = "stopped"]]
          /\ reply'.op = "delete" /\ reply'.on = {n} /\ reply'.result = "none"
          /\ failed \subseteq failed'
      BY <2>7 DEF Detach, Reply, Fails
    <3>2. /\ DOMAIN detached' = {n}
          /\ detached'[n] \in Node /\ detached'[n].status = "stopped"
      BY <1>3, <3>1 DEF Node
    <3>3. Cardinality(DOMAIN m.nodes) = Cardinality(DOMAIN mem.nodes) - 1
      BY <1>1, <2>3, Counted, FS_RemoveElement
    <3>4. Cardinality(DOMAIN mem'.nodes) < limit /\ Cardinality(DOMAIN mem'.nodes) <= limit
      <4>1. Cardinality(DOMAIN mem.nodes) \in Nat /\ limit \in Nat /\ Cardinality(DOMAIN mem.nodes) <= limit
        BY Counted DEF Settled
      <4> QED BY <3>1, <3>3, <4>1
    <3>5. Awaited'
      BY <2>3, <3>1, <3>2, <3>4 DEF Awaited
    <3>6. Accounted /\ SeenKept
      BY <2>3, <2>4, <3>1, <3>2 DEF Accounted, SeenKept
    <3>7. "stop" \notin failed' => Hearing(mem')
      BY <1>3, <2>2, <3>1, WithoutHears
    <3> QED BY <1>1, <2>3, <3>1, <3>4, <3>5, <3>6, <3>7 DEF Detaches, Effects
  <2> QED BY <1>2, <1>7, <2>1, <2>5, <2>6, <2>7
<1> QED BY <1>4, <1>6, <1>7

\* A table that was saved can be read.
LEMMA SavedTable ==
  ASSUME NEW w, Sound(w), file' = w.nodes
  PROVE  file' \in Maps(Nodes, Node) /\ Saved' = w.nodes /\ SavedRunning' = Running(w)
<1>1. file' \in Maps(Nodes, Node) /\ file' # Unreadable
  BY SoundFacts, FileAssumption
<1>2. Saved' = w.nodes
  BY <1>1 DEF Saved
<1> QED BY <1>1, <1>2 DEF SavedRunning, Running

\* The clean-up was refused: the node is back, as there is room for it.
LEMMA CleanupReattaches ==
  ASSUME Settled, NEW n \in Nodes, CleanupRefused(n)
  PROVE  Reattaches
<1>1. phase = "cleaning" /\ phase' = "serving" /\ n \in DOMAIN detached /\ UNCHANGED limit
  BY DEF CleanupRefused
<1>2. /\ n \in Nodes \ DOMAIN mem.nodes /\ detached[n] \in Node
      /\ detached[n].status = "stopped" /\ Cardinality(DOMAIN mem.nodes) < limit
      /\ DOMAIN detached = {n}
  BY <1>1 DEF Settled, Awaited
<1>3. Sound(mem) /\ ("stop" \notin failed => Hearing(mem))
  BY DEF Settled
<1>4. PICK r \in Reinstates(mem, n, detached[n]) :
        /\ mem' = r.mem
        /\ \/ r.ok /\ Fails(<<"cleanup">>) /\ file' = r.mem.nodes
           \/ ~r.ok /\ Fails(<<"cleanup">>) /\ UNCHANGED file
           \/ r.ok /\ "save" \in Faults /\ Fails(<<"cleanup", "save">>) /\ UNCHANGED file
  BY DEF CleanupRefused
<1>5. r.ok
  <2>1. ~(Cardinality(DOMAIN mem.nodes) >= limit)
    BY <1>2, Counted
  <2> QED BY <1>2, <1>3, <2>1, ReinstatesSucceed
<1>6. /\ Reinstated(mem, n, detached[n], r)
      /\ DOMAIN r.mem.nodes = DOMAIN mem.nodes \cup {n}
  BY <1>2, <1>3, <1>5, ReinstatesReinstated, ReinstatesShows
<1>7. Sound(r.mem) /\ Keeps(mem, r.mem, {n})
  BY <1>6 DEF Reinstated, Leads
<1>8. r.mem.runtimes = mem.runtimes
  <2>1. r.mem = Listed(mem, n, detached[n].config, "stopped")
    BY <1>2, <1>5, <1>6 DEF Reinstated
  <2> QED BY <1>3, <2>1 DEF Listed, Sound, Managers
<1>9. /\ DOMAIN mem.nodes \subseteq DOMAIN mem'.nodes
      /\ Running(mem) \subseteq Running(mem')
  <2>1. {n} \cap DOMAIN mem.nodes = {}
    BY <1>2
  <2> QED BY <1>4, <1>7, <2>1, KeepsNew
<1>10. "stop" \notin failed' => Hearing(mem')
  <2>1. failed \subseteq failed'
    BY <1>4 DEF Fails
  <2> QED BY <1>3, <1>4, <1>8, <2>1 DEF Hearing
<1>11. Cardinality(DOMAIN mem'.nodes) <= limit
  <2>1. IsFiniteSet(DOMAIN mem.nodes) /\ limit \in Nat /\ Cardinality(DOMAIN mem.nodes) \in Nat
    BY Counted
  <2>2. Cardinality(DOMAIN mem.nodes \cup {n}) = Cardinality(DOMAIN mem.nodes) + 1
    BY <1>2, <2>1, FS_AddElement
  <2>3. DOMAIN mem'.nodes = DOMAIN mem.nodes \cup {n}
    BY <1>4, <1>6
  <2> QED BY <1>1, <1>2, <2>1, <2>2, <2>3
<1>12. /\ failed \subseteq failed' /\ "cleanup" \in failed'
       /\ file' = mem'.nodes \/ (file' = file /\ "save" \in failed')
  <2>1. ToSet(<<"cleanup">>) = {"cleanup"} /\ ToSet(<<"save">>) = {"save"}
        /\ <<"cleanup">> \in Seq(Kinds) /\ <<"save">> \in Seq(Kinds)
    BY OneCost DEF Kinds
  <2>4. ToSet(<<"cleanup", "save">>) = {"cleanup", "save"}
    BY DEF ToSet
  <2>5. CASE Fails(<<"cleanup">>) /\ file' = r.mem.nodes
    BY <1>4, <2>1, <2>5 DEF Fails
  <2>6. CASE Fails(<<"cleanup", "save">>) /\ file' = file
    BY <2>4, <2>6 DEF Fails
  <2> QED BY <1>4, <1>5, <2>5, <2>6
<1>13. Accounted /\ SeenKept
  BY <1>9, <1>12 DEF Accounted, SeenKept
<1>14. "save" \notin failed' => DOMAIN detached \subseteq DOMAIN Saved'
  <2>1. ASSUME file' = mem'.nodes PROVE n \in DOMAIN Saved'
    BY <1>4, <1>6, <1>7, <2>1, SavedTable
  <2> QED BY <1>2, <1>12, <2>1
<1> QED BY <1>1, <1>4, <1>7, <1>9, <1>10, <1>11, <1>12, <1>13, <1>14 DEF Reattaches, Effects

\* The manager with the nodes S of a batch, which were not there.
Grown(m, w, S) ==
  /\ Sound(w) /\ Keeps(m, w, S) /\ S \cap DOMAIN m.nodes = {}
  /\ Hearing(m) => Hearing(w)
  /\ DOMAIN w.nodes = DOMAIN m.nodes \cup S
  /\ S \subseteq DOMAIN w.runtimes
  /\ IsFiniteSet(DOMAIN w.nodes) /\ Cardinality(DOMAIN w.nodes) <= limit

LEMMA BatchGrows ==
  ASSUME Settled, NEW B \in SUBSET Nodes, NEW configs \in [B -> Config],
         B \cap DOMAIN mem.nodes = {}, Cardinality(DOMAIN mem.nodes) + Cardinality(B) <= limit,
         NEW S \in SUBSET B, NEW g \in Assignments(mem, configs, S)
  PROVE  Grown(mem, BatchServed(mem, configs, S, g), S)
<1> DEFINE w == BatchServed(mem, configs, S, g)
<1>1. Sound(mem) /\ DOMAIN mem.runtimes \subseteq DOMAIN mem.nodes
  BY DEF Settled, Sound, Agrees, Running
<1>2. S \cap DOMAIN mem.runtimes = {} /\ S \in SUBSET Nodes
      /\ S \subseteq DOMAIN configs /\ \A k \in S : configs[k] \in Config
  BY <1>1
<1>3. /\ Sound(w) /\ Keeps(mem, w, S)
      /\ Hearing(mem) => Hearing(w)
      /\ DOMAIN w.nodes = DOMAIN mem.nodes \cup S
      /\ S \subseteq DOMAIN w.runtimes
  BY <1>1, <1>2, BatchServedSound, Zenon
<1>4. IsFiniteSet(B) /\ IsFiniteSet(DOMAIN mem.nodes)
  BY NodeAssumption, FS_Subset, Counted
<1>5. /\ IsFiniteSet(DOMAIN mem.nodes \cup B)
      /\ Cardinality(DOMAIN mem.nodes \cup B) = Cardinality(DOMAIN mem.nodes) + Cardinality(B)
  <2>1. DOMAIN mem.nodes \cap B = {}
    OBVIOUS
  <2>2. /\ IsFiniteSet(DOMAIN mem.nodes \cup B)
        /\ Cardinality(DOMAIN mem.nodes \cup B)
             = Cardinality(DOMAIN mem.nodes) + Cardinality(B) - Cardinality(DOMAIN mem.nodes \cap B)
    BY <1>4, FS_Union
  <2>3. Cardinality(DOMAIN mem.nodes \cap B) = 0
    BY <2>1, FS_EmptySet
  <2> QED BY <1>4, <2>2, <2>3, FS_CardinalityType
<1>6. DOMAIN mem.nodes \cup S \subseteq DOMAIN mem.nodes \cup B
  OBVIOUS
<1>7. /\ IsFiniteSet(DOMAIN mem.nodes \cup S)
      /\ Cardinality(DOMAIN mem.nodes \cup S) <= limit
  BY <1>5, <1>6, Counted, Bounded, FS_Subset
<1> HIDE DEF w
<1>8. S \cap DOMAIN mem.nodes = {}
  OBVIOUS
<1>9. IsFiniteSet(DOMAIN w.nodes) /\ Cardinality(DOMAIN w.nodes) <= limit
  BY <1>3, <1>7
<1>10. Grown(mem, w, S)
  BY <1>3, <1>8, <1>9 DEF Grown
<1> QED BY <1>10 DEF w

\* A batch was rolled back as far as it goes.
LEMMA BatchUndoneOperates ==
  ASSUME Settled, phase = "serving", NEW S, NEW m, Grown(mem, m, S), NEW u \in BatchUndos(m, S),
         UNCHANGED <<phase, limit, file>>, failed \subseteq failed',
         mem' = u.mem, ToSet(u.cost) \subseteq failed'
  PROVE  Operates
<1>1. /\ Sound(m) /\ Keeps(mem, m, S) /\ S \cap DOMAIN mem.nodes = {}
      /\ DOMAIN m.nodes = DOMAIN mem.nodes \cup S /\ S \subseteq DOMAIN m.runtimes
  BY DEF Grown
<1>2. /\ Leads(m, u, S)
      /\ DOMAIN u.mem.nodes \subseteq DOMAIN m.nodes
      /\ "stop" \notin ToSet(u.cost) /\ "cleanup" \notin ToSet(u.cost)
            => DOMAIN u.mem.nodes = DOMAIN m.nodes \ S
  BY <1>1, BatchUndosLeads
<1>3. Sound(u.mem) /\ Keeps(m, u.mem, S)
  BY <1>2 DEF Leads
<1>4. Keeps(mem, u.mem, S)
  BY <1>1, <1>3, KeepsTrans
<1>5. /\ DOMAIN mem.nodes \subseteq DOMAIN mem'.nodes /\ Running(mem) \subseteq Running(mem')
      /\ \A k \in DOMAIN mem.nodes : mem'.nodes[k] = mem.nodes[k]
  BY <1>1, <1>4, KeepsNew
<1>6. "stop" \notin failed' => Hearing(mem')
  BY <1>2 DEF Leads, Grown, Settled
<1>7. Cardinality(DOMAIN mem'.nodes) <= limit
  BY <1>2, Counted, Bounded DEF Grown
<1>8. SeenKept
  <2> SUFFICES ASSUME failed' \subseteq {"save", "corrupt"} PROVE Seen(mem'.nodes) = Seen(mem.nodes)
    BY DEF SeenKept
  <2>1. DOMAIN mem'.nodes = DOMAIN mem.nodes
    BY <1>1, <1>2
  <2> QED BY <1>5, <2>1, SeenSame
<1> QED BY <1>3, <1>5, <1>6, <1>7, <1>8 DEF Operates, Effects

LEMMA CreateBatchOperates ==
  ASSUME Settled, NEW B \in SUBSET Nodes, NEW configs \in [B -> Config], CreateBatch(configs)
  PROVE  Operates
<1>1. /\ phase = "serving" /\ DOMAIN configs = B
      /\ B \cap DOMAIN mem.nodes = {}
      /\ Cardinality(DOMAIN mem.nodes) + Cardinality(B) <= limit
  BY DEF CreateBatch
<1>2. CASE \E g \in Assignments(mem, configs, B) :
             LET m == BatchServed(mem, configs, B, g) IN Commit("batch", B, m, << >>, BatchUndos(m, B))
  <2>1. PICK g \in Assignments(mem, configs, B) :
          LET m == BatchServed(mem, configs, B, g) IN Commit("batch", B, m, << >>, BatchUndos(m, B))
    BY <1>2
  <2>2. PICK m : m = BatchServed(mem, configs, B, g)
    OBVIOUS
  <2>3. Commit("batch", B, m, << >>, BatchUndos(m, B))
    BY <2>1, <2>2
  <2>4. B \in SUBSET B
    OBVIOUS
  <2>5. Grown(mem, m, B)
    BY <1>1, <2>2, <2>4, BatchGrows
  <2>6. Sound(m) /\ B \subseteq DOMAIN m.runtimes
    BY <2>5 DEF Grown
  <2>7. \A u \in BatchUndos(m, B) : u.cost \in Seq(Kinds)
    BY <2>6, BatchUndosLeads DEF Leads
  <2>8. << >> \in Seq(Kinds)
    BY NoCost
  <2>9. /\ UNCHANGED <<phase, limit>>
        /\ failed \subseteq failed'
        /\ reply'.op = "batch" /\ reply'.on = B
        /\ \/ mem' = m /\ file' = m.nodes /\ reply'.result # "refused"
           \/ /\ file' = file /\ reply'.result = "refused" /\ "save" \in failed'
              /\ \E u \in BatchUndos(m, B) : mem' = u.mem /\ ToSet(u.cost) \subseteq failed'
    BY <2>3, <2>7, <2>8, CommitFacts
  <2>10. CASE mem' = m /\ file' = m.nodes /\ reply'.result # "refused"
    <3>1. Keeps(mem, m, B) /\ B \cap DOMAIN mem.nodes = {}
      BY <2>5 DEF Grown
    <3>2. DOMAIN mem.nodes \subseteq DOMAIN mem'.nodes /\ Running(mem) \subseteq Running(mem')
      BY <2>10, <3>1, KeepsNew
    <3>3. Accounted /\ SeenKept
      BY <2>10, <3>2 DEF Accounted, SeenKept
    <3>4. "stop" \notin failed' => Hearing(mem')
      BY <2>5, <2>9, <2>10 DEF Grown, Settled
    <3>5. Cardinality(DOMAIN mem'.nodes) <= limit
      BY <2>5, <2>10 DEF Grown
    <3> QED BY <1>1, <2>6, <2>9, <2>10, <3>3, <3>4, <3>5 DEF Operates, Effects
  <2>11. CASE /\ file' = file
              /\ \E u \in BatchUndos(m, B) : mem' = u.mem /\ ToSet(u.cost) \subseteq failed'
    BY <1>1, <2>5, <2>9, <2>11, BatchUndoneOperates
  <2> QED BY <2>9, <2>10, <2>11
<1>3. CASE \E S \in SUBSET B : \E bad \in B \ S, g \in Assignments(mem, configs, S) :
             LET m == BatchServed(mem, configs, S, g) IN
             \E s \in {x \in Starts(m, bad, configs[bad]) : ~x.ok}, u \in BatchUndos(m, S) :
                Refuse("batch", B, u.mem, s.cost \o u.cost)
  <2>0. PICK S \in SUBSET B : \E bad \in B \ S, g \in Assignments(mem, configs, S) :
          LET m == BatchServed(mem, configs, S, g) IN
          \E s \in {x \in Starts(m, bad, configs[bad]) : ~x.ok}, u \in BatchUndos(m, S) :
             Refuse("batch", B, u.mem, s.cost \o u.cost)
    BY <1>3
  <2>1. PICK bad \in B \ S, g \in Assignments(mem, configs, S) :
          LET m == BatchServed(mem, configs, S, g) IN
          \E s \in {x \in Starts(m, bad, configs[bad]) : ~x.ok}, u \in BatchUndos(m, S) :
             Refuse("batch", B, u.mem, s.cost \o u.cost)
    BY <2>0
  <2>2. PICK m : m = BatchServed(mem, configs, S, g)
    OBVIOUS
  <2>3. PICK s \in Starts(m, bad, configs[bad]), u \in BatchUndos(m, S) :
          Refuse("batch", B, u.mem, s.cost \o u.cost)
    BY <2>1, <2>2
  <2>4. Grown(mem, m, S)
    BY <1>1, <2>2, BatchGrows
  <2>5. Sound(m) /\ S \subseteq DOMAIN m.runtimes
    BY <2>4 DEF Grown
  <2>6. u.cost \in Seq(Kinds)
    BY <2>5, BatchUndosLeads DEF Leads
  <2>7. bad \in Nodes /\ configs[bad] \in Config
    OBVIOUS
  <2>8. s.cost \in Seq(Kinds)
    BY <2>5, <2>7, StartsLeads DEF Leads
  <2>9. ToSet(s.cost \o u.cost) = ToSet(s.cost) \cup ToSet(u.cost)
    BY <2>6, <2>8, CostUnion
  <2>10. /\ UNCHANGED <<file, phase, limit>>
         /\ failed \subseteq failed' /\ ToSet(s.cost \o u.cost) \subseteq failed'
         /\ mem' = u.mem
    BY <2>3, RefuseFacts
  <2> QED BY <1>1, <2>4, <2>9, <2>10, BatchUndoneOperates
<1> QED BY <1>2, <1>3 DEF CreateBatch

-----------------------------------------------------------------------------
(***************************************************************************)
(* The invariant.                                                          *)
(***************************************************************************)
LEMMA TableApart ==
  ASSUME NEW w, Sound(w), Hearing(w)
  PROVE  FileApart(w.nodes)
<1> SUFFICES ASSUME NEW n \in Running(w)
             PROVE  /\ w.nodes[n].config.port \in Ports
                    /\ \A k \in Running(w) : w.nodes[k].config.port = w.nodes[n].config.port => k = n
  BY DEF FileApart, Running
<1>1. DOMAIN w.runtimes = Running(w)
      /\ \A k \in Running(w) : w.runtimes[k].port = w.nodes[k].config.port
  BY DEF Sound, Agrees
<1>2. w.nodes[n].config.port \in Ports
  BY <1>1, SoundFacts
<1>3. ASSUME NEW k \in Running(w), w.nodes[k].config.port = w.nodes[n].config.port
      PROVE  k = n
  BY <1>1, <1>3 DEF Sound, Apart, Hearing
<1> QED BY <1>2, <1>3

LEMMA EffectsSettled ==
  ASSUME Settled, Effects, Up(phase), Up(phase'), UNCHANGED limit, Awaited'
  PROVE  Settled'
<1>1. /\ limit' = limit
      /\ failed \subseteq failed' /\ Sound(mem')
      /\ "stop" \notin failed' => Hearing(mem')
      /\ Cardinality(DOMAIN mem'.nodes) <= limit
  BY DEF Effects
<1> DEFINE Readable == file' = Unreadable \/ file' \in Maps(Nodes, Node)
           Distinct == "stop" \notin failed' => FileApart(Saved')
           Whole == Up(phase') /\ Admitted' =>
                      /\ failed' \subseteq {"save"} => DOMAIN Saved' \subseteq DOMAIN mem'.nodes
                      /\ failed' \subseteq {"cleanup"} => SavedRunning' \subseteq Running(mem')
<1> DEFINE Goal == Readable /\ Distinct /\ Whole
<1>2. ASSUME file' = mem'.nodes PROVE Goal
  <2>1. file' \in Maps(Nodes, Node) /\ Saved' = mem'.nodes /\ SavedRunning' = Running(mem')
    BY <1>1, <1>2, SavedTable
  <2>2. Distinct
    BY <1>1, <2>1, TableApart
  <2> QED BY <2>1, <2>2
<1>3. ASSUME /\ file' = file
             /\ failed' \subseteq {"save"} => DOMAIN mem.nodes \subseteq DOMAIN mem'.nodes
             /\ failed' \subseteq {"cleanup"} => Running(mem) \subseteq Running(mem')
      PROVE  Goal
  <2>1. Saved' = Saved /\ SavedRunning' = SavedRunning
    BY <1>3 DEF Saved, SavedRunning
  <2>2. Readable
    BY <1>3 DEF Settled
  <2>3. Distinct
    BY <1>1, <2>1 DEF Settled
  <2>4. Admitted' => Admitted
    BY <1>1, <2>1 DEF Admitted
  <2>5. Whole
    BY <1>1, <1>3, <2>1, <2>4 DEF Settled
  <2> QED BY <2>2, <2>3, <2>5
<1>5. Goal
  <2> HIDE DEF Goal
  <2>1. CASE file' = mem'.nodes /\ Accounted
    BY <1>2, <2>1
  <2>2. CASE /\ file' = file
             /\ failed' \subseteq {"save"} => DOMAIN mem.nodes \subseteq DOMAIN mem'.nodes
             /\ failed' \subseteq {"cleanup"} => Running(mem) \subseteq Running(mem')
    BY <1>3, <2>2
  <2> QED BY <2>1, <2>2 DEF Effects
<1>6. Sound(mem)' /\ Hearing(mem)' = Hearing(mem') /\ FileApart(Saved)' = FileApart(Saved') /\ Running(mem)' = Running(mem')
  BY <1>1 DEF Sound, Agrees, Apart, Running, Hearing, FileApart, Managers
<1>7. limit' \in Limits /\ Cardinality(DOMAIN mem'.nodes) <= limit'
  BY <1>1 DEF Settled
<1> HIDE DEF Distinct, Whole, Readable
<1>8. Up(phase)' /\ Awaited'
  BY DEF Up
<1> QED BY <1>1, <1>5, <1>6, <1>7, <1>8 DEF Settled, Distinct, Whole, Readable, Up

LEMMA OperatesSettled ==
  ASSUME Settled, Operates \/ Detaches \/ Reattaches
  PROVE  Settled'
<1>1. Effects /\ UNCHANGED limit /\ Up(phase) /\ Up(phase') /\ Awaited'
  BY DEF Operates, Detaches, Reattaches, Up, Awaited
<1> QED BY <1>1, EffectsSettled

\* Nothing is sounder than an empty manager.
LEMMA EmptyMap ==
  ASSUME NEW K, NEW V
  PROVE  << >> \in Maps(K, V)
<1>1. << >> \in [{} -> V]
  OBVIOUS
<1>2. {} \in SUBSET K
  OBVIOUS
<1> QED BY <1>1, <1>2 DEF Maps

LEMMA EmptySound ==
  Sound(Empty) /\ Hearing(Empty) /\ DOMAIN Empty.nodes = {} /\ Cardinality(DOMAIN Empty.nodes) = 0
<1>1. DOMAIN Empty.nodes = {} /\ DOMAIN Empty.runtimes = {}
  BY DEF Empty
<1>2. << >> \in Maps(Nodes, Node) /\ << >> \in Maps(Nodes, Runtime)
  BY EmptyMap
<1>3. Empty \in Managers
  BY <1>2 DEF Empty, Managers
<1>4. Running(Empty) = {}
  BY <1>1 DEF Running
<1> QED BY <1>1, <1>3, <1>4, FS_EmptySet DEF Sound, Agrees, Apart, Hearing

LEMMA InitSettled ==
  ASSUME Init
  PROVE  Settled
<1>1. mem = Empty /\ file = << >> /\ phase = "down" /\ limit \in Limits
  BY DEF Init
<1>2. << >> \in Maps(Nodes, Node)
  BY EmptyMap
<1>3. Saved = << >>
  BY <1>1 DEF Saved
<1>4. FileApart(Saved)
  BY <1>3 DEF FileApart
<1>5. 0 <= limit
  BY <1>1, LimitAssumption
<1> QED BY <1>1, <1>2, <1>4, <1>5, EmptySound DEF Settled, Awaited, Up

\* Where no service runs, all depends on the file.
LEMMA IdleSettled ==
  ASSUME mem' = Empty, phase' \in {"down", "booted"}, limit' \in Limits,
         file' = Unreadable \/ file' \in Maps(Nodes, Node),
         "stop" \notin failed' => FileApart(Saved)'
  PROVE  Settled'
<1>1. 0 <= limit'
  BY LimitAssumption
<1>2. Sound(mem)' /\ Hearing(mem)' /\ Cardinality(DOMAIN mem'.nodes) = 0
  <2>1. Sound(mem') /\ Hearing(mem')
    BY EmptySound
  <2>2. Sound(mem)' = Sound(mem') /\ Hearing(mem)' = Hearing(mem')
    BY DEF Sound, Agrees, Apart, Running, Hearing, Managers
  <2> QED BY <2>1, <2>2, EmptySound
<1> QED BY <1>1, <1>2 DEF Settled, Awaited, Up

LEMMA BootSettled ==
  ASSUME Settled, NEW l \in Limits, Boot(l)
  PROVE  Settled'
<1>1. phase = "down" /\ phase' = "booted" /\ limit' = l /\ UNCHANGED <<mem, file, failed>>
  BY DEF Boot
<1>2. mem' = Empty /\ phase' \in {"down", "booted"} /\ limit' \in Limits
  BY <1>1 DEF Settled, Up
<1>3. file' = Unreadable \/ file' \in Maps(Nodes, Node)
  BY <1>1 DEF Settled
<1>4. "stop" \notin failed' => FileApart(Saved)'
  BY <1>1 DEF Settled, Saved, FileApart
<1> QED BY <1>2, <1>3, <1>4, IdleSettled

LEMMA CrashSettled ==
  ASSUME Settled, Crash
  PROVE  Settled'
<1>1. mem' = Empty /\ phase' = "down" /\ UNCHANGED <<file, limit, failed>>
  BY DEF Crash
<1>2. limit' \in Limits /\ (file' = Unreadable \/ file' \in Maps(Nodes, Node)) /\ phase' \in {"down", "booted"}
  BY <1>1 DEF Settled
<1>3. "stop" \notin failed' => FileApart(Saved)'
  BY <1>1 DEF Settled, Saved, FileApart
<1> QED BY <1>1, <1>2, <1>3, IdleSettled

LEMMA CorruptSettled ==
  ASSUME Settled, Corrupt
  PROVE  Settled'
<1>1. file' = Unreadable /\ phase = "down" /\ UNCHANGED <<mem, phase, limit>>
  BY DEF Corrupt
<1>2. mem' = Empty /\ phase' \in {"down", "booted"} /\ limit' \in Limits
  BY <1>1 DEF Settled, Up
<1>3. Saved' = << >>
  BY <1>1 DEF Saved
<1>4. FileApart(Saved)'
  BY <1>3 DEF FileApart
<1> QED BY <1>1, <1>2, <1>4, IdleSettled

LEMMA ShutdownSettled ==
  ASSUME Settled, Shutdown
  PROVE  Settled'
<1>1. /\ mem' = Empty /\ phase' = "down" /\ limit' = limit
      /\ \/ file' = mem.nodes /\ failed' = failed
         \/ file' = file /\ failed \subseteq failed'
  BY DEF Shutdown, Fails
<1>2. limit' \in Limits /\ phase' \in {"down", "booted"}
  BY <1>1 DEF Settled
<1>3. CASE file' = mem.nodes /\ failed' = failed
  <2>1. Sound(mem) /\ ("stop" \notin failed => Hearing(mem))
    BY DEF Settled
  <2>2. file' \in Maps(Nodes, Node) /\ Saved' = mem.nodes
    BY <1>3, <2>1, SavedTable
  <2>3. "stop" \notin failed => FileApart(mem.nodes)
    BY <2>1, TableApart
  <2>4. "stop" \notin failed' => FileApart(Saved)'
    BY <1>3, <2>2, <2>3 DEF FileApart
  <2> QED BY <1>1, <1>2, <2>2, <2>4, IdleSettled
<1>4. CASE file' = file /\ failed \subseteq failed'
  <2>1. file' = Unreadable \/ file' \in Maps(Nodes, Node)
    BY <1>4 DEF Settled
  <2>2. "stop" \notin failed' => FileApart(Saved)'
    BY <1>4 DEF Settled, Saved, FileApart
  <2> QED BY <1>1, <1>2, <2>1, <2>2, IdleSettled
<1> QED BY <1>1, <1>3, <1>4

LEMMA RestoreRefusedSettled ==
  ASSUME Settled, RestoreRefused
  PROVE  Settled'
<1>1. /\ phase = "booted" /\ phase' = "serving" /\ UNCHANGED <<mem, file, limit, failed>>
      /\ file = Unreadable \/ Cardinality(DOMAIN Saved) > limit
  BY DEF RestoreRefused
<1>2. mem = Empty
  BY <1>1 DEF Settled, Up
<1>3. Saved' = Saved /\ Admitted' = Admitted /\ Hearing(mem)' = Hearing(mem) /\ FileApart(Saved)' = FileApart(Saved)
  BY <1>1 DEF Saved, Admitted, Hearing, FileApart
<1>4. Sound(mem)'
  <2>1. Sound(mem)' = Sound(mem')
    BY DEF Sound, Agrees, Apart, Running, Managers
  <2> QED BY <1>1, <1>2, <2>1, EmptySound
<1>5. Admitted => Saved = << >>
  <2>1. CASE file = Unreadable
    BY <2>1 DEF Saved
  <2>2. CASE file # Unreadable
    <3>1. DOMAIN Saved \subseteq Nodes
      BY <2>2, MapsFacts DEF Settled, Saved
    <3>2. Cardinality(DOMAIN Saved) \in Nat /\ limit \in Nat
      BY <3>1, NodeAssumption, FS_Subset, FS_CardinalityType, Counted
    <3> QED BY <1>1, <2>2, <3>2 DEF Admitted
  <2> QED BY <2>1, <2>2
<1>6. Admitted' => DOMAIN Saved' = {} /\ SavedRunning' = {}
  BY <1>3, <1>5 DEF SavedRunning
<1> QED BY <1>1, <1>3, <1>4, <1>6 DEF Settled, Awaited, Up

\* What a restore starts from: every saved node is listed, and none runs.
LEMMA ListedAllSound ==
  ASSUME NEW f \in Maps(Nodes, Node), NEW m,
         m = [Empty EXCEPT !.nodes = [n \in DOMAIN f |-> [f[n] EXCEPT !.status = "stopped"]]]
  PROVE  /\ Sound(m) /\ Hearing(m)
         /\ DOMAIN m.nodes = DOMAIN f /\ DOMAIN m.runtimes = {}
<1> DEFINE nodes == [n \in DOMAIN f |-> [f[n] EXCEPT !.status = "stopped"]]
<1>1. m.nodes = nodes /\ m.runtimes = << >> /\ m = [nodes |-> nodes, runtimes |-> << >>]
  BY DEF Empty
<1>2. DOMAIN f \subseteq Nodes /\ \A n \in DOMAIN f : f[n] \in Node
  BY MapsFacts
<1>3. \A n \in DOMAIN f : nodes[n] \in Node /\ nodes[n].status = "stopped"
  BY <1>2 DEF Node
<1>4. nodes \in [DOMAIN f -> Node] /\ DOMAIN nodes = DOMAIN f
  BY <1>3
<1> HIDE DEF nodes
<1>5. nodes \in Maps(Nodes, Node) /\ << >> \in Maps(Nodes, Runtime)
  BY <1>2, <1>4, MapsFacts, EmptyMap
<1>6. m \in Managers
  BY <1>1, <1>5 DEF Managers
<1>7. DOMAIN m.nodes = DOMAIN f /\ DOMAIN m.runtimes = {} /\ Running(m) = {}
  BY <1>1, <1>3, <1>4 DEF Running
<1> QED BY <1>6, <1>7 DEF Sound, Agrees, Apart, Hearing

\* The nodes S run on the ports they had; another node whose port none of them has, could run too.
LEMMA RoomForRest ==
  ASSUME NEW m, DOMAIN m.runtimes = {}, NEW configs, NEW S, NEW g \in Assignments(m, configs, S),
         \A k \in S : configs[k].port \in Ports,
         NEW n, configs[n].port \in Ports, \A k \in S : configs[k].port # configs[n].port
  PROVE  FreePorts(BatchServed(m, configs, S, g), configs[n]) # {}
<1> DEFINE w == BatchServed(m, configs, S, g)
<1>1. DOMAIN w.runtimes = S /\ \A k \in S : w.runtimes[k].port = g[k]
  BY DEF BatchServed
<1>2. \A k \in S : g[k] = configs[k].port
  BY DistinctAssumption DEF Assignments, FreePorts
<1> HIDE DEF w
<1>3. configs[n].port \notin TakenPorts(w)
  BY <1>1, <1>2 DEF TakenPorts
<1>4. configs[n].port \in FreePorts(w, configs[n])
  BY <1>3 DEF FreePorts
<1> QED BY <1>4 DEF w

LEMMA Repeated ==
  ASSUME NEW U, IsFiniteSet(U), U # {}, NEW x
  PROVE  x \in ToSet([i \in 1 .. Cardinality(U) |-> x])
<1> DEFINE cost == [i \in 1 .. Cardinality(U) |-> x]
<1>1. Cardinality(U) \in Nat /\ Cardinality(U) # 0
  BY FS_CardinalityType, FS_EmptySet
<1>2. 1 \in DOMAIN cost /\ cost[1] = x
  BY <1>1
<1> HIDE DEF cost
<1>3. x \in ToSet(cost)
  BY <1>2 DEF ToSet
<1> QED BY <1>3 DEF cost

LEMMA RestoreSettled ==
  ASSUME Settled, Restore
  PROVE  Settled'
<1> DEFINE configs == [n \in DOMAIN file |-> file[n].config]
           desired == {n \in DOMAIN file : file[n].status = "running"}
<1>1. /\ phase = "booted" /\ phase' = "serving" /\ UNCHANGED <<file, limit>>
      /\ file # Unreadable /\ Cardinality(DOMAIN file) <= limit
  BY DEF Restore
<1>2. file \in Maps(Nodes, Node) /\ Saved = file /\ SavedRunning = desired
  BY <1>1 DEF Settled, Saved, SavedRunning
<1>3. DOMAIN file \subseteq Nodes /\ \A n \in DOMAIN file : file[n] \in Node /\ file[n].config \in Config
  <2>1. DOMAIN file \subseteq Nodes /\ file \in [DOMAIN file -> Node]
    BY <1>2, MapsFacts
  <2>2. \A n \in DOMAIN file : file[n] \in Node
    BY <2>1
  <2> QED BY <2>1, <2>2 DEF Node
<1>4. PICK listed : listed = [Empty EXCEPT !.nodes = [n \in DOMAIN file |-> [file[n] EXCEPT !.status = "stopped"]]]
  OBVIOUS
<1> DEFINE empty == [Empty EXCEPT !.nodes = [n \in DOMAIN file |-> [file[n] EXCEPT !.status = "stopped"]]]
<1>b. \E S \in SUBSET desired : \E g \in Assignments(empty, configs, S) :
          LET m == BatchServed(empty, configs, S, g)
              unlucky == {n \in desired \ S : FreePorts(m, configs[n]) # {}}
          IN /\ unlucky # {} => "start" \in Faults
             /\ Fails([i \in 1 .. Cardinality(unlucky) |-> "start"])
             /\ mem' = m
             /\ reply' = Reply("restore", {}, IF S = desired THEN "ok" ELSE "refused")
  BY Zenon DEF Restore
<1>a. \E S \in SUBSET desired : \E g \in Assignments(listed, configs, S) :
          LET m == BatchServed(listed, configs, S, g)
              unlucky == {n \in desired \ S : FreePorts(m, configs[n]) # {}}
          IN Fails([i \in 1 .. Cardinality(unlucky) |-> "start"]) /\ mem' = m
  <2>1. listed = empty
    BY <1>4
  <2> HIDE DEF empty, configs, desired
  <2> QED BY <1>b, <2>1
<1>5. PICK S \in SUBSET desired : \E g \in Assignments(listed, configs, S) :
          LET m == BatchServed(listed, configs, S, g)
              unlucky == {n \in desired \ S : FreePorts(m, configs[n]) # {}}
          IN Fails([i \in 1 .. Cardinality(unlucky) |-> "start"]) /\ mem' = m
  <2> HIDE DEF configs, desired
  <2> QED BY <1>a
<1>6. PICK g \in Assignments(listed, configs, S) :
          LET m == BatchServed(listed, configs, S, g)
              unlucky == {n \in desired \ S : FreePorts(m, configs[n]) # {}}
          IN Fails([i \in 1 .. Cardinality(unlucky) |-> "start"]) /\ mem' = m
  BY <1>5
<1> DEFINE m == BatchServed(listed, configs, S, g)
           unlucky == {n \in desired \ S : FreePorts(m, configs[n]) # {}}
<1>7. Fails([i \in 1 .. Cardinality(unlucky) |-> "start"]) /\ mem' = m
  BY <1>6
<1>8. /\ Sound(listed) /\ Hearing(listed)
      /\ DOMAIN listed.nodes = DOMAIN file /\ DOMAIN listed.runtimes = {}
  BY <1>2, <1>4, ListedAllSound
<1>9. S \in SUBSET Nodes /\ S \cap DOMAIN listed.runtimes = {} /\ S \subseteq DOMAIN configs
      /\ \A k \in S : configs[k] \in Config
  BY <1>3, <1>8
<1>10. /\ Sound(m) /\ Hearing(m)
       /\ DOMAIN m.nodes = DOMAIN listed.nodes \cup S
       /\ S \subseteq DOMAIN m.runtimes
  <2> HIDE DEF configs, desired
  <2>1. \A k \in S : configs[k] \in Config
    BY <1>9
  <2>2. /\ Sound(m) /\ Keeps(listed, m, S)
        /\ Hearing(listed) => Hearing(m)
        /\ DOMAIN m.nodes = DOMAIN listed.nodes \cup S
        /\ S \subseteq DOMAIN m.runtimes
    BY <1>8, <1>9, <2>1, BatchServedSound, Zenon
  <2> QED BY <1>8, <2>2
<1>11. DOMAIN m.nodes = DOMAIN file
  BY <1>8, <1>10
<1>12. failed \subseteq failed' /\ ToSet([i \in 1 .. Cardinality(unlucky) |-> "start"]) \subseteq failed'
  <2> HIDE DEF unlucky
  <2> QED BY <1>7 DEF Fails
<1>13. failed' \subseteq {"cleanup"} => S = desired
  <2> SUFFICES ASSUME failed' \subseteq {"cleanup"}, NEW n \in desired \ S PROVE FALSE
    OBVIOUS
  <2>1. FileApart(file)
    BY <1>2, <1>12 DEF Settled
  <2>2. \A k \in desired : configs[k].port \in Ports
    BY <2>1 DEF FileApart
  <2>3. \A k \in S : configs[k].port # configs[n].port
    BY <2>1 DEF FileApart
  <2> HIDE DEF configs, desired, m
  <2>4. FreePorts(m, configs[n]) # {}
    BY <1>8, <2>2, <2>3, RoomForRest DEF m
  <2>5. unlucky # {}
    BY <2>4
  <2>6. IsFiniteSet(unlucky)
    <3>1. unlucky \subseteq Nodes
      BY <1>3 DEF desired
    <3> HIDE DEF unlucky
    <3> QED BY <3>1, NodeAssumption, FS_Subset
  <2> HIDE DEF unlucky
  <2>7. "start" \in failed'
    BY <1>12, <2>5, <2>6, Repeated
  <2> QED BY <2>7
<1>14. DOMAIN m.runtimes = Running(m)
  BY <1>10 DEF Sound, Agrees
<1> HIDE DEF configs, unlucky, m
<1>15. failed' \subseteq {"cleanup"} => SavedRunning \subseteq Running(mem')
  BY <1>2, <1>7, <1>10, <1>13, <1>14
<1>16. Saved' = Saved /\ SavedRunning' = SavedRunning /\ FileApart(Saved)' = FileApart(Saved)
  BY <1>1 DEF Saved, SavedRunning, FileApart
<1>17. Sound(mem)' /\ Hearing(mem)'
  <2>1. Sound(mem)' = Sound(mem') /\ Hearing(mem)' = Hearing(mem')
    BY DEF Sound, Agrees, Apart, Running, Hearing, Managers
  <2> QED BY <1>7, <1>10, <2>1
<1>18. DOMAIN mem'.nodes = DOMAIN Saved
  BY <1>2, <1>7, <1>11
<1>19. Running(mem)' = Running(mem')
  BY DEF Running
<1>20. "stop" \notin failed' => FileApart(Saved')
  BY <1>12, <1>16 DEF Settled
<1>21. Cardinality(DOMAIN mem'.nodes) <= limit'
  BY <1>1, <1>2, <1>18
<1> QED BY <1>1, <1>2, <1>15, <1>16, <1>17, <1>18, <1>19, <1>20, <1>21 DEF Settled, Awaited, Up

-----------------------------------------------------------------------------
\* The steps of a service that is up.
Operation ==
  \/ \E n \in Nodes, c \in Config : Create(n, c)
  \/ \E B \in SUBSET Nodes, f \in Folders :
       \E configs \in [B -> {c \in Config : c.folder = f}] : CreateBatch(configs)
  \/ \E n \in Nodes, c \in Config : Update(n, c)
  \/ \E n \in Nodes : StartNode(n)
  \/ \E n \in Nodes : StopNode(n)
  \/ \E n \in Nodes, f \in Folders \cup {NoFolder} : MoveToFolder(n, f)
  \/ \E source, target \in Folders : RenameFolder(source, target)
  \/ \E n \in Nodes : DeleteNode(n)
  \/ \E n \in Nodes : CleanupRefused(n)

\* The steps that start and end a process, or damage its file.
Turn ==
  \/ \E l \in Limits : Boot(l)
  \/ Restore
  \/ RestoreRefused
  \/ Shutdown
  \/ Crash
  \/ Corrupt

LEMMA NextSplit == Next <=> Operation \/ Turn
BY DEF Next, Operation, Turn

LEMMA OperationOperates ==
  ASSUME Settled, Operation
  PROVE  Operates \/ Detaches \/ Reattaches
<1>1. CASE \E n \in Nodes, c \in Config : Create(n, c)
  BY <1>1, CreateOperates
<1>2. CASE \E B \in SUBSET Nodes, f \in Folders :
             \E configs \in [B -> {c \in Config : c.folder = f}] : CreateBatch(configs)
  <2>1. PICK B \in SUBSET Nodes, f \in Folders :
          \E configs \in [B -> {c \in Config : c.folder = f}] : CreateBatch(configs)
    BY <1>2
  <2>2. PICK configs \in [B -> {c \in Config : c.folder = f}] : CreateBatch(configs)
    BY <2>1
  <2>3. configs \in [B -> Config]
    OBVIOUS
  <2> QED BY <2>2, <2>3, CreateBatchOperates
<1>3. CASE \E n \in Nodes, c \in Config : Update(n, c)
  BY <1>3, UpdateOperates
<1>4. CASE \E n \in Nodes : StartNode(n)
  BY <1>4, StartOperates
<1>5. CASE \E n \in Nodes : StopNode(n)
  BY <1>5, StopOperates
<1>6. CASE \E n \in Nodes, f \in Folders \cup {NoFolder} : MoveToFolder(n, f)
  BY <1>6, MoveOperates
<1>7. CASE \E source, target \in Folders : RenameFolder(source, target)
  BY <1>7, RenameOperates
<1>8. CASE \E n \in Nodes : DeleteNode(n)
  BY <1>8, DeleteOperates
<1>9. CASE \E n \in Nodes : CleanupRefused(n)
  BY <1>9, CleanupReattaches
<1> QED BY <1>1, <1>2, <1>3, <1>4, <1>5, <1>6, <1>7, <1>8, <1>9 DEF Operation

\* And every step keeps it.
LEMMA NextSettled ==
  ASSUME Settled, [Next]_vars
  PROVE  Settled'
<1>1. CASE Operation
  BY <1>1, OperationOperates, OperatesSettled
<1>2. CASE Turn
  BY <1>2, BootSettled, RestoreSettled, RestoreRefusedSettled, ShutdownSettled, CrashSettled,
     CorruptSettled DEF Turn
<1>3. CASE UNCHANGED vars
  <2>1. Awaited'
    BY <1>3 DEF vars, Awaited, Settled
  <2>2. UNCHANGED <<mem, file, phase, limit, failed>>
    BY <1>3 DEF vars
  <2> QED BY <2>1, <2>2 DEF Settled, Sound, Agrees, Apart, Running, Hearing, Managers, FileApart,
                            Saved, SavedRunning, Admitted, Up
<1> QED BY <1>1, <1>2, <1>3, NextSplit

\* The invariant holds in every state.
LEMMA AlwaysSettled == Spec => []Settled
<1>1. Init => Settled
  BY InitSettled
<1>2. Settled /\ [Next]_vars => Settled'
  BY NextSettled
<1> QED BY <1>1, <1>2, PTL DEF Spec

\* Steps outside the operations: the file stays, or the next process is told what was there.
LEMMA TurnKeeps ==
  ASSUME Settled, Turn
  PROVE  /\ Up(phase) => phase' = "down" /\ reply'.result = "none"
         /\ failed' \subseteq {"save"} /\ Admitted => DOMAIN Saved \subseteq DOMAIN Saved'
         /\ failed' \subseteq {"cleanup"} /\ Admitted => SavedRunning \subseteq SavedRunning'
<1>1. CASE UNCHANGED file /\ (Up(phase) => phase' = "down" /\ reply' = NoReply)
  <2>1. Saved' = Saved /\ SavedRunning' = SavedRunning
    BY <1>1 DEF Saved, SavedRunning
  <2> QED BY <1>1, <2>1 DEF NoReply, Reply
<1>2. CASE Shutdown
  <2>1. phase = "serving" /\ phase' = "down" /\ reply'.result = "none"
        /\ (file' = file \/ (file' = mem.nodes /\ failed' = failed))
    BY <1>2 DEF Shutdown, NoReply, Reply
  <2>2. CASE file' = file
    BY <1>1, <1>2, <2>2 DEF Shutdown, Up
  <2>3. CASE file' = mem.nodes /\ failed' = failed
    <3>1. Saved' = mem.nodes /\ SavedRunning' = Running(mem)
      BY <2>3, SavedTable DEF Settled
    <3> QED BY <2>1, <2>3, <3>1 DEF Settled, Up
  <2> QED BY <2>1, <2>2, <2>3
<1>3. CASE Corrupt
  <2>1. phase = "down" /\ Fails(<<"corrupt">>)
    BY <1>3 DEF Corrupt
  <2>2. "corrupt" \in failed'
    BY <2>1, OneCost DEF Fails, Kinds
  <2> QED BY <2>1, <2>2 DEF Up
<1>4. CASE \E l \in Limits : Boot(l)
  BY <1>1, <1>4 DEF Boot, Up
<1>5. CASE Restore
  BY <1>1, <1>5 DEF Restore, Up
<1>6. CASE RestoreRefused
  BY <1>1, <1>6 DEF RestoreRefused, Up
<1>7. CASE Crash
  BY <1>1, <1>7 DEF Crash, Up
<1> QED BY <1>2, <1>3, <1>4, <1>5, <1>6, <1>7 DEF Turn

\* An operation that is saved leaves in the file what it leaves in the table.
LEMMA OperationKeeps ==
  ASSUME Settled, Effects, Up(phase)
  PROVE  /\ failed' \subseteq {"save"} /\ Admitted =>
              \A n \in DOMAIN Saved \ DOMAIN Saved' :
                /\ n \in reply'.on /\ reply'.op = "delete"
                /\ reply'.result = "ok" \/ (n \in DOMAIN detached' /\ phase' = "cleaning")
         /\ failed' \subseteq {"cleanup"} /\ Admitted =>
              \A n \in SavedRunning \ SavedRunning' :
                /\ n \in reply'.on
                /\ reply'.op = "delete" \/ (reply'.op = "stop" /\ reply'.result = "ok")
<1>1. Up(phase) /\ failed \subseteq failed' /\ Sound(mem')
  BY DEF Effects
<1>2. /\ failed' \subseteq {"save"} /\ Admitted => DOMAIN Saved \subseteq DOMAIN mem.nodes
      /\ failed' \subseteq {"cleanup"} /\ Admitted => SavedRunning \subseteq Running(mem)
  BY <1>1 DEF Settled
<1>3. CASE file' = mem'.nodes /\ Accounted
  <2>1. Saved' = mem'.nodes /\ SavedRunning' = Running(mem')
    BY <1>1, <1>3, SavedTable
  <2> QED BY <1>2, <1>3, <2>1 DEF Accounted
<1>4. CASE file' = file
  <2>1. Saved' = Saved /\ SavedRunning' = SavedRunning
    BY <1>4 DEF Saved, SavedRunning
  <2> QED BY <2>1
<1> QED BY <1>3, <1>4 DEF Effects

-----------------------------------------------------------------------------
(***************************************************************************)
(* A node is listed as running exactly when Manager.runtimes holds its     *)
(* runtime, with the port and the settings the table shows: after every    *)
(* operation, rollback, failed stop and restore.                           *)
(***************************************************************************)
THEOREM AlwaysServedAsListed == Spec => []ServedAsListed
<1>1. Settled => ServedAsListed
  BY DEF Settled, Sound, Agrees, Running, ServedAsListed
<1> QED BY <1>1, AlwaysSettled, PTL

(***************************************************************************)
(* PersistentManager rolls back an operation whose save failed: status,    *)
(* folder and settings of every node are what they were, whichever         *)
(* operation it was, except the start of a node that was running.          *)
(***************************************************************************)
THEOREM RefusalKeepsTable == Spec => RefusedKeepsTable
<1> DEFINE Kept ==
      failed' \subseteq {"save", "corrupt"} /\ phase = "serving"
        /\ reply'.result = "refused" /\ reply'.op # "start"
        => Seen(mem'.nodes) = Seen(mem.nodes)
<1>1. Settled /\ [Next]_vars => [Kept]_vars
  <2> SUFFICES ASSUME Settled, Next PROVE Kept
    OBVIOUS
  <2>1. CASE Operation
    BY <2>1, OperationOperates DEF Operates, Detaches, Reattaches, Effects, SeenKept
  <2>2. CASE Turn
    BY <2>2, TurnKeeps DEF Up
  <2> QED BY <2>1, <2>2, NextSplit
<1> QED BY <1>1, AlwaysSettled, PTL DEF Spec, RefusedKeepsTable

(***************************************************************************)
(* A node saved as running is saved as stopped only by its own stop or     *)
(* deletion: not by Shutdown, which takes the state before it stops the    *)
(* nodes, nor by a restore, a crash or an operation on another node.       *)
(***************************************************************************)
THEOREM StaysDesired == Spec => DesiredKept
<1> DEFINE Kept ==
      failed' \subseteq {"cleanup"} /\ Admitted =>
        \A n \in SavedRunning \ SavedRunning' :
          /\ n \in reply'.on
          /\ reply'.op = "delete" \/ (reply'.op = "stop" /\ reply'.result = "ok")
<1>1. Settled /\ [Next]_vars => [Kept]_vars
  <2> SUFFICES ASSUME Settled, Next PROVE Kept
    OBVIOUS
  <2>1. CASE Operation
    BY <2>1, OperationOperates, OperationKeeps DEF Operates, Detaches, Reattaches, Up
  <2>2. CASE Turn
    BY <2>2, TurnKeeps
  <2> QED BY <2>1, <2>2, NextSplit
<1> QED BY <1>1, AlwaysSettled, PTL DEF Spec, DesiredKept

(***************************************************************************)
(* A node leaves the file only with the answer that its deletion           *)
(* succeeded, or between the save and the clean-up of a deletion with a    *)
(* dedicated pool, through any failures of saves, rollbacks and crashes;   *)
(* and such a deletion that is refused, and can save, puts it back.        *)
(***************************************************************************)
THEOREM DeletedOnlyOnRequest == Spec => KeptUntilDeleted
<1> DEFINE Kept ==
      /\ failed' \subseteq {"save"} /\ Admitted =>
           \A n \in DOMAIN Saved \ DOMAIN Saved' :
             /\ n \in reply'.on /\ reply'.op = "delete"
             /\ reply'.result = "ok" \/ (n \in DOMAIN detached' /\ phase' = "cleaning")
      /\ phase = "cleaning" /\ phase' = "serving" /\ "save" \notin failed' =>
           DOMAIN detached \subseteq DOMAIN Saved'
<1>1. Settled /\ [Next]_vars => [Kept]_vars
  <2> SUFFICES ASSUME Settled, Next PROVE Kept
    OBVIOUS
  <2>1. CASE Operation
    BY <2>1, OperationOperates, OperationKeeps DEF Operates, Detaches, Reattaches, Up
  <2>2. CASE Turn
    BY <2>2, TurnKeeps DEF Up
  <2> QED BY <2>1, <2>2, NextSplit
<1> QED BY <1>1, AlwaysSettled, PTL DEF Spec, KeptUntilDeleted
=============================================================================
