------------------------ MODULE AdministrationProofs ------------------------
(***************************************************************************)
(* What administrators ask for, for any number of names, documents and     *)
(* goroutines.  The documents of the agent: the reply is true, no node is  *)
(* left without what it uses, and a document can be applied again.  The    *)
(* calls behind them: mutexes follow the stages, and only deletions of     *)
(* nodes with dedicated pools can be in a circular wait.                   *)
(***************************************************************************)
EXTENDS Administration, LockOrder, TLAPS

-----------------------------------------------------------------------------
(***************************************************************************)
(* Documents.  In each phase it is known what of the settings, the         *)
(* resources and the nodes is as it was before, and what is as the         *)
(* document says; for names that another administrator has touched         *)
(* meanwhile nothing is said.                                              *)
(***************************************************************************)
\* Where the document is, the document, what is left to do in this phase, and the item whose
\* call has taken effect and is not answered.
At == ap_apply.at
Doc == ap_apply.doc
Left == ap_apply.todo
Item == ap_apply.item

\* What the document says of the network.
Asked == DOMAIN Agent!Section(Doc.network)
TheNetwork(p) == Agent!Section(Doc.network)[p]

\* What the document defines, what of it was missing, and what it prunes.
Defined == DOMAIN Agent!Section(Doc.resources)
Planned == DOMAIN Agent!Section(Doc.nodes)
Missing == Defined \ DOMAIN ap_before.resources
Spare == IF ap_apply.prune /\ Doc.resources # ap_omitted
         THEN DOMAIN ap_before.resources \ Defined ELSE {}
SpareNodes == IF ap_apply.prune /\ Doc.nodes # ap_omitted
              THEN DOMAIN ap_before.nodes \ Planned ELSE {}

\* How far it is: what is in force, what was created, what was deleted, which nodes wait for
\* their turn.
Applied == CASE At \in {"settings", "creates"} -> {}
             [] At = "network" -> {p \in Asked : p \notin Left \/ p = Item}
             [] OTHER -> Asked
Created == CASE At = "settings" -> {} [] At = "creates" -> Missing \ Left [] OTHER -> Missing
Pruned == IF At = "pruneResources" THEN Spare \ Left ELSE {}
PrunedNodes == CASE At = "pruneResources" -> SpareNodes
                 [] At = "pruneNodes" -> {n \in SpareNodes : n \notin Left \/ n = Item}
                 [] OTHER -> {}
Turning(n) == At = "status" /\ n = Item
Waiting(n) == \/ At \in {"settings", "creates", "network"}
              \/ At \in {"nodes", "status"} /\ n \in Left /\ n # Item

\* The settings when the document has set its own.
TheSettings == Agent!Merged(ap_before.settings, Doc)

\* The fields of a document that is being applied.
Fields == {"at", "doc", "prune", "base", "plans", "todo", "item", "completed"}

\* Where a document can be.
Phases == {"settings", "creates", "network", "nodes", "status", "pruneNodes", "pruneResources"}

\* It was accepted on the snapshot, and planned on it.
Begun ==
  /\ DOMAIN ap_apply = Fields /\ At \in Phases
  /\ Doc \in ap_documents /\ ap_apply.prune \in BOOLEAN /\ ap_apply.base = ap_before
  /\ Agent!Accepted(Doc, ap_apply.prune, ap_before)
  /\ ap_apply.plans = Agent!Plans(Agent!Section(Doc.nodes), ap_before.nodes)

\* What is left to do is something that the document asks for.
LeftIsDue ==
  /\ At = "creates" => Left \subseteq Missing
  /\ At = "network" => Left \subseteq Asked
  /\ At \in {"nodes", "status"} => Left \subseteq Planned
  /\ At = "status" => Item \in Left
  /\ At = "pruneNodes" => /\ Left \subseteq ap_nodes \ Planned
                          /\ Left # {} => ap_apply.prune /\ Doc.nodes # ap_omitted
  /\ At = "pruneResources" => Left \subseteq Spare
  /\ \/ Item = ap_omitted
     \/ Item \in Left /\ At \in {"network", "nodes", "status", "pruneNodes"}

\* Settings and network: as before, or as the document says.
SettingsStand ==
  /\ ap_sys.settings.capacity =
       IF At = "settings" THEN ap_before.settings.capacity ELSE TheSettings.capacity
  /\ \A p \in Agent!NetworkParts \ ap_touched :
       /\ ap_sys.settings.network[p] = ap_sys.network[p]
       /\ ap_sys.network[p] = IF p \in Applied THEN TheNetwork(p) ELSE ap_before.network[p]

\* Resources that nobody else touched: as before without what is pruned, or as defined.
ResourcesStand ==
  \A r \in Agent!Names \ ap_touched :
    /\ r \in DOMAIN ap_sys.resources <=> r \in (DOMAIN ap_before.resources \ Pruned) \cup Created
    /\ r \in DOMAIN ap_before.resources \ Pruned => ap_sys.resources[r] = ap_before.resources[r]
    /\ r \in Created => ap_sys.resources[r] \in Agent!Stored(r, Doc.resources[r], TheSettings)

\* Nodes that nobody else touched: as planned when their turn has come, before that as before.
NodesStand ==
  \A n \in ap_nodes \ ap_touched :
    IF n \in Planned /\ ~Waiting(n)
    THEN /\ n \in DOMAIN ap_sys.nodes
         /\ ap_sys.nodes[n].config = ap_apply.plans[n].config
         /\ Turning(n) \/ ap_sys.nodes[n].status = ap_apply.plans[n].status
    ELSE /\ n \in DOMAIN ap_sys.nodes <=> n \in DOMAIN ap_before.nodes \ PrunedNodes
         /\ n \in DOMAIN ap_sys.nodes => ap_sys.nodes[n] = ap_before.nodes[n]

\* Completed is what was done, but for the item whose answer is awaited.
CompletedIsDone ==
  /\ "settings" \in ap_apply.completed <=> At # "settings" /\ TheSettings # ap_before.settings
  /\ \A p \in Agent!NetworkParts : p \in ap_apply.completed <=> p \in Applied /\ p # Item
  /\ \A r \in Agent!Names \ ap_touched : r \in ap_apply.completed <=> r \in Created \cup Pruned
  /\ \A n \in Planned : n \in ap_apply.completed <=> ~Waiting(n) /\ n # Item
  /\ (PrunedNodes \ ap_touched) \ {Item} \subseteq ap_apply.completed

Stands == LeftIsDue /\ SettingsStand /\ ResourcesStand /\ NodesStand /\ CompletedIsDone

\* The inductive invariant: nothing is applied yet; or a document is, and stands where its phase
\* says; or it has ended, and its reply holds.
FollowsDocument ==
  /\ ap_before \in ap_systems /\ Holds(ap_sys)
  /\ \/ /\ ap_apply = Agent!Idle /\ ap_reply = Agent!NoReply
        /\ ap_sys = ap_before /\ ap_touched = {}
     \/ ap_apply # Agent!Idle /\ ap_reply = Agent!NoReply /\ Begun /\ Stands
     \/ /\ ap_apply = Agent!Idle /\ ap_reply # Agent!NoReply
        /\ ReplyIsTrue /\ NeverDangling /\ CanBeRepeated

-----------------------------------------------------------------------------
(***************************************************************************)
(* The steps of a document.                                                *)
(***************************************************************************)
\* A step of the document: the phase, what is left in it, the item in hand, what it completed.
Shifts(at, todo, item, done) ==
  /\ DOMAIN ap_apply' = Fields
  /\ ap_apply'.at = at /\ ap_apply'.todo = todo /\ ap_apply'.item = item
  /\ ap_apply'.completed = ap_apply.completed \cup done
  /\ ap_apply'.doc = Doc /\ ap_apply'.prune = ap_apply.prune
  /\ ap_apply'.base = ap_apply.base /\ ap_apply'.plans = ap_apply.plans
  /\ UNCHANGED <<ap_reply, ap_before>>

Moves(at, todo, item, done) == Shifts(at, todo, item, done) /\ UNCHANGED ap_touched

\* What no step changes: the document, what there was before, and so what it defines, lacks
\* and prunes.
KeepsPlan ==
  /\ Begun' /\ ap_apply' # Agent!Idle /\ ap_reply' = ap_reply
  /\ Doc' = Doc /\ ap_apply'.prune = ap_apply.prune /\ ap_before' = ap_before
  /\ Asked' = Asked /\ Defined' = Defined /\ Planned' = Planned /\ Missing' = Missing
  /\ Spare' = Spare /\ SpareNodes' = SpareNodes /\ TheSettings' = TheSettings
  /\ ap_apply'.plans = ap_apply.plans

Steady == KeepsPlan /\ ap_touched' = ap_touched

\* A step leaves the document and its plans as they are.
LEMMA SameDocument ==
  ASSUME Begun, NEW at \in Phases, NEW todo, NEW item, NEW done, Shifts(at, todo, item, done)
  PROVE  KeepsPlan
<1>1. Doc' = Doc /\ ap_apply'.prune = ap_apply.prune /\ ap_before' = ap_before
  BY DEF Shifts, Doc
<1>2. /\ Asked' = Asked /\ Defined' = Defined /\ Planned' = Planned /\ Missing' = Missing
      /\ TheSettings' = TheSettings
  BY <1>1 DEF Asked, Defined, Planned, Missing, TheSettings
<1>3. Spare' = Spare /\ SpareNodes' = SpareNodes
  BY <1>1, <1>2 DEF Spare, SpareNodes
<1>4. Begun'
  BY <1>1 DEF Begun, Shifts, At, Doc, Fields, Phases
<1>5. ap_apply' # Agent!Idle
  BY DEF Shifts, Fields, Agent!Idle
<1> QED BY <1>1, <1>2, <1>3, <1>4, <1>5 DEF Shifts, KeepsPlan

\* So does one by which nothing is touched.
LEMMA SamePlan ==
  ASSUME Begun, NEW at \in Phases, NEW todo, NEW item, NEW done, Moves(at, todo, item, done)
  PROVE  Steady
BY SameDocument DEF Moves, Steady

\* Resources that are not touched stand when nothing is created or pruned.
LEMMA ResourcesKept ==
  ASSUME Steady, ResourcesStand, ap_sys'.resources = ap_sys.resources,
         Created' = Created, Pruned' = Pruned
  PROVE  ResourcesStand'
BY DEF Steady, KeepsPlan, ResourcesStand

\* Nodes that are not touched stand when none gets or ends its turn.
LEMMA NodesKept ==
  ASSUME Steady, NodesStand, ap_sys'.nodes = ap_sys.nodes, PrunedNodes' = PrunedNodes,
         \A n \in Planned : Waiting(n)' = Waiting(n) /\ Turning(n)' = Turning(n)
  PROVE  NodesStand'
<1> SUFFICES ASSUME NEW n \in ap_nodes \ ap_touched
             PROVE  IF n \in Planned /\ ~Waiting(n)'
                    THEN /\ n \in DOMAIN ap_sys'.nodes
                         /\ ap_sys'.nodes[n].config = ap_apply'.plans[n].config
                         /\ Turning(n)' \/ ap_sys'.nodes[n].status = ap_apply'.plans[n].status
                    ELSE /\ n \in DOMAIN ap_sys'.nodes <=>
                              n \in DOMAIN ap_before'.nodes \ PrunedNodes'
                         /\ n \in DOMAIN ap_sys'.nodes => ap_sys'.nodes[n] = ap_before'.nodes[n]
  BY DEF Steady, KeepsPlan, NodesStand
<1> QED BY DEF Steady, KeepsPlan, NodesStand

\* Settings and network stand between the phases that change them.
LEMMA SettingsKept ==
  ASSUME Steady, SettingsStand, At # "settings", At' # "settings",
         ap_sys'.settings = ap_sys.settings, ap_sys'.network = ap_sys.network,
         Applied' = Applied
  PROVE  SettingsStand'
BY DEF Steady, KeepsPlan, SettingsStand, TheNetwork

\* A document is being applied, and has come as far as its phase says.
Working ==
  /\ ap_before \in ap_systems /\ Holds(ap_sys)
  /\ ap_apply # Agent!Idle /\ ap_reply = Agent!NoReply /\ Begun /\ Stands

\* A resource more, or one replaced.
LEMMA PutResource ==
  ASSUME NEW s, Holds(s), NEW r \in Agent!Names, NEW d, NEW t, DOMAIN t = DOMAIN s,
         t.settings = s.settings, t.network = s.network, t.nodes = s.nodes,
         t.resources = Agent!Put(s.resources, r, d)
  PROVE  /\ Holds(t) /\ DOMAIN t.resources = DOMAIN s.resources \cup {r} /\ t.resources[r] = d
         /\ \A x \in DOMAIN s.resources : x # r => t.resources[x] = s.resources[x]
BY DEF Holds, Agent!Put

\* Resources less.
LEMMA DropResource ==
  ASSUME NEW s, Holds(s), NEW gone, NEW t, DOMAIN t = DOMAIN s,
         t.settings = s.settings, t.network = s.network, t.nodes = s.nodes,
         t.resources = Agent!Drop(s.resources, gone)
  PROVE  /\ Holds(t) /\ DOMAIN t.resources = DOMAIN s.resources \ gone
         /\ \A x \in DOMAIN t.resources : t.resources[x] = s.resources[x]
BY DEF Holds, Agent!Drop

\* A node more, or one replaced.
LEMMA PutNode ==
  ASSUME NEW s, Holds(s), NEW n \in ap_nodes, NEW item, NEW t,
         DOMAIN item = {"config", "status"}, DOMAIN item.config = {"uses", "creds", "rest"},
         DOMAIN t = DOMAIN s, t.settings = s.settings, t.network = s.network,
         t.resources = s.resources, t.nodes = Agent!Put(s.nodes, n, item)
  PROVE  /\ Holds(t) /\ DOMAIN t.nodes = DOMAIN s.nodes \cup {n} /\ t.nodes[n] = item
         /\ \A x \in DOMAIN s.nodes : x # n => t.nodes[x] = s.nodes[x]
<1>1. /\ DOMAIN t.nodes = DOMAIN s.nodes \cup {n} /\ t.nodes[n] = item
      /\ \A x \in DOMAIN s.nodes : x # n => t.nodes[x] = s.nodes[x]
  BY DEF Agent!Put
<1>2. Holds(t)
  BY <1>1 DEF Holds
<1> QED BY <1>1, <1>2

\* Nodes less.
LEMMA DropNode ==
  ASSUME NEW s, Holds(s), NEW gone, NEW t, DOMAIN t = DOMAIN s,
         t.settings = s.settings, t.network = s.network, t.resources = s.resources,
         t.nodes = Agent!Drop(s.nodes, gone)
  PROVE  /\ Holds(t) /\ DOMAIN t.nodes = DOMAIN s.nodes \ gone
         /\ \A x \in DOMAIN t.nodes : t.nodes[x] = s.nodes[x]
BY DEF Holds, Agent!Drop

\* A node that is there is changed.
LEMMA SetNode ==
  ASSUME NEW s, Holds(s), NEW n \in DOMAIN s.nodes, NEW item, NEW t,
         DOMAIN item = {"config", "status"}, DOMAIN item.config = {"uses", "creds", "rest"},
         DOMAIN t = DOMAIN s, t.settings = s.settings, t.network = s.network,
         t.resources = s.resources, t.nodes = [s.nodes EXCEPT ![n] = item]
  PROVE  /\ Holds(t) /\ DOMAIN t.nodes = DOMAIN s.nodes /\ t.nodes[n] = item
         /\ \A x \in DOMAIN s.nodes : x # n => t.nodes[x] = s.nodes[x]
<1>1. /\ DOMAIN t.nodes = DOMAIN s.nodes /\ t.nodes[n] = item
      /\ \A x \in DOMAIN s.nodes : x # n => t.nodes[x] = s.nodes[x]
  OBVIOUS
<1>2. Holds(t)
  BY <1>1 DEF Holds
<1> QED BY <1>1, <1>2

\* A part of the network is used and saved.
LEMMA SetNetwork ==
  ASSUME Holds(ap_sys), NEW p \in Agent!NetworkParts, NEW v, ap_sys' = Agent!InForce(p, v)
  PROVE  /\ Holds(ap_sys') /\ ap_sys'.resources = ap_sys.resources /\ ap_sys'.nodes = ap_sys.nodes
         /\ ap_sys'.settings.capacity = ap_sys.settings.capacity
         /\ ap_sys'.network[p] = v /\ ap_sys'.settings.network[p] = v
         /\ \A q \in Agent!NetworkParts \ {p} : /\ ap_sys'.network[q] = ap_sys.network[q]
                                                /\ ap_sys'.settings.network[q] = ap_sys.settings.network[q]
<1>1. /\ DOMAIN ap_sys' = DOMAIN ap_sys /\ ap_sys'.resources = ap_sys.resources /\ ap_sys'.nodes = ap_sys.nodes
      /\ ap_sys'.network = [ap_sys.network EXCEPT ![p] = v]
      /\ ap_sys'.settings = [ap_sys.settings EXCEPT !.network[p] = v]
  BY DEF Holds, Agent!InForce
<1>2. /\ DOMAIN ap_sys'.settings = DOMAIN ap_sys.settings
      /\ ap_sys'.settings.network = [ap_sys.settings.network EXCEPT ![p] = v]
      /\ ap_sys'.settings.capacity = ap_sys.settings.capacity
  BY <1>1 DEF Holds
<1>3. /\ DOMAIN ap_sys'.network = Agent!NetworkParts /\ DOMAIN ap_sys'.settings.network = Agent!NetworkParts
      /\ ap_sys'.network[p] = v /\ ap_sys'.settings.network[p] = v
      /\ \A q \in Agent!NetworkParts \ {p} : /\ ap_sys'.network[q] = ap_sys.network[q]
                                             /\ ap_sys'.settings.network[q] = ap_sys.settings.network[q]
  BY <1>1, <1>2 DEF Holds
<1>4. Holds(ap_sys')
  BY <1>1, <1>2, <1>3 DEF Holds
<1> QED BY <1>1, <1>2, <1>3, <1>4

\* The settings are written back as a whole.
LEMMA SetSettings ==
  ASSUME NEW s, Holds(s), NEW v, DOMAIN v = {"capacity", "network"},
         DOMAIN v.network = Agent!NetworkParts, NEW t, t = [s EXCEPT !.settings = v]
  PROVE  /\ Holds(t) /\ t.resources = s.resources /\ t.nodes = s.nodes
         /\ t.network = s.network /\ t.settings = v
BY DEF Holds

\* The services held what they can hold when the document began.
LEMMA BeforeHolds ==
  ASSUME ap_before \in ap_systems
  PROVE  /\ Holds(ap_before) /\ ap_before.settings.network = ap_before.network
         /\ \A n \in DOMAIN ap_before.nodes : ap_before.nodes[n] # ap_omitted
BY SystemAssumption

\* The document's settings keep the network of the snapshot.
LEMMA MergedSettings ==
  ASSUME ap_before \in ap_systems
  PROVE  /\ DOMAIN TheSettings = {"capacity", "network"}
         /\ TheSettings.network = ap_before.network
         /\ DOMAIN TheSettings.network = Agent!NetworkParts
BY BeforeHolds DEF TheSettings, Agent!Merged, Holds

\* What the document says is of the network's parts, of resources and of nodes, and none of these
\* can be taken for another.
LEMMA Apart ==
  ASSUME Begun
  PROVE  /\ Asked \subseteq Agent!NetworkParts /\ Defined \subseteq Agent!Names /\ Planned \subseteq ap_nodes
         /\ Agent!NetworkParts \cap Agent!Names = {} /\ Agent!NetworkParts \cap ap_nodes = {}
         /\ Agent!Names \cap ap_nodes = {}
         /\ "settings" \notin Agent!NetworkParts \cup Agent!Names \cup ap_nodes
         /\ ap_omitted \notin {"settings"} \cup Agent!NetworkParts \cup Agent!Names \cup ap_nodes
<1>1. Decoded(Doc)
  BY DocumentAssumption DEF Begun
<1>2. Asked \subseteq Agent!NetworkParts /\ Defined \subseteq Agent!Names /\ Planned \subseteq ap_nodes
  BY <1>1 DEF Decoded, Asked, Defined, Planned
<1>3. /\ Agent!Names \cap ap_nodes = {}
      /\ ({"settings"} \cup Agent!NetworkParts) \cap (Agent!Names \cup ap_nodes) = {}
      /\ ap_omitted \notin {"settings"} \cup Agent!NetworkParts \cup Agent!Names \cup ap_nodes
  BY NamingAssumption DEF NamesAreApart
<1>4. "settings" \notin Agent!NetworkParts
  BY DEF Agent!NetworkParts
<1> QED BY <1>2, <1>3, <1>4

\* buildAgentNodePlans: what the document leaves out of a node is as it was.
LEMMA PlanOfNode ==
  ASSUME NEW items, NEW list, NEW n \in DOMAIN items,
         \A m \in DOMAIN list : DOMAIN list[m].config = {"uses", "creds", "rest"}
  PROVE  LET plan == Agent!Plans(items, list)[n] IN
         /\ DOMAIN plan.config = {"uses", "creds", "rest"} /\ plan.status = items[n].status
         /\ plan.existing = IF n \in DOMAIN list THEN list[n] ELSE ap_omitted
         /\ n \in DOMAIN list => plan.config.rest = list[n].config.rest
         /\ plan.config.uses =
              IF items[n].uses # ap_omitted THEN items[n].uses
              ELSE IF n \in DOMAIN list THEN list[n].config.uses ELSE ap_omitted
         /\ plan.config.creds = Agent!Credentials(items[n],
              IF n \in DOMAIN list THEN list[n].config
              ELSE [uses |-> ap_omitted, creds |-> "none", rest |-> "default"])
         /\ plan.fresh = (items[n].auth = "generate")
<1> DEFINE config == IF n \in DOMAIN list THEN list[n].config
                     ELSE [uses |-> ap_omitted, creds |-> "none", rest |-> "default"]
           uses == IF items[n].uses = ap_omitted THEN config.uses ELSE items[n].uses
           creds == Agent!Credentials(items[n], config)
           made == [config EXCEPT !.uses = uses, !.creds = creds]
<1>1. Agent!Plans(items, list)[n] = Agent!Plan(n, items[n], list)
  BY DEF Agent!Plans
<1>2. Agent!Plan(n, items[n], list) =
        [config |-> made, status |-> items[n].status,
         existing |-> IF n \in DOMAIN list THEN list[n] ELSE ap_omitted,
         fresh |-> items[n].auth = "generate"]
  BY DEF Agent!Plan
<1>3. DOMAIN config = {"uses", "creds", "rest"}
  OBVIOUS
<1> HIDE DEF config
<1>4. /\ DOMAIN made = {"uses", "creds", "rest"} /\ made.uses = uses /\ made.creds = creds
      /\ made.rest = config.rest
  BY <1>3
<1> HIDE DEF made, uses, creds
<1> DEFINE plan == Agent!Plans(items, list)[n]
<1>5. /\ plan.config = made /\ plan.status = items[n].status
      /\ plan.existing = IF n \in DOMAIN list THEN list[n] ELSE ap_omitted
      /\ plan.fresh = (items[n].auth = "generate")
  BY <1>1, <1>2
<1> HIDE DEF plan
<1>6. n \in DOMAIN list => plan.config.rest = list[n].config.rest
  BY <1>4, <1>5 DEF config
<1>7. plan.config.uses = IF items[n].uses # ap_omitted THEN items[n].uses
                         ELSE IF n \in DOMAIN list THEN list[n].config.uses ELSE ap_omitted
  BY <1>4, <1>5 DEF config, uses
<1>8. plan.config.creds = Agent!Credentials(items[n], config)
  BY <1>4, <1>5 DEF creds
<1> QED BY <1>4, <1>5, <1>6, <1>7, <1>8 DEF plan, config

\* A step of a document changes how far it is, what is left and what is completed.
LEMMA GoesMoves ==
  ASSUME Begun, NEW at, NEW todo, NEW done,
         Agent!Goes([ap_apply EXCEPT !.at = at, !.todo = todo], done)
  PROVE  Moves(at, todo, Item, done)
<1> DEFINE next == [ap_apply EXCEPT !.at = at, !.todo = todo]
<1>1. /\ DOMAIN next = Fields /\ next.at = at /\ next.todo = todo /\ next.item = Item
      /\ next.doc = ap_apply.doc /\ next.prune = ap_apply.prune
      /\ next.base = ap_apply.base /\ next.plans = ap_apply.plans
      /\ next.completed = ap_apply.completed
  BY DEF Begun, Fields, Item
<1> HIDE DEF next
<1>2. ap_apply' = [next EXCEPT !.completed = @ \cup done]
      /\ UNCHANGED <<ap_reply, ap_before, ap_touched>>
  BY DEF Agent!Goes, next
<1> QED BY <1>1, <1>2 DEF Moves, Shifts, Fields, Doc

\* The settings: the whole snapshot is written back, which undoes a change of the network that
\* another administrator made meanwhile (touched says so).
LEMMA ReplaceSettingsWorks == Working /\ Agent!ReplaceSettings => Working'
<1> SUFFICES ASSUME Working, Agent!ReplaceSettings PROVE Working'
  OBVIOUS
<1>1. /\ At = "settings" /\ Holds(ap_sys) /\ Begun /\ Stands /\ ap_before \in ap_systems
      /\ ap_apply.base = ap_before
  BY DEF Working, Agent!ReplaceSettings, Begun, At
<1> DEFINE done == IF TheSettings # ap_before.settings THEN {"settings"} ELSE {}
<1>2. Moves("creates", Missing, Item, done)
  <2>1. Agent!Goes([ap_apply EXCEPT !.at = "creates", !.todo = Missing], done)
    BY <1>1 DEF Agent!ReplaceSettings, Missing, Defined, Doc, TheSettings
  <2> QED BY <1>1, <2>1, GoesMoves
<1>3. Steady
  BY <1>1, <1>2, SamePlan DEF Phases
<1>4. /\ At' = "creates" /\ Left' = Missing /\ Item' = ap_omitted /\ Item = ap_omitted
      /\ ap_apply'.completed = ap_apply.completed \cup done
  BY <1>1, <1>2 DEF Moves, Shifts, At, Left, Item, Stands, LeftIsDue
<1>5. /\ Holds(ap_sys') /\ ap_sys'.resources = ap_sys.resources /\ ap_sys'.nodes = ap_sys.nodes
      /\ ap_sys'.network = ap_sys.network /\ ap_sys'.settings.capacity = TheSettings.capacity
      /\ \A p \in Agent!NetworkParts \ ap_touched :
           ap_sys'.settings.network[p] = ap_sys'.network[p]
  <2>1. CASE TheSettings # ap_before.settings
    <3>1. ap_sys' = [ap_sys EXCEPT !.settings = TheSettings]
      BY <1>1, <2>1 DEF Agent!ReplaceSettings, TheSettings, Doc
    <3>2. \A p \in Agent!NetworkParts \ ap_touched : ap_before.network[p] = ap_sys.network[p]
      BY <1>1 DEF Stands, SettingsStand, Applied
    <3> QED BY <1>1, <3>1, <3>2, SetSettings, MergedSettings
  <2>2. CASE TheSettings = ap_before.settings
    <3>1. ap_sys' = ap_sys
      BY <1>1, <2>2 DEF Agent!ReplaceSettings, TheSettings, Doc
    <3> QED BY <1>1, <2>2, <3>1 DEF Stands, SettingsStand
  <2> QED BY <2>1, <2>2
<1>6. SettingsStand'
  <2>1. Applied = {} /\ Applied' = {}
    BY <1>1, <1>4 DEF Applied
  <2> QED BY <1>1, <1>3, <1>4, <1>5, <2>1 DEF Stands, SettingsStand, Steady, KeepsPlan
<1>7. Created = {} /\ Created' = {} /\ Pruned = {} /\ Pruned' = {}
      /\ PrunedNodes = {} /\ PrunedNodes' = {}
  BY <1>1, <1>3, <1>4 DEF Created, Pruned, PrunedNodes, Steady, KeepsPlan
<1>8. \A n : Waiting(n) /\ Waiting(n)' /\ ~Turning(n) /\ ~Turning(n)'
  BY <1>1, <1>4 DEF Waiting, Turning
<1>9. ResourcesStand' /\ NodesStand'
  <2>1. ResourcesStand'
    BY <1>1, <1>3, <1>5, <1>7, ResourcesKept DEF Stands
  <2>2. \A n : Waiting(n)' = Waiting(n) /\ Turning(n)' = Turning(n)
    BY <1>1, <1>4 DEF Waiting, Turning
  <2>3. NodesStand'
    BY <1>1, <1>3, <1>5, <1>7, <2>2, NodesKept DEF Stands
  <2> QED BY <2>1, <2>3
<1>10. CompletedIsDone'
  <2>1. Applied = {} /\ Applied' = {}
    BY <1>1, <1>4 DEF Applied
  <2> QED BY <1>1, <1>3, <1>4, <1>7, <1>8, <2>1, Apart
    DEF Stands, CompletedIsDone, Steady, KeepsPlan
<1>11. LeftIsDue'
  BY <1>3, <1>4 DEF LeftIsDue, Steady, KeepsPlan
<1> QED BY <1>1, <1>3, <1>5, <1>6, <1>9, <1>10, <1>11 DEF Working, Stands, Steady, KeepsPlan

\* A step within a phase.
LEMMA GoesLeft ==
  ASSUME Begun, NEW todo, NEW done, Agent!Goes([ap_apply EXCEPT !.todo = todo], done)
  PROVE  Moves(At, todo, Item, done)
<1> DEFINE next == [ap_apply EXCEPT !.todo = todo]
<1>1. next = [ap_apply EXCEPT !.at = At, !.todo = todo]
  BY DEF Begun, At
<1> HIDE DEF next
<1> QED BY <1>1, GoesMoves DEF next

\* A resource that was missing is created as the document defines it.
LEMMA CreateWorks ==
  ASSUME Working, NEW r \in Agent!Names, Agent!Create(r)
  PROVE  Working'
<1>1. /\ At = "creates" /\ Holds(ap_sys) /\ Begun /\ Stands /\ ap_before \in ap_systems
      /\ r \in Left /\ r \in Missing
  BY DEF Working, Agent!Create, Agent!First, At, Left, Stands, LeftIsDue
<1>2. Moves("creates", Left \ {r}, Item, {r})
  <2>1. Agent!Goes([ap_apply EXCEPT !.todo = Left \ {r}], {r})
    BY DEF Agent!Create, Left
  <2> QED BY <1>1, <2>1, GoesLeft
<1>3. Steady
  BY <1>1, <1>2, SamePlan DEF Phases
<1>4. /\ At' = "creates" /\ Left' = Left \ {r} /\ Item' = ap_omitted /\ Item = ap_omitted
      /\ ap_apply'.completed = ap_apply.completed \cup {r}
  BY <1>1, <1>2 DEF Moves, Shifts, At, Left, Item, Stands, LeftIsDue
<1>5. PICK d \in Agent!Stored(r, Doc.resources[r], TheSettings) :
        ap_sys' = [ap_sys EXCEPT !.resources = Agent!Put(@, r, d)]
  <2>1. ap_apply.base = ap_before
    BY <1>1 DEF Begun
  <2> QED BY <2>1 DEF Agent!Create, Doc, TheSettings
<1>6. /\ Holds(ap_sys') /\ ap_sys'.settings = ap_sys.settings
      /\ ap_sys'.network = ap_sys.network /\ ap_sys'.nodes = ap_sys.nodes
      /\ DOMAIN ap_sys'.resources = DOMAIN ap_sys.resources \cup {r}
      /\ ap_sys'.resources[r] = d
      /\ \A x \in DOMAIN ap_sys.resources : x # r => ap_sys'.resources[x] = ap_sys.resources[x]
  <2>1. /\ DOMAIN ap_sys' = DOMAIN ap_sys /\ ap_sys'.settings = ap_sys.settings
        /\ ap_sys'.network = ap_sys.network /\ ap_sys'.nodes = ap_sys.nodes
        /\ ap_sys'.resources = Agent!Put(ap_sys.resources, r, d)
    BY <1>1, <1>5 DEF Holds
  <2> QED BY <1>1, <2>1, PutResource
<1>7. Created' = Created \cup {r} /\ r \notin Created /\ Pruned = {} /\ Pruned' = {}
      /\ PrunedNodes = {} /\ PrunedNodes' = {} /\ Applied = {} /\ Applied' = {}
  BY <1>1, <1>3, <1>4 DEF Created, Pruned, PrunedNodes, Applied, Steady, KeepsPlan
<1>8. \A n : Waiting(n)' = Waiting(n) /\ Turning(n)' = Turning(n)
  BY <1>1, <1>4 DEF Waiting, Turning
<1>9. SettingsStand'
  BY <1>1, <1>3, <1>4, <1>6, <1>7, SettingsKept DEF Stands
<1>10. NodesStand'
  BY <1>1, <1>3, <1>6, <1>7, <1>8, NodesKept DEF Stands
<1>11. ResourcesStand'
  <2>1. r \notin DOMAIN ap_before.resources
    BY <1>1 DEF Missing
  <2> SUFFICES ASSUME NEW x \in Agent!Names \ ap_touched
               PROVE  /\ x \in DOMAIN ap_sys'.resources <=>
                           x \in DOMAIN ap_before.resources \cup Created'
                      /\ x \in DOMAIN ap_before.resources =>
                           ap_sys'.resources[x] = ap_before.resources[x]
                      /\ x \in Created' =>
                           ap_sys'.resources[x] \in Agent!Stored(x, Doc.resources[x], TheSettings)
    BY <1>3, <1>7 DEF Steady, KeepsPlan, ResourcesStand
  <2>2. /\ x \in DOMAIN ap_sys.resources <=> x \in DOMAIN ap_before.resources \cup Created
        /\ x \in DOMAIN ap_before.resources => ap_sys.resources[x] = ap_before.resources[x]
        /\ x \in Created =>
             ap_sys.resources[x] \in Agent!Stored(x, Doc.resources[x], TheSettings)
    BY <1>1, <1>7 DEF Stands, ResourcesStand
  <2> QED BY <1>5, <1>6, <1>7, <2>1, <2>2
<1>12. CompletedIsDone'
  BY <1>1, <1>3, <1>4, <1>7, <1>8, Apart DEF Stands, CompletedIsDone, Steady, KeepsPlan
<1>13. LeftIsDue'
  BY <1>1, <1>3, <1>4 DEF LeftIsDue, Steady, KeepsPlan, Stands
<1> QED BY <1>3, <1>6, <1>9, <1>10, <1>11, <1>12, <1>13 DEF Working, Stands, Steady, KeepsPlan

\* A call takes effect: its item is in hand.
LEMMA HandMoves ==
  ASSUME Begun, NEW at, NEW item, Agent!InHand(item, at)
  PROVE  Moves(at, Left, item, {})
<1>1. /\ ap_apply' = [ap_apply EXCEPT !.at = at, !.item = item]
      /\ UNCHANGED <<ap_reply, ap_before, ap_touched>>
  BY DEF Agent!InHand
<1>2. DOMAIN ap_apply = Fields
  BY DEF Begun
<1> QED BY <1>1, <1>2 DEF Moves, Shifts, Fields, Doc, Left

\* The network comes after the resources.
LEMMA ApplyNetworkWorks ==
  ASSUME Working, Agent!ApplyNetwork
  PROVE  Working'
<1>1. /\ At = "creates" /\ Left = {} /\ Holds(ap_sys) /\ Begun /\ Stands
      /\ ap_before \in ap_systems /\ ap_sys' = ap_sys
  BY DEF Working, Agent!ApplyNetwork, At, Left
<1>2. Moves("network", Asked, Item, {})
  <2>1. Agent!Goes([ap_apply EXCEPT !.at = "network", !.todo = Asked], {})
    BY DEF Agent!ApplyNetwork, Asked, Doc
  <2> QED BY <1>1, <2>1, GoesMoves
<1>3. Steady
  BY <1>1, <1>2, SamePlan DEF Phases
<1>4. /\ At' = "network" /\ Left' = Asked /\ Item' = ap_omitted /\ Item = ap_omitted
      /\ ap_apply'.completed = ap_apply.completed
  BY <1>1, <1>2 DEF Moves, Shifts, At, Left, Item, Stands, LeftIsDue
<1>5. Created = Missing /\ Created' = Missing /\ Pruned = {} /\ Pruned' = {}
      /\ PrunedNodes = {} /\ PrunedNodes' = {}
  BY <1>1, <1>3, <1>4 DEF Created, Pruned, PrunedNodes, Steady, KeepsPlan
<1>6. Applied = {} /\ Applied' = {}
  BY <1>1, <1>3, <1>4, Apart DEF Applied, Steady, KeepsPlan
<1>7. \A n : Waiting(n)' = Waiting(n) /\ Turning(n)' = Turning(n)
  BY <1>1, <1>4 DEF Waiting, Turning
<1>8. SettingsStand'
  BY <1>1, <1>3, <1>4, <1>6, SettingsKept DEF Stands
<1>9. ResourcesStand'
  BY <1>1, <1>3, <1>5, ResourcesKept DEF Stands
<1>10. NodesStand'
  BY <1>1, <1>3, <1>5, <1>7, NodesKept DEF Stands
<1>11. CompletedIsDone'
  BY <1>1, <1>3, <1>4, <1>5, <1>6, <1>7 DEF Stands, CompletedIsDone, Steady, KeepsPlan
<1>12. LeftIsDue'
  BY <1>3, <1>4 DEF LeftIsDue, Steady, KeepsPlan
<1> QED
  BY <1>1, <1>3, <1>8, <1>9, <1>10, <1>11, <1>12 DEF Working, Stands, Steady, KeepsPlan

\* A part of the network is in force, but not answered yet.
LEMMA SetPartWorks ==
  ASSUME Working, NEW p \in Agent!NetworkParts, Agent!SetPart(p)
  PROVE  Working'
<1>1. /\ At = "network" /\ Item = ap_omitted /\ p \in Left /\ Holds(ap_sys) /\ Begun /\ Stands
      /\ ap_before \in ap_systems /\ p \in Asked /\ ap_apply # Agent!Idle
  BY DEF Working, Agent!SetPart, Agent!Takes, At, Item, Left, Stands, LeftIsDue
<1>2. Moves("network", Left, p, {})
  BY <1>1, HandMoves DEF Agent!SetPart
<1>3. Steady
  BY <1>1, <1>2, SamePlan DEF Phases
<1>4. /\ At' = "network" /\ Left' = Left /\ Item' = p
      /\ ap_apply'.completed = ap_apply.completed
  BY <1>2 DEF Moves, Shifts, At, Left, Item
<1>5. Doc.network[p] = TheNetwork(p)
  <2>1. DOMAIN << >> = {}
    OBVIOUS
  <2> QED BY <1>1, <2>1 DEF Asked, TheNetwork, Agent!Section
<1>6. /\ Holds(ap_sys') /\ ap_sys'.resources = ap_sys.resources /\ ap_sys'.nodes = ap_sys.nodes
      /\ ap_sys'.settings.capacity = ap_sys.settings.capacity
      /\ ap_sys'.network[p] = TheNetwork(p) /\ ap_sys'.settings.network[p] = TheNetwork(p)
      /\ \A q \in Agent!NetworkParts \ {p} :
           /\ ap_sys'.network[q] = ap_sys.network[q]
           /\ ap_sys'.settings.network[q] = ap_sys.settings.network[q]
  <2>1. ap_sys' = Agent!InForce(p, TheNetwork(p))
    BY <1>5 DEF Agent!SetPart, Doc
  <2> QED BY <1>1, <2>1, SetNetwork
<1>7. Applied' = Applied \cup {p} /\ p \notin Applied
  BY <1>1, <1>3, <1>4, Apart DEF Applied, Steady, KeepsPlan
<1>8. SettingsStand'
  <2> SUFFICES ASSUME NEW q \in Agent!NetworkParts \ ap_touched
               PROVE  /\ ap_sys'.settings.network[q] = ap_sys'.network[q]
                      /\ ap_sys'.network[q] = IF q \in Applied' THEN TheNetwork(q)
                                              ELSE ap_before.network[q]
    BY <1>1, <1>3, <1>4, <1>6 DEF Stands, SettingsStand, Steady, KeepsPlan, TheNetwork
  <2>1. /\ ap_sys.settings.network[q] = ap_sys.network[q]
        /\ ap_sys.network[q] = IF q \in Applied THEN TheNetwork(q) ELSE ap_before.network[q]
    BY <1>1 DEF Stands, SettingsStand
  <2> QED BY <1>6, <1>7, <2>1
<1>9. Created = Missing /\ Created' = Missing /\ Pruned = {} /\ Pruned' = {}
      /\ PrunedNodes = {} /\ PrunedNodes' = {}
  BY <1>1, <1>3, <1>4 DEF Created, Pruned, PrunedNodes, Steady, KeepsPlan
<1>10. \A n : Waiting(n)' = Waiting(n) /\ Turning(n)' = Turning(n)
  BY <1>1, <1>4 DEF Waiting, Turning
<1>11. ResourcesStand'
  BY <1>1, <1>3, <1>6, <1>9, ResourcesKept DEF Stands
<1>12. NodesStand'
  BY <1>1, <1>3, <1>6, <1>9, <1>10, NodesKept DEF Stands
<1>13. CompletedIsDone'
  BY <1>1, <1>3, <1>4, <1>7, <1>9, <1>10, Apart
  DEF Stands, CompletedIsDone, Steady, KeepsPlan, Waiting
<1>14. LeftIsDue'
  BY <1>1, <1>3, <1>4 DEF LeftIsDue, Stands, Steady, KeepsPlan
<1> QED
  BY <1>1, <1>3, <1>6, <1>8, <1>11, <1>12, <1>13, <1>14
  DEF Working, Stands, Steady, KeepsPlan

\* The nodes come after the network.
LEMMA ApplyNodesWorks ==
  ASSUME Working, Agent!ApplyNodes
  PROVE  Working'
<1>1. /\ At = "network" /\ Left = {} /\ Holds(ap_sys) /\ Begun /\ Stands
      /\ ap_before \in ap_systems /\ ap_sys' = ap_sys
  BY DEF Working, Agent!ApplyNodes, At, Left
<1>2. Moves("nodes", Planned, Item, {})
  <2>1. DOMAIN ap_apply.plans = Planned
    BY <1>1 DEF Begun, Agent!Plans, Planned
  <2>2. Agent!Goes([ap_apply EXCEPT !.at = "nodes", !.todo = Planned], {})
    BY <2>1 DEF Agent!ApplyNodes
  <2> QED BY <1>1, <2>2, GoesMoves
<1>3. Steady
  BY <1>1, <1>2, SamePlan DEF Phases
<1>4. /\ At' = "nodes" /\ Left' = Planned /\ Item' = ap_omitted /\ Item = ap_omitted
      /\ ap_apply'.completed = ap_apply.completed
  BY <1>1, <1>2 DEF Moves, Shifts, At, Left, Item, Stands, LeftIsDue
<1>5. Created = Missing /\ Created' = Missing /\ Pruned = {} /\ Pruned' = {}
      /\ PrunedNodes = {} /\ PrunedNodes' = {}
  BY <1>1, <1>3, <1>4 DEF Created, Pruned, PrunedNodes, Steady, KeepsPlan
<1>6. Applied = Asked /\ Applied' = Asked
  BY <1>1, <1>3, <1>4 DEF Applied, Steady, KeepsPlan
<1>7. \A n \in Planned : Waiting(n)' = Waiting(n) /\ Turning(n)' = Turning(n)
  BY <1>1, <1>4, Apart DEF Waiting, Turning
<1>8. SettingsStand'
  BY <1>1, <1>3, <1>4, <1>6, SettingsKept DEF Stands
<1>9. ResourcesStand'
  BY <1>1, <1>3, <1>5, ResourcesKept DEF Stands
<1>10. NodesStand'
  BY <1>1, <1>3, <1>5, <1>7, NodesKept DEF Stands
<1>11. CompletedIsDone'
  BY <1>1, <1>3, <1>4, <1>5, <1>6, <1>7 DEF Stands, CompletedIsDone, Steady, KeepsPlan
<1>12. LeftIsDue'
  BY <1>3, <1>4 DEF LeftIsDue, Steady, KeepsPlan
<1> QED
  BY <1>1, <1>3, <1>8, <1>9, <1>10, <1>11, <1>12 DEF Working, Stands, Steady, KeepsPlan

\* A call succeeds: nothing changes but that its item is done.
LEMMA AnswersWorks ==
  ASSUME Working, Agent!Answers
  PROVE  Working'
<1>1. /\ At \in {"network", "nodes", "pruneNodes"} /\ Item \in Left /\ Item # ap_omitted
      /\ Holds(ap_sys) /\ Begun /\ Stands /\ ap_before \in ap_systems /\ ap_sys' = ap_sys
  BY DEF Working, Agent!Answers, At, Item, Left, Stands, LeftIsDue
<1>2. Moves(At, Left \ {Item}, ap_omitted, {Item})
  <2> DEFINE next == [ap_apply EXCEPT !.todo = @ \ {Item}, !.item = ap_omitted]
  <2>1. /\ DOMAIN next = Fields /\ next.at = At /\ next.todo = Left \ {Item}
        /\ next.item = ap_omitted
        /\ next.doc = ap_apply.doc /\ next.prune = ap_apply.prune
        /\ next.base = ap_apply.base /\ next.plans = ap_apply.plans
        /\ next.completed = ap_apply.completed
    BY <1>1 DEF Begun, Fields, Left, At
  <2> HIDE DEF next
  <2>2. ap_apply' = [next EXCEPT !.completed = @ \cup {Item}]
        /\ UNCHANGED <<ap_reply, ap_before, ap_touched>>
    BY DEF Agent!Answers, Agent!Goes, next, Item
  <2> QED BY <2>1, <2>2 DEF Moves, Shifts, Fields, Doc
<1>3. Steady
  BY <1>1, <1>2, SamePlan DEF Phases
<1>4. /\ At' = At /\ Left' = Left \ {Item} /\ Item' = ap_omitted
      /\ ap_apply'.completed = ap_apply.completed \cup {Item}
  BY <1>2 DEF Moves, Shifts, At, Left, Item
<1>5. \/ At = "network" /\ Item \in Asked
      \/ At = "nodes" /\ Item \in Planned
      \/ At = "pruneNodes" /\ Item \in ap_nodes \ Planned
  BY <1>1 DEF Stands, LeftIsDue
<1>6. Created = Missing /\ Created' = Missing /\ Pruned = {} /\ Pruned' = {}
  BY <1>1, <1>3, <1>4 DEF Created, Pruned, Steady, KeepsPlan
<1>7. PrunedNodes' = PrunedNodes
  <2>1. SpareNodes \subseteq ap_nodes
    BY <1>1, BeforeHolds DEF SpareNodes, Holds
  <2>2. ap_omitted \notin SpareNodes
    BY <1>1, <2>1, Apart
  <2> QED BY <1>1, <1>3, <1>4, <2>2 DEF PrunedNodes, Steady, KeepsPlan
<1>8. Applied' = Applied
  BY <1>1, <1>3, <1>4, Apart DEF Applied, Steady, KeepsPlan
<1>9. \A n \in Planned : Waiting(n)' = Waiting(n) /\ Turning(n)' = Turning(n)
  BY <1>1, <1>4, Apart DEF Waiting, Turning
<1>10. SettingsStand'
  BY <1>1, <1>3, <1>4, <1>8, SettingsKept DEF Stands
<1>11. ResourcesStand'
  BY <1>1, <1>3, <1>6, ResourcesKept DEF Stands
<1>12. NodesStand'
  BY <1>1, <1>3, <1>7, <1>9, NodesKept DEF Stands
<1>13. CompletedIsDone'
  <2>1. "settings" \in ap_apply'.completed <=> "settings" \in ap_apply.completed
    BY <1>1, <1>4, <1>5, Apart
  <2>2. ASSUME NEW p \in Agent!NetworkParts
        PROVE  p \in ap_apply'.completed <=> p \in Applied
    <3>1. p \in ap_apply.completed <=> p \in Applied /\ p # Item
      BY <1>1 DEF Stands, CompletedIsDone
    <3>2. p = Item => p \in Applied
      BY <1>1, <1>5, Apart DEF Applied
    <3> QED BY <1>4, <3>1, <3>2
  <2>3. \A r \in Agent!Names : r \in ap_apply'.completed <=> r \in ap_apply.completed
    BY <1>1, <1>4, <1>5, Apart
  <2>4. ASSUME NEW n \in Planned
        PROVE  n \in ap_apply'.completed <=> ~Waiting(n)
    <3>1. n \in ap_apply.completed <=> ~Waiting(n) /\ n # Item
      BY <1>1 DEF Stands, CompletedIsDone
    <3>2. n = Item => ~Waiting(n)
      BY <1>1, <1>5, Apart DEF Waiting
    <3> QED BY <1>4, <3>1, <3>2
  <2>5. PrunedNodes \ ap_touched \subseteq ap_apply'.completed
    BY <1>1, <1>4 DEF Stands, CompletedIsDone
  <2>6. ap_omitted \notin Agent!NetworkParts \cup Planned
    BY <1>1, Apart
  <2> QED
    BY <1>1, <1>3, <1>4, <1>6, <1>7, <1>8, <1>9, <2>1, <2>2, <2>3, <2>4, <2>5, <2>6
    DEF Stands, CompletedIsDone, Steady, KeepsPlan
<1>14. LeftIsDue'
  BY <1>1, <1>3, <1>4 DEF LeftIsDue, Stands, Steady, KeepsPlan
<1> QED
  BY <1>1, <1>3, <1>10, <1>11, <1>12, <1>13, <1>14 DEF Working, Stands, Steady, KeepsPlan

\* The node whose turn it is has the plan's configuration, and is turned to its status next unless
\* it has it; no other node changes.
LEMMA NodeSet ==
  ASSUME Working, At = "nodes", Item = ap_omitted, NEW n \in Left, NEW at \in {"nodes", "status"},
         \/ Moves(at, Left, n, {})
         \/ at = "nodes" /\ Moves("nodes", Left \ {n}, ap_omitted, {n}),
         Holds(ap_sys'), ap_sys'.settings = ap_sys.settings, ap_sys'.network = ap_sys.network,
         ap_sys'.resources = ap_sys.resources,
         \A m \in ap_nodes \ {n} : /\ m \in DOMAIN ap_sys'.nodes <=> m \in DOMAIN ap_sys.nodes
                                   /\ m \in DOMAIN ap_sys.nodes =>
                                        ap_sys'.nodes[m] = ap_sys.nodes[m],
         n \notin ap_touched => /\ n \in DOMAIN ap_sys'.nodes
                                /\ ap_sys'.nodes[n].config = ap_apply.plans[n].config
                                /\ at = "nodes" =>
                                     ap_sys'.nodes[n].status = ap_apply.plans[n].status
  PROVE  Working'
<1>1. Begun /\ Stands /\ ap_before \in ap_systems /\ n \in Planned /\ n \in ap_nodes
  BY Apart DEF Working, Stands, LeftIsDue
<1>2. Steady
  BY <1>1, SamePlan DEF Phases
<1>3. /\ At' = at
      /\ \/ /\ Left' = Left /\ Item' = n
            /\ ap_apply'.completed = ap_apply.completed
         \/ /\ at = "nodes" /\ Left' = Left \ {n} /\ Item' = ap_omitted
            /\ ap_apply'.completed = ap_apply.completed \cup {n}
  BY DEF Moves, Shifts, At, Left, Item
<1>4. /\ \A m \in Planned : Waiting(m)' <=> Waiting(m) /\ m # n
      /\ \A m : ~Turning(m) /\ (Turning(m)' => m = n /\ at = "status")
      /\ Waiting(n) /\ ~Waiting(n)'
  BY <1>1, <1>3, Apart DEF Waiting, Turning
<1>5. Created = Missing /\ Created' = Missing /\ Pruned = {} /\ Pruned' = {}
      /\ PrunedNodes = {} /\ PrunedNodes' = {} /\ Applied = Asked /\ Applied' = Asked
  BY <1>2, <1>3 DEF Created, Pruned, PrunedNodes, Applied, Steady, KeepsPlan
<1>6. SettingsStand'
  BY <1>1, <1>2, <1>3, <1>5, SettingsKept DEF Stands
<1>7. ResourcesStand'
  BY <1>1, <1>2, <1>5, ResourcesKept DEF Stands
<1>8. NodesStand'
  <2> SUFFICES ASSUME NEW m \in ap_nodes \ ap_touched
               PROVE  IF m \in Planned /\ ~Waiting(m)'
                      THEN /\ m \in DOMAIN ap_sys'.nodes
                           /\ ap_sys'.nodes[m].config = ap_apply.plans[m].config
                           /\ Turning(m)' \/ ap_sys'.nodes[m].status = ap_apply.plans[m].status
                      ELSE /\ m \in DOMAIN ap_sys'.nodes <=> m \in DOMAIN ap_before.nodes
                           /\ m \in DOMAIN ap_sys'.nodes => ap_sys'.nodes[m] = ap_before.nodes[m]
    BY <1>2, <1>5 DEF Steady, KeepsPlan, NodesStand
  <2>1. CASE m = n
    <3>1. at = "status" => Turning(n)'
      BY <1>3 DEF Turning
    <3> QED BY <1>1, <1>4, <2>1, <3>1
  <2>2. CASE m # n
    <3>1. IF m \in Planned /\ ~Waiting(m)
          THEN /\ m \in DOMAIN ap_sys.nodes
               /\ ap_sys.nodes[m].config = ap_apply.plans[m].config
               /\ ap_sys.nodes[m].status = ap_apply.plans[m].status
          ELSE /\ m \in DOMAIN ap_sys.nodes <=> m \in DOMAIN ap_before.nodes
               /\ m \in DOMAIN ap_sys.nodes => ap_sys.nodes[m] = ap_before.nodes[m]
      BY <1>1, <1>4, <1>5 DEF Stands, NodesStand
    <3>2. /\ m \in DOMAIN ap_sys'.nodes <=> m \in DOMAIN ap_sys.nodes
          /\ m \in DOMAIN ap_sys.nodes => ap_sys'.nodes[m] = ap_sys.nodes[m]
      BY <2>2
    <3>3. m \in Planned => (Waiting(m)' <=> Waiting(m))
      BY <1>4, <2>2
    <3> QED BY <3>1, <3>2, <3>3
  <2> QED BY <2>1, <2>2
<1>9. CompletedIsDone'
  <2>1. /\ \A x : x # n => (x \in ap_apply'.completed <=> x \in ap_apply.completed)
        /\ n \notin Agent!Names /\ n \notin Agent!NetworkParts /\ n # "settings"
        /\ ap_omitted \notin Agent!NetworkParts \cup Planned
    BY <1>1, <1>3, Apart
  <2>2. \A m \in Planned : m \in ap_apply'.completed <=> ~Waiting(m)' /\ m # Item'
    <3> SUFFICES ASSUME NEW m \in Planned
                 PROVE  m \in ap_apply'.completed <=> ~Waiting(m)' /\ m # Item'
      OBVIOUS
    <3>1. m \in ap_apply.completed <=> ~Waiting(m)
      BY <1>1, <2>1 DEF Stands, CompletedIsDone
    <3> QED BY <1>3, <1>4, <2>1, <3>1
  <2>3. \A p \in Agent!NetworkParts : p # Item /\ p # Item'
    BY <1>3, <2>1
  <2> QED
    BY <1>1, <1>2, <1>3, <1>5, <2>1, <2>2, <2>3 DEF Stands, CompletedIsDone, Steady, KeepsPlan
<1>10. LeftIsDue'
  BY <1>1, <1>2, <1>3 DEF LeftIsDue, Steady, KeepsPlan, Stands
<1> QED BY <1>1, <1>2, <1>6, <1>7, <1>8, <1>9, <1>10 DEF Working, Stands, Steady, KeepsPlan

\* A new node.
LEMMA CreateNodeWorks ==
  ASSUME Working, NEW n \in ap_nodes, Agent!CreateNode(n)
  PROVE  Working'
<1>1. /\ At = "nodes" /\ Item = ap_omitted /\ n \in Left /\ Begun /\ Stands /\ Holds(ap_sys)
      /\ ap_before \in ap_systems /\ n \in Planned
  BY DEF Working, Agent!CreateNode, Agent!Takes, At, Item, Left, Stands, LeftIsDue
<1> DEFINE config == ap_apply.plans[n].config
           item == [config |-> config, status |-> "running"]
<1>2. DOMAIN config = {"uses", "creds", "rest"}
  BY <1>1, BeforeHolds, PlanOfNode DEF Begun, Planned, Holds
<1>3. /\ DOMAIN ap_sys' = DOMAIN ap_sys /\ ap_sys'.settings = ap_sys.settings
      /\ ap_sys'.network = ap_sys.network /\ ap_sys'.resources = ap_sys.resources
      /\ ap_sys'.nodes = Agent!Put(ap_sys.nodes, n, item)
  BY <1>1 DEF Agent!CreateNode, Holds
<1>4. /\ DOMAIN item = {"config", "status"}
      /\ item.config = config /\ item.status = "running"
  OBVIOUS
<1> HIDE DEF config, item
<1>5. /\ Holds(ap_sys') /\ DOMAIN ap_sys'.nodes = DOMAIN ap_sys.nodes \cup {n}
      /\ ap_sys'.nodes[n] = item
      /\ \A m \in DOMAIN ap_sys.nodes : m # n => ap_sys'.nodes[m] = ap_sys.nodes[m]
  BY <1>1, <1>2, <1>3, <1>4, PutNode
<1> DEFINE at == Agent!AfterStatus(n, "running")
<1>6. /\ at \in {"nodes", "status"}
      /\ at = "nodes" => ap_apply.plans[n].status = "running"
  BY DEF Agent!AfterStatus
<1>7. Moves(at, Left, n, {})
  BY <1>1, HandMoves DEF Agent!CreateNode
<1> HIDE DEF at
<1> QED BY <1>1, <1>3, <1>4, <1>5, <1>6, <1>7, NodeSet DEF config

\* An existing node is updated.
LEMMA UpdateNodeWorks ==
  ASSUME Working, NEW n \in ap_nodes, Agent!UpdateNode(n)
  PROVE  Working'
<1>1. /\ At = "nodes" /\ Item = ap_omitted /\ n \in Left /\ Begun /\ Stands /\ Holds(ap_sys)
      /\ ap_before \in ap_systems /\ n \in Planned /\ n \in DOMAIN ap_sys.nodes
  BY DEF Working, Agent!UpdateNode, Agent!Takes, At, Item, Left, Stands, LeftIsDue
<1> DEFINE config == ap_apply.plans[n].config
           item == [ap_sys.nodes[n] EXCEPT !.config = config]
           at == Agent!AfterStatus(n, ap_sys.nodes[n].status)
<1>2. DOMAIN config = {"uses", "creds", "rest"}
  BY <1>1, BeforeHolds, PlanOfNode DEF Begun, Planned, Holds
<1>3. /\ DOMAIN ap_sys' = DOMAIN ap_sys /\ ap_sys'.settings = ap_sys.settings
      /\ ap_sys'.network = ap_sys.network /\ ap_sys'.resources = ap_sys.resources
      /\ ap_sys'.nodes = [ap_sys.nodes EXCEPT ![n] = item]
  BY <1>1 DEF Agent!UpdateNode, Holds
<1>4. /\ DOMAIN item = {"config", "status"} /\ item.config = config
      /\ item.status = ap_sys.nodes[n].status
  BY <1>1 DEF Holds
<1>5. /\ at \in {"nodes", "status"}
      /\ at = "nodes" => ap_apply.plans[n].status = ap_sys.nodes[n].status
  BY DEF Agent!AfterStatus
<1>6. Moves(at, Left, n, {})
  BY <1>1, HandMoves DEF Agent!UpdateNode
<1> HIDE DEF at, item, config
<1>7. /\ Holds(ap_sys') /\ DOMAIN ap_sys'.nodes = DOMAIN ap_sys.nodes
      /\ ap_sys'.nodes[n] = item
      /\ \A x \in DOMAIN ap_sys.nodes : x # n => ap_sys'.nodes[x] = ap_sys.nodes[x]
  BY <1>1, <1>2, <1>3, <1>4, SetNode
<1> QED BY <1>1, <1>3, <1>4, <1>5, <1>6, <1>7, NodeSet DEF config

\* One that the plan leaves as it was: it still is so unless somebody touched it.
LEMMA LeaveNodeWorks ==
  ASSUME Working, NEW n \in ap_nodes, Agent!LeaveNode(n)
  PROVE  Working'
<1>1. /\ At = "nodes" /\ Item = ap_omitted /\ n \in Left /\ Begun /\ Stands /\ Holds(ap_sys)
      /\ ap_before \in ap_systems /\ n \in Planned /\ Waiting(n) /\ ap_sys' = ap_sys
  BY Apart DEF Working, Agent!LeaveNode, Agent!Takes, At, Item, Left, Stands, LeftIsDue, Waiting
<1> DEFINE plan == ap_apply.plans[n]
<1>2. plan.existing = IF n \in DOMAIN ap_before.nodes THEN ap_before.nodes[n] ELSE ap_omitted
  BY <1>1, BeforeHolds, PlanOfNode DEF Begun, Planned, Holds
<1>3. n \in DOMAIN ap_before.nodes /\ ap_before.nodes[n].config = plan.config
      /\ ap_before.nodes[n].status = plan.existing.status
  BY <1>2 DEF Agent!LeaveNode, Agent!Changes
<1>4. n \notin ap_touched => n \in DOMAIN ap_sys.nodes /\ ap_sys.nodes[n] = ap_before.nodes[n]
  <2>1. PrunedNodes = {}
    BY <1>1 DEF PrunedNodes
  <2> QED BY <1>1, <1>3, <2>1 DEF Stands, NodesStand
<1>5. CASE plan.existing.status = plan.status
  <2>1. Moves("nodes", Left \ {n}, ap_omitted, {n})
    <3>1. Agent!Goes([ap_apply EXCEPT !.todo = Left \ {n}], {n})
      BY <1>5 DEF Agent!LeaveNode, Left
    <3> QED BY <1>1, <3>1, GoesLeft
  <2> QED BY <1>1, <1>3, <1>4, <1>5, <2>1, NodeSet
<1>6. CASE plan.existing.status # plan.status
  <2>1. Moves("status", Left, n, {})
    BY <1>1, <1>6, HandMoves DEF Agent!LeaveNode
  <2> QED BY <1>1, <1>3, <1>4, <2>1, NodeSet
<1> QED BY <1>5, <1>6

\* A node whose update was lost is touched from then on.
LEMMA UpdateLostWorks ==
  ASSUME Working, NEW n \in ap_nodes, Agent!UpdateLost(n)
  PROVE  Working'
<1> DEFINE config == ap_apply.plans[n].config
           item == [ap_sys.nodes[n] EXCEPT !.config = config]
<1>0. /\ At = "nodes" /\ Item = ap_omitted /\ n \in Left /\ Begun /\ Stands /\ Holds(ap_sys)
      /\ ap_before \in ap_systems /\ n \in Planned /\ n \in DOMAIN ap_sys.nodes
      /\ ap_touched' = ap_touched \cup {n}
  BY DEF Working, Agent!UpdateLost, Agent!Takes, At, Item, Left, Stands, LeftIsDue
<1>1. /\ ap_sys'.settings = ap_sys.settings /\ ap_sys'.network = ap_sys.network
      /\ ap_sys'.resources = ap_sys.resources /\ Holds(ap_sys')
      /\ DOMAIN ap_sys'.nodes = DOMAIN ap_sys.nodes
      /\ \A x \in DOMAIN ap_sys.nodes : x # n => ap_sys'.nodes[x] = ap_sys.nodes[x]
  <2>1. CASE ap_sys' = ap_sys
    BY <1>0, <2>1
  <2>2. CASE ap_sys' # ap_sys
    <3>1. /\ DOMAIN ap_sys' = DOMAIN ap_sys /\ ap_sys'.settings = ap_sys.settings
          /\ ap_sys'.network = ap_sys.network /\ ap_sys'.resources = ap_sys.resources
          /\ ap_sys'.nodes = [ap_sys.nodes EXCEPT ![n] = item]
      BY <1>0, <2>2 DEF Agent!UpdateLost, Holds
    <3>2. DOMAIN config = {"uses", "creds", "rest"}
      BY <1>0, BeforeHolds, PlanOfNode DEF Begun, Planned, Holds
    <3>3. DOMAIN item = {"config", "status"} /\ item.config = config
      BY <1>0 DEF Holds
    <3> HIDE DEF item, config
    <3> QED BY <1>0, <3>1, <3>2, <3>3, SetNode
  <2> QED BY <2>1, <2>2
<1>2. Shifts("status", Left, n, {})
  <2>1. /\ ap_apply' = [ap_apply EXCEPT !.at = "status", !.item = n]
        /\ UNCHANGED <<ap_reply, ap_before>>
    BY DEF Agent!UpdateLost
  <2>2. DOMAIN ap_apply = Fields
    BY <1>0 DEF Begun
  <2> QED BY <2>1, <2>2 DEF Shifts, Fields, Doc, Left
<1>3. KeepsPlan
  BY <1>0, <1>2, SameDocument DEF Phases
<1>4. /\ At' = "status" /\ Left' = Left /\ Item' = n
      /\ ap_apply'.completed = ap_apply.completed
  BY <1>2 DEF Shifts, At, Left, Item
<1>5. Created = Missing /\ Created' = Missing /\ Pruned = {} /\ Pruned' = {}
      /\ PrunedNodes = {} /\ PrunedNodes' = {} /\ Applied = Asked /\ Applied' = Asked
  BY <1>0, <1>3, <1>4 DEF Created, Pruned, PrunedNodes, Applied, KeepsPlan
<1>6. /\ \A m \in Planned : Waiting(m)' <=> Waiting(m) /\ m # n
      /\ \A m : ~Turning(m) /\ (Turning(m)' => m = n)
      /\ Waiting(n)
  BY <1>0, <1>4, Apart DEF Waiting, Turning
<1>7. SettingsStand'
  BY <1>0, <1>1, <1>3, <1>4, <1>5 DEF Stands, SettingsStand, KeepsPlan, TheNetwork
<1>8. ResourcesStand'
  BY <1>0, <1>1, <1>3, <1>5 DEF Stands, ResourcesStand, KeepsPlan
<1>9. NodesStand'
  <2> SUFFICES ASSUME NEW m \in ap_nodes \ ap_touched, m # n
               PROVE  IF m \in Planned /\ ~Waiting(m)
                      THEN /\ m \in DOMAIN ap_sys.nodes
                           /\ ap_sys.nodes[m].config = ap_apply.plans[m].config
                           /\ ap_sys.nodes[m].status = ap_apply.plans[m].status
                      ELSE /\ m \in DOMAIN ap_sys.nodes <=> m \in DOMAIN ap_before.nodes
                           /\ m \in DOMAIN ap_sys.nodes => ap_sys.nodes[m] = ap_before.nodes[m]
    BY <1>0, <1>1, <1>3, <1>5, <1>6 DEF KeepsPlan, NodesStand
  <2> QED BY <1>0, <1>1, <1>5, <1>6 DEF Stands, NodesStand
<1>10. CompletedIsDone'
  <2>1. /\ n \notin Agent!NetworkParts /\ ap_omitted \notin Agent!NetworkParts \cup Planned
    BY <1>0, <1>1, Apart
  <2>2. \A m \in Planned : m \in ap_apply'.completed <=> ~Waiting(m)' /\ m # Item'
    BY <1>0, <1>1, <1>4, <1>6, <2>1 DEF Stands, CompletedIsDone
  <2> QED BY <1>0, <1>1, <1>3, <1>4, <1>5, <2>1, <2>2 DEF Stands, CompletedIsDone, KeepsPlan
<1>11. LeftIsDue'
  BY <1>0, <1>1, <1>3, <1>4 DEF LeftIsDue, Stands, KeepsPlan
<1> QED BY <1>0, <1>1, <1>3, <1>7, <1>8, <1>9, <1>10, <1>11 DEF Working, Stands, KeepsPlan

\* A node is started or stopped.
LEMMA TurnNodeWorks ==
  ASSUME Working, Agent!TurnNode
  PROVE  Working'
<1> DEFINE n == Item
<1>1. /\ At = "status" /\ n \in Left /\ Begun /\ Stands /\ Holds(ap_sys)
      /\ ap_before \in ap_systems /\ n \in Planned /\ n \in DOMAIN ap_sys.nodes
  BY DEF Working, Agent!TurnNode, At, Left, Item, Stands, LeftIsDue
<1>2. Moves("nodes", Left, n, {})
  BY <1>1, HandMoves DEF Agent!TurnNode, Item
<1>3. Steady
  BY <1>1, <1>2, SamePlan DEF Phases
<1>4. At' = "nodes" /\ Left' = Left /\ Item' = n /\ ap_apply'.completed = ap_apply.completed
  BY <1>2 DEF Moves, Shifts, At, Left, Item
<1> DEFINE item == [ap_sys.nodes[n] EXCEPT !.status = ap_apply.plans[n].status]
<1>5. /\ DOMAIN ap_sys' = DOMAIN ap_sys /\ ap_sys'.settings = ap_sys.settings
      /\ ap_sys'.network = ap_sys.network /\ ap_sys'.resources = ap_sys.resources
      /\ ap_sys'.nodes = [ap_sys.nodes EXCEPT ![n] = item]
  BY <1>1 DEF Holds, Agent!TurnNode, Item
<1>6. /\ DOMAIN item = {"config", "status"} /\ item.config = ap_sys.nodes[n].config
      /\ item.status = ap_apply.plans[n].status
  BY <1>1 DEF Holds
<1>7. DOMAIN ap_sys.nodes[n].config = {"uses", "creds", "rest"}
  BY <1>1 DEF Holds
<1>8. Turning(n) /\ \A m : (Turning(m) <=> m = n) /\ ~Turning(m)'
  BY <1>1, <1>4 DEF Turning
<1>9. \A m : Waiting(m)' <=> Waiting(m)
  BY <1>1, <1>4 DEF Waiting
<1>10. ~Waiting(n)
  BY <1>1 DEF Waiting
<1> HIDE DEF item, n
<1>11. /\ Holds(ap_sys') /\ DOMAIN ap_sys'.nodes = DOMAIN ap_sys.nodes
       /\ ap_sys'.nodes[n] = item
       /\ \A x \in DOMAIN ap_sys.nodes : x # n => ap_sys'.nodes[x] = ap_sys.nodes[x]
  BY <1>1, <1>5, <1>6, <1>7, SetNode
<1>12. Created = Missing /\ Created' = Missing /\ Pruned = {} /\ Pruned' = {}
       /\ PrunedNodes = {} /\ PrunedNodes' = {} /\ Applied = Asked /\ Applied' = Asked
  BY <1>1, <1>3, <1>4 DEF Created, Pruned, PrunedNodes, Applied, Steady, KeepsPlan
<1>13. SettingsStand'
  BY <1>1, <1>3, <1>4, <1>5, <1>12, SettingsKept DEF Stands
<1>14. ResourcesStand'
  BY <1>1, <1>3, <1>5, <1>12, ResourcesKept DEF Stands
<1>15. NodesStand'
  <2> SUFFICES ASSUME NEW m \in ap_nodes \ ap_touched
               PROVE  IF m \in Planned /\ ~Waiting(m)
                      THEN /\ m \in DOMAIN ap_sys'.nodes
                           /\ ap_sys'.nodes[m].config = ap_apply.plans[m].config
                           /\ ap_sys'.nodes[m].status = ap_apply.plans[m].status
                      ELSE /\ m \in DOMAIN ap_sys'.nodes <=> m \in DOMAIN ap_before.nodes
                           /\ m \in DOMAIN ap_sys'.nodes => ap_sys'.nodes[m] = ap_before.nodes[m]
    BY <1>3, <1>9, <1>12 DEF Steady, KeepsPlan, NodesStand
  <2>1. IF m \in Planned /\ ~Waiting(m)
        THEN /\ m \in DOMAIN ap_sys.nodes
             /\ ap_sys.nodes[m].config = ap_apply.plans[m].config
             /\ m = n \/ ap_sys.nodes[m].status = ap_apply.plans[m].status
        ELSE /\ m \in DOMAIN ap_sys.nodes <=> m \in DOMAIN ap_before.nodes
             /\ m \in DOMAIN ap_sys.nodes => ap_sys.nodes[m] = ap_before.nodes[m]
    BY <1>1, <1>8, <1>12 DEF Stands, NodesStand
  <2>2. CASE m = n
    BY <1>1, <1>6, <1>10, <1>11, <2>1, <2>2
  <2>3. CASE m # n
    BY <1>11, <2>1, <2>3
  <2> QED BY <2>2, <2>3
<1>16. CompletedIsDone'
  <2>1. Item = n /\ \A m \in Planned : m \in ap_apply.completed <=> ~Waiting(m) /\ m # n
    BY <1>1 DEF Stands, CompletedIsDone, n
  <2> QED BY <1>1, <1>3, <1>4, <1>9, <1>12, <2>1 DEF Stands, CompletedIsDone, Steady, KeepsPlan
<1>17. LeftIsDue'
  BY <1>1, <1>3, <1>4 DEF LeftIsDue, Steady, KeepsPlan, Stands
<1> QED BY <1>1, <1>3, <1>11, <1>13, <1>14, <1>15, <1>16, <1>17 DEF Working, Stands, Steady, KeepsPlan

\* The nodes to prune are those there are now: of the snapshot's only touched ones are missing.
LEMMA PruneNodesWorks ==
  ASSUME Working, Agent!PruneNodes
  PROVE  Working'
<1> DEFINE extra == IF ap_apply.prune /\ Doc.nodes # ap_omitted
                    THEN DOMAIN ap_sys.nodes \ DOMAIN Doc.nodes ELSE {}
<1>1. /\ At = "nodes" /\ Left = {} /\ Begun /\ Stands /\ Holds(ap_sys)
      /\ ap_before \in ap_systems /\ ap_sys' = ap_sys
  BY DEF Working, Agent!PruneNodes, At, Left
<1>2. Moves("pruneNodes", extra, Item, {})
  <2>1. Agent!Goes([ap_apply EXCEPT !.at = "pruneNodes", !.todo = extra], {})
    BY DEF Agent!PruneNodes, Doc
  <2> QED BY <1>1, <2>1, GoesMoves
<1>3. Steady
  BY <1>1, <1>2, SamePlan DEF Phases
<1>4. /\ At' = "pruneNodes" /\ Left' = extra /\ Item' = ap_omitted /\ Item = ap_omitted
      /\ ap_apply'.completed = ap_apply.completed
  BY <1>1, <1>2 DEF Moves, Shifts, At, Left, Item, Stands, LeftIsDue
<1>5. Doc.nodes # ap_omitted => DOMAIN Doc.nodes = Planned
  BY DEF Planned, Agent!Section
<1>6. extra \subseteq ap_nodes \ Planned
      /\ (extra # {} => ap_apply.prune /\ Doc.nodes # ap_omitted)
  BY <1>1, <1>5 DEF Holds
<1>7. \A n : ~Turning(n) /\ ~Turning(n)' /\ ~Waiting(n) /\ ~Waiting(n)'
  BY <1>1, <1>4 DEF Turning, Waiting
<1>8. Created = Missing /\ Created' = Missing /\ Pruned = {} /\ Pruned' = {}
      /\ PrunedNodes = {} /\ PrunedNodes' = SpareNodes \ extra
      /\ Applied = Asked /\ Applied' = Asked
  <2>1. ap_omitted \notin SpareNodes
    BY <1>1, BeforeHolds, Apart DEF SpareNodes, Holds
  <2> HIDE DEF extra
  <2> QED
    BY <1>1, <1>3, <1>4, <2>1 DEF Created, Pruned, PrunedNodes, Applied, Steady, KeepsPlan
<1>9. \A n \in ap_nodes \ ap_touched : n \notin SpareNodes \ extra
  <2> SUFFICES ASSUME NEW n \in ap_nodes \ ap_touched, n \in SpareNodes
               PROVE  n \in extra
    OBVIOUS
  <2>1. /\ ap_apply.prune /\ Doc.nodes # ap_omitted
        /\ n \in DOMAIN ap_before.nodes /\ n \notin Planned
    BY DEF SpareNodes
  <2>2. n \in DOMAIN ap_sys.nodes
    BY <1>1, <1>8, <2>1 DEF Stands, NodesStand
  <2> QED BY <1>5, <2>1, <2>2
<1> HIDE DEF extra
<1>10. SettingsStand'
  BY <1>1, <1>3, <1>4, <1>8, SettingsKept DEF Stands
<1>11. ResourcesStand'
  BY <1>1, <1>3, <1>8, ResourcesKept DEF Stands
<1>12. NodesStand'
  BY <1>1, <1>3, <1>7, <1>8, <1>9 DEF Stands, NodesStand, Steady, KeepsPlan
<1>13. CompletedIsDone'
  <2>1. PrunedNodes' \ ap_touched = {}
    BY <1>1, <1>8, <1>9, BeforeHolds DEF SpareNodes, Holds
  <2> QED
    BY <1>1, <1>3, <1>4, <1>7, <1>8, <2>1, Apart DEF Stands, CompletedIsDone, Steady, KeepsPlan
<1>14. LeftIsDue'
  BY <1>3, <1>4, <1>6 DEF LeftIsDue, Steady, KeepsPlan
<1> QED BY <1>1, <1>3, <1>10, <1>11, <1>12, <1>13, <1>14 DEF Working, Stands, Steady, KeepsPlan

\* A node is pruned, but not answered yet.
LEMMA PruneNodeWorks ==
  ASSUME Working, NEW n \in ap_nodes, Agent!PruneNode(n)
  PROVE  Working'
<1>1. /\ At = "pruneNodes" /\ Item = ap_omitted /\ n \in Left /\ Begun /\ Stands /\ Holds(ap_sys)
      /\ ap_before \in ap_systems /\ n \in DOMAIN ap_sys.nodes
      /\ n \notin Planned /\ ap_apply.prune /\ Doc.nodes # ap_omitted
  BY DEF Working, Agent!PruneNode, Agent!Takes, At, Item, Left, Stands, LeftIsDue
<1>2. Moves("pruneNodes", Left, n, {})
  BY <1>1, HandMoves DEF Agent!PruneNode
<1>3. Steady
  BY <1>1, <1>2, SamePlan DEF Phases
<1>4. /\ At' = "pruneNodes" /\ Left' = Left /\ Item' = n
      /\ ap_apply'.completed = ap_apply.completed
  BY <1>2 DEF Moves, Shifts, At, Left, Item
<1>5. /\ DOMAIN ap_sys' = DOMAIN ap_sys /\ ap_sys'.settings = ap_sys.settings
      /\ ap_sys'.network = ap_sys.network /\ ap_sys'.resources = ap_sys.resources
      /\ ap_sys'.nodes = Agent!Drop(ap_sys.nodes, {n})
  BY <1>1 DEF Agent!PruneNode, Holds
<1>6. /\ Holds(ap_sys') /\ DOMAIN ap_sys'.nodes = DOMAIN ap_sys.nodes \ {n}
      /\ \A m \in DOMAIN ap_sys'.nodes : ap_sys'.nodes[m] = ap_sys.nodes[m]
  <2>1. Holds(ap_sys)
    BY <1>1
  <2>2. /\ DOMAIN ap_sys'.nodes = DOMAIN ap_sys.nodes \ {n}
        /\ \A m \in DOMAIN ap_sys'.nodes : ap_sys'.nodes[m] = ap_sys.nodes[m]
    BY <1>5 DEF Agent!Drop
  <2> QED BY <1>5, <2>1, <2>2 DEF Holds
<1>7. \A m : ~Turning(m) /\ ~Turning(m)' /\ ~Waiting(m) /\ ~Waiting(m)'
  BY <1>1, <1>4 DEF Turning, Waiting
<1>8. Created = Missing /\ Created' = Missing /\ Pruned = {} /\ Pruned' = {}
      /\ PrunedNodes = SpareNodes \ Left /\ PrunedNodes' = SpareNodes \ (Left \ {n})
      /\ Applied = Asked /\ Applied' = Asked
  <2>1. ap_omitted \notin SpareNodes
    BY <1>1, BeforeHolds, Apart DEF SpareNodes, Holds
  <2> QED
    BY <1>1, <1>3, <1>4, <2>1 DEF Created, Pruned, PrunedNodes, Applied, Steady, KeepsPlan
<1>9. SettingsStand'
  BY <1>1, <1>3, <1>4, <1>5, <1>8, SettingsKept DEF Stands
<1>10. ResourcesStand'
  BY <1>1, <1>3, <1>5, <1>8, ResourcesKept DEF Stands
<1>11. NodesStand'
  <2> SUFFICES ASSUME NEW m \in ap_nodes \ ap_touched
               PROVE  IF m \in Planned
                      THEN /\ m \in DOMAIN ap_sys'.nodes
                           /\ ap_sys'.nodes[m].config = ap_apply.plans[m].config
                           /\ ap_sys'.nodes[m].status = ap_apply.plans[m].status
                      ELSE /\ m \in DOMAIN ap_sys'.nodes <=>
                                m \in DOMAIN ap_before.nodes \ PrunedNodes'
                           /\ m \in DOMAIN ap_sys'.nodes => ap_sys'.nodes[m] = ap_before.nodes[m]
    BY <1>3, <1>7 DEF Steady, KeepsPlan, NodesStand
  <2>1. IF m \in Planned
        THEN /\ m \in DOMAIN ap_sys.nodes
             /\ ap_sys.nodes[m].config = ap_apply.plans[m].config
             /\ ap_sys.nodes[m].status = ap_apply.plans[m].status
        ELSE /\ m \in DOMAIN ap_sys.nodes <=> m \in DOMAIN ap_before.nodes \ PrunedNodes
             /\ m \in DOMAIN ap_sys.nodes => ap_sys.nodes[m] = ap_before.nodes[m]
    BY <1>1, <1>7 DEF Stands, NodesStand
  <2>2. CASE m = n
    <3>1. n \in SpareNodes
      BY <1>1, <2>1, <2>2 DEF SpareNodes
    <3> QED BY <1>1, <1>6, <1>8, <2>1, <2>2, <3>1
  <2>3. CASE m # n
    BY <1>6, <1>8, <2>1, <2>3
  <2> QED BY <2>2, <2>3
<1>12. CompletedIsDone'
  <2>1. /\ n \notin Agent!NetworkParts /\ ap_omitted \notin Agent!NetworkParts \cup Planned
    BY <1>1, Apart
  <2>2. ap_omitted \notin SpareNodes
    BY <1>1, BeforeHolds, Apart DEF SpareNodes, Holds
  <2>3. PrunedNodes \ ap_touched \subseteq ap_apply.completed
    BY <1>1, <1>8, <2>2 DEF Stands, CompletedIsDone
  <2>4. (PrunedNodes' \ ap_touched) \ {n} \subseteq ap_apply.completed
    BY <1>8, <2>3
  <2> QED
    BY <1>1, <1>3, <1>4, <1>7, <1>8, <2>1, <2>4 DEF Stands, CompletedIsDone, Steady, KeepsPlan
<1>13. LeftIsDue'
  BY <1>1, <1>3, <1>4 DEF LeftIsDue, Steady, KeepsPlan, Stands
<1> QED BY <1>1, <1>3, <1>6, <1>9, <1>10, <1>11, <1>12, <1>13 DEF Working, Stands, Steady, KeepsPlan

\* The resources to prune are the snapshot's: only touched pools are missing.
LEMMA PruneResourcesWorks ==
  ASSUME Working, Agent!PruneResources
  PROVE  Working'
<1> DEFINE there == {r \in DOMAIN ap_before.resources \ Defined :
                       r \in ap_pools => r \in DOMAIN ap_sys.resources}
           extra == IF ap_apply.prune /\ Doc.resources # ap_omitted THEN there ELSE {}
<1>1. /\ At = "pruneNodes" /\ Left = {} /\ Begun /\ Stands /\ Holds(ap_sys)
      /\ ap_before \in ap_systems /\ ap_sys' = ap_sys
  BY DEF Working, Agent!PruneResources, At, Left
<1>2. Moves("pruneResources", extra, Item, {})
  <2>1. ap_apply.base = ap_before
    BY <1>1 DEF Begun
  <2>2. Agent!Goes([ap_apply EXCEPT !.at = "pruneResources", !.todo = extra], {})
    BY <2>1 DEF Agent!PruneResources, Doc, Defined
  <2> HIDE DEF extra
  <2> QED BY <1>1, <2>2, GoesMoves
<1>3. Steady
  BY <1>1, <1>2, SamePlan DEF Phases
<1>4. /\ At' = "pruneResources" /\ Left' = extra /\ Item' = ap_omitted /\ Item = ap_omitted
      /\ ap_apply'.completed = ap_apply.completed
  BY <1>1, <1>2 DEF Moves, Shifts, At, Left, Item, Stands, LeftIsDue
<1>5. extra \subseteq Spare
  BY DEF Spare
<1>6. \A n : ~Turning(n) /\ ~Turning(n)' /\ ~Waiting(n) /\ ~Waiting(n)'
  BY <1>1, <1>4 DEF Turning, Waiting
<1>7. Created = Missing /\ Created' = Missing /\ Pruned = {} /\ Pruned' = Spare \ extra
      /\ PrunedNodes = SpareNodes /\ PrunedNodes' = SpareNodes
      /\ Applied = Asked /\ Applied' = Asked
  BY <1>1, <1>3, <1>4 DEF Created, Pruned, PrunedNodes, Applied, Steady, KeepsPlan
<1>8. \A r \in Agent!Names \ ap_touched : r \notin Spare \ extra
  <2> SUFFICES ASSUME NEW r \in Agent!Names \ ap_touched, r \in Spare
               PROVE  r \in extra
    OBVIOUS
  <2>1. /\ ap_apply.prune /\ Doc.resources # ap_omitted
        /\ r \in DOMAIN ap_before.resources \ Defined
    BY DEF Spare
  <2>2. r \in DOMAIN ap_sys.resources
    BY <1>1, <1>7, <2>1 DEF Stands, ResourcesStand
  <2> QED BY <2>1, <2>2
<1> HIDE DEF extra
<1>9. SettingsStand'
  BY <1>1, <1>3, <1>4, <1>7, SettingsKept DEF Stands
<1>10. ResourcesStand'
  BY <1>1, <1>3, <1>7, <1>8 DEF Stands, ResourcesStand, Steady, KeepsPlan
<1>11. NodesStand'
  <2>1. \A n : Waiting(n)' = Waiting(n) /\ Turning(n)' = Turning(n)
    BY <1>1, <1>4 DEF Turning, Waiting
  <2> QED BY <1>1, <1>3, <1>7, <2>1, NodesKept DEF Stands
<1>12. CompletedIsDone'
  BY <1>1, <1>3, <1>4, <1>6, <1>7, <1>8 DEF Stands, CompletedIsDone, Steady, KeepsPlan
<1>13. LeftIsDue'
  BY <1>3, <1>4, <1>5 DEF LeftIsDue, Steady, KeepsPlan
<1> QED BY <1>1, <1>3, <1>9, <1>10, <1>11, <1>12, <1>13 DEF Working, Stands, Steady, KeepsPlan

\* A resource is pruned.
LEMMA PruneResourceWorks ==
  ASSUME Working, NEW r \in Agent!Names, Agent!PruneResource(r)
  PROVE  Working'
<1>1. /\ At = "pruneResources" /\ r \in Left /\ Begun /\ Stands /\ Holds(ap_sys)
      /\ ap_before \in ap_systems /\ r \in Spare
  BY DEF Working, Agent!PruneResource, Agent!First, At, Left, Stands, LeftIsDue
<1>2. Moves("pruneResources", Left \ {r}, Item, {r})
  <2>1. Agent!Goes([ap_apply EXCEPT !.todo = Left \ {r}], {r})
    BY DEF Agent!PruneResource, Left
  <2> QED BY <1>1, <2>1, GoesLeft
<1>3. Steady
  BY <1>1, <1>2, SamePlan DEF Phases
<1>4. /\ At' = "pruneResources" /\ Left' = Left \ {r} /\ Item' = ap_omitted /\ Item = ap_omitted
      /\ ap_apply'.completed = ap_apply.completed \cup {r}
  BY <1>1, <1>2 DEF Moves, Shifts, At, Left, Item, Stands, LeftIsDue
<1>5. /\ DOMAIN ap_sys' = DOMAIN ap_sys /\ ap_sys'.settings = ap_sys.settings
      /\ ap_sys'.network = ap_sys.network /\ ap_sys'.nodes = ap_sys.nodes
      /\ ap_sys'.resources = Agent!Drop(ap_sys.resources, {r})
  BY <1>1 DEF Agent!PruneResource, Holds
<1>6. /\ Holds(ap_sys') /\ DOMAIN ap_sys'.resources = DOMAIN ap_sys.resources \ {r}
      /\ \A x \in DOMAIN ap_sys'.resources : ap_sys'.resources[x] = ap_sys.resources[x]
  BY <1>1, <1>5, DropResource
<1>7. \A n : ~Turning(n) /\ ~Turning(n)' /\ ~Waiting(n) /\ ~Waiting(n)'
  BY <1>1, <1>4 DEF Turning, Waiting
<1>8. Created = Missing /\ Created' = Missing
      /\ Pruned = Spare \ Left /\ Pruned' = Pruned \cup {r}
      /\ PrunedNodes = SpareNodes /\ PrunedNodes' = SpareNodes
      /\ Applied = Asked /\ Applied' = Asked
  BY <1>1, <1>3, <1>4 DEF Created, Pruned, PrunedNodes, Applied, Steady, KeepsPlan
<1>9. r \in DOMAIN ap_before.resources /\ r \notin Missing /\ r \notin Pruned
  BY <1>1, <1>8 DEF Spare, Missing
<1>10. SettingsStand'
  BY <1>1, <1>3, <1>4, <1>5, <1>8, SettingsKept DEF Stands
<1>11. ResourcesStand'
  <2> SUFFICES ASSUME NEW x \in Agent!Names \ ap_touched
               PROVE  /\ x \in DOMAIN ap_sys'.resources <=>
                           x \in (DOMAIN ap_before.resources \ Pruned') \cup Missing
                      /\ x \in DOMAIN ap_before.resources \ Pruned' =>
                           ap_sys'.resources[x] = ap_before.resources[x]
                      /\ x \in Missing =>
                           ap_sys'.resources[x] \in Agent!Stored(x, Doc.resources[x], TheSettings)
    BY <1>3, <1>8 DEF Steady, KeepsPlan, ResourcesStand
  <2>1. /\ x \in DOMAIN ap_sys.resources <=>
             x \in (DOMAIN ap_before.resources \ Pruned) \cup Missing
        /\ x \in DOMAIN ap_before.resources \ Pruned =>
             ap_sys.resources[x] = ap_before.resources[x]
        /\ x \in Missing =>
             ap_sys.resources[x] \in Agent!Stored(x, Doc.resources[x], TheSettings)
    BY <1>1, <1>8 DEF Stands, ResourcesStand
  <2>2. CASE x = r
    BY <1>6, <1>8, <1>9, <2>2
  <2>3. CASE x # r
    BY <1>6, <1>8, <2>1, <2>3
  <2> QED BY <2>2, <2>3
<1>12. NodesStand'
  <2>1. \A n : Waiting(n)' = Waiting(n) /\ Turning(n)' = Turning(n)
    BY <1>1, <1>4 DEF Turning, Waiting
  <2> QED BY <1>1, <1>3, <1>5, <1>8, <2>1, NodesKept DEF Stands
<1>13. CompletedIsDone'
  BY <1>1, <1>3, <1>4, <1>7, <1>8, Apart DEF Stands, CompletedIsDone, Steady, KeepsPlan
<1>14. LeftIsDue'
  BY <1>1, <1>3, <1>4 DEF LeftIsDue, Steady, KeepsPlan, Stands
<1> QED BY <1>1, <1>3, <1>6, <1>10, <1>11, <1>12, <1>13, <1>14 DEF Working, Stands, Steady, KeepsPlan

\* What the document says of a node, and of a resource.
TheItem(n) == Agent!Section(Doc.nodes)[n]
TheResource(r) == Agent!Section(Doc.resources)[r]

\* A section that is left out defines nothing.
LEMMA SectionGiven ==
  /\ Doc.resources = ap_omitted => Defined = {}
  /\ Doc.nodes = ap_omitted => Planned = {}
  /\ \A r \in Defined : TheResource(r) = Doc.resources[r]
<1>1. DOMAIN << >> = {}
  OBVIOUS
<1> QED BY <1>1 DEF Defined, Planned, TheResource, Agent!Section

\* A plan says of a node what the document says, and else what the snapshot says.
LEMMA WellPlanned ==
  ASSUME Working, NEW n \in Planned
  PROVE  LET plan == ap_apply.plans[n] IN
         /\ n \in ap_nodes /\ plan.status = TheItem(n).status
         /\ plan.config.uses = TheItem(n).uses \/ TheItem(n).uses = ap_omitted
         /\ TheItem(n).uses = ap_omitted =>
              /\ n \in DOMAIN ap_before.nodes
              /\ plan.config.uses = ap_before.nodes[n].config.uses
         /\ TheItem(n).auth = "preserve" => n \in DOMAIN ap_before.nodes
         /\ plan.config.creds = IF TheItem(n).auth = "preserve"
                                THEN ap_before.nodes[n].config.creds
                                ELSE Agent!Credentials(TheItem(n), ap_omitted)
<1> DEFINE plan == ap_apply.plans[n]
           config == IF n \in DOMAIN ap_before.nodes THEN ap_before.nodes[n].config
                     ELSE [uses |-> ap_omitted, creds |-> "none", rest |-> "default"]
<1>1. /\ ap_before \in ap_systems /\ Begun /\ Doc \in ap_documents
      /\ Agent!Accepted(Doc, ap_apply.prune, ap_before)
  BY DEF Working, Begun
<1>2. /\ plan.status = TheItem(n).status
      /\ plan.config.uses =
           IF TheItem(n).uses # ap_omitted THEN TheItem(n).uses
           ELSE IF n \in DOMAIN ap_before.nodes THEN ap_before.nodes[n].config.uses
                ELSE ap_omitted
      /\ plan.config.creds = Agent!Credentials(TheItem(n), config)
  BY <1>1, BeforeHolds, PlanOfNode DEF Begun, Planned, Holds, TheItem
<1>3. n \in ap_nodes /\ TheItem(n).auth \in {"preserve", "set", "generate", "none"}
  BY <1>1, DocumentAssumption DEF Decoded, Planned, TheItem
<1>4. TheItem(n).auth = "preserve" => n \in DOMAIN ap_before.nodes
  BY <1>1 DEF Agent!Accepted, Agent!NodesFit, Planned, TheItem
<1>5. plan.config.uses # ap_omitted
  <2>1. DOMAIN ap_apply.plans = Planned
    BY <1>1 DEF Begun, Agent!Plans, Planned
  <2> QED BY <1>1, <2>1 DEF Agent!Accepted, Begun
<1>6. plan.config.creds = IF TheItem(n).auth = "preserve"
                          THEN ap_before.nodes[n].config.creds
                          ELSE Agent!Credentials(TheItem(n), ap_omitted)
  BY <1>2, <1>3, <1>4 DEF Agent!Credentials
<1> QED BY <1>2, <1>3, <1>4, <1>5, <1>6

\* A node that nobody touched is as the document says once its turn is over.
LEMMA FinishedIsAsPlanned ==
  ASSUME Working, NEW n \in Planned, n \notin ap_touched, ~Waiting(n), ~Turning(n)
  PROVE  Agent!NodeIsAs(n, TheItem(n), ap_sys)
<1>1. /\ n \in DOMAIN ap_sys.nodes
      /\ ap_sys.nodes[n].config = ap_apply.plans[n].config
      /\ ap_sys.nodes[n].status = ap_apply.plans[n].status
  BY WellPlanned DEF Working, Stands, NodesStand
<1> QED BY <1>1, WellPlanned DEF Agent!NodeIsAs

\* Of the settings only the default capacity decides whether a definition is the same.
LEMMA CapacityCounts ==
  ASSUME NEW r, NEW item, NEW existing, NEW settings, NEW others,
         settings.capacity = others.capacity
  PROVE  Agent!Same(r, item, existing, settings) <=> Agent!Same(r, item, existing, others)
BY DEF Agent!Same, Agent!Capacity

\* A resource that nobody touched has the definition that the document gives it.
LEMMA DefinedIsAsGiven ==
  ASSUME Working, NEW r \in Defined, r \notin ap_touched, r \in DOMAIN ap_sys.resources
  PROVE  Agent!Same(r, TheResource(r), ap_sys.resources[r], TheSettings)
           \/ (r \in ap_fixed /\ TheResource(r).is = ap_omitted)
<1>1. /\ Begun /\ ResourcesStand /\ Doc \in ap_documents
      /\ Agent!Accepted(Doc, ap_apply.prune, ap_before)
  BY DEF Working, Begun, Stands
<1>2. r \in Agent!Names /\ (r \in ap_templates => TheResource(r).is # ap_omitted)
  BY <1>1, DocumentAssumption DEF Decoded, Defined, TheResource
<1>3. r \notin Pruned
  BY DEF Pruned, Spare
<1>4. CASE r \in DOMAIN ap_before.resources
  <2>1. ap_sys.resources[r] = ap_before.resources[r]
    BY <1>1, <1>2, <1>3, <1>4 DEF ResourcesStand
  <2>2. Agent!Same(r, TheResource(r), ap_before.resources[r], TheSettings)
    BY <1>1, <1>4 DEF Agent!Accepted, Agent!ResourcesFit, Defined, TheResource, TheSettings
  <2> QED BY <2>1, <2>2
<1>5. CASE r \notin DOMAIN ap_before.resources
  <2>1. ap_sys.resources[r] \in Agent!Stored(r, TheResource(r), TheSettings)
    BY <1>1, <1>2, <1>5, SectionGiven DEF ResourcesStand
  <2> QED BY <1>2, <2>1 DEF Agent!Stored, Agent!Same, Agent!Names
<1> QED BY <1>4, <1>5

\* While nobody else interferes: which resources there are in each phase.
LEMMA ResourcesAreThere ==
  ASSUME Working, ap_touched = {}
  PROVE  /\ DOMAIN ap_sys.resources = (DOMAIN ap_before.resources \ Pruned) \cup Created
         /\ Created \subseteq Missing /\ Pruned \subseteq Spare
<1>1. /\ Begun /\ ResourcesStand /\ Holds(ap_sys) /\ Holds(ap_before) /\ Doc \in ap_documents
  BY BeforeHolds DEF Working, Begun, Stands
<1>2. Created \subseteq Missing /\ Pruned \subseteq Spare
  BY DEF Created, Pruned
<1>3. Missing \subseteq Agent!Names
  BY <1>1, DocumentAssumption DEF Decoded, Missing, Defined
<1>4. DOMAIN ap_sys.resources \subseteq Agent!Names
      /\ DOMAIN ap_before.resources \subseteq Agent!Names
  BY <1>1 DEF Holds
<1> QED BY <1>1, <1>2, <1>3, <1>4 DEF ResourcesStand

\* While nobody else interferes every node has what it uses: what nodes use is created before
\* them, and what is pruned is used by no node that is left.
LEMMA StaysProvided == Working => NeverDangling
<1> SUFFICES ASSUME Working, ap_touched = {}, Agent!Provided(ap_before),
                    NEW n \in DOMAIN ap_sys.nodes
             PROVE  ap_sys.nodes[n].config.uses \in DOMAIN ap_sys.resources
  BY DEF NeverDangling, Agent!NeverDangling, Agent!Provided
<1>1. /\ Begun /\ Stands /\ Holds(ap_sys) /\ Holds(ap_before) /\ n \in ap_nodes
      /\ DOMAIN ap_apply.plans = Planned
      /\ Agent!ReferencesFit(Doc, ap_apply.plans, ap_apply.prune, ap_before)
  BY BeforeHolds
  DEF Working, Begun, Agent!Accepted, Agent!Plans, Planned, Holds
<1>2. /\ DOMAIN ap_sys.resources = (DOMAIN ap_before.resources \ Pruned) \cup Created
      /\ Pruned \subseteq Spare
  BY ResourcesAreThere
<1> DEFINE Catalog == Defined \cup (IF ap_apply.prune /\ Doc.resources # ap_omitted
                                    THEN {} ELSE DOMAIN ap_before.resources)
           Kept == IF ap_apply.prune /\ Doc.nodes # ap_omitted
                   THEN {} ELSE DOMAIN ap_before.nodes \ Planned
<1>3. Doc.resources # ap_omitted \/ Doc.nodes # ap_omitted =>
        /\ \A m \in Planned : ap_apply.plans[m].config.uses \in Catalog
        /\ \A m \in Kept : ap_before.nodes[m].config.uses \in Catalog
  BY <1>1 DEF Agent!ReferencesFit, Defined
<1>4. CASE n \in Planned /\ ~Waiting(n)
  <2>1. ap_sys.nodes[n].config = ap_apply.plans[n].config
    BY <1>1, <1>4 DEF Stands, NodesStand
  <2>2. ap_sys.nodes[n].config.uses \in Catalog
    BY <1>3, <1>4, <2>1, SectionGiven
  <2>3. At \notin {"settings", "creates"}
    BY <1>4 DEF Waiting
  <2>4. Created = Missing
    BY <1>1, <2>3 DEF Created
  <2> QED BY <1>2, <2>2, <2>4 DEF Missing, Spare
<1>5. CASE ~(n \in Planned /\ ~Waiting(n))
  <2>1. /\ n \in DOMAIN ap_before.nodes \ PrunedNodes /\ ap_sys.nodes[n] = ap_before.nodes[n]
    BY <1>1, <1>5 DEF Stands, NodesStand
  <2>2. ap_sys.nodes[n].config.uses \in DOMAIN ap_before.resources
    BY <2>1 DEF Agent!Provided
  <2>3. CASE At # "pruneResources" \/ Spare = {}
    <3>1. Pruned = {}
      BY <2>3 DEF Pruned
    <3> QED BY <1>2, <2>2, <3>1
  <2>4. CASE At = "pruneResources" /\ Spare # {}
    <3>1. ~Waiting(n) /\ n \notin Planned
      BY <1>5, <2>4 DEF Waiting, Turning
    <3>2. n \in Kept
      BY <2>1, <2>4, <3>1 DEF PrunedNodes, SpareNodes
    <3>3. ap_apply.prune /\ Doc.resources # ap_omitted
      BY <2>4 DEF Spare
    <3>4. ap_sys.nodes[n].config.uses \in Defined
      BY <1>3, <2>1, <3>2, <3>3
    <3> QED BY <1>2, <2>2, <3>4 DEF Spare
  <2> QED BY <2>3, <2>4
<1> QED BY <1>4, <1>5

\* While nobody else interferes the document would pass its checks again, wherever it is: what
\* is there is as it was, or as the document says.
LEMMA PassesAgain ==
  ASSUME Working, ap_touched = {}, Agent!Repeatable(Doc)
  PROVE  Agent!Accepted(Doc, ap_apply.prune, ap_sys)
<1>1. /\ Begun /\ Stands /\ Holds(ap_sys) /\ Holds(ap_before) /\ Doc \in ap_documents
      /\ ap_before \in ap_systems
      /\ Agent!Accepted(Doc, ap_apply.prune, ap_before)
  BY BeforeHolds DEF Working, Begun
<1>2. /\ DOMAIN ap_sys.resources = (DOMAIN ap_before.resources \ Pruned) \cup Created
      /\ Created \subseteq Missing /\ Pruned \subseteq Spare
  BY ResourcesAreThere
<1> DEFINE section == Agent!Section(Doc.resources)
           items == Agent!Section(Doc.nodes)
           settings == Agent!Merged(ap_sys.settings, Doc)
<1>3. ap_apply.prune => Agent!PrunedDependencies(section)
  BY <1>1 DEF Agent!Accepted
<1>4. settings.capacity = TheSettings.capacity
  <2>1. \/ ap_sys.settings.capacity = ap_before.settings.capacity
        \/ ap_sys.settings.capacity = TheSettings.capacity
    BY <1>1 DEF Stands, SettingsStand
  <2> QED BY <1>1, <2>1 DEF TheSettings, Agent!Merged, Holds
<1>5. Agent!ResourcesFit(section, ap_sys.resources, settings)
  <2> DEFINE known(r) == IF r \in DOMAIN section THEN section[r] ELSE ap_sys.resources[r]
  <2> SUFFICES ASSUME NEW r \in DOMAIN section
               PROVE  /\ section[r].needs \subseteq DOMAIN section \cup DOMAIN ap_sys.resources
                      /\ r \in DOMAIN ap_sys.resources =>
                           Agent!Same(r, section[r], ap_sys.resources[r], settings)
                      /\ \A f \in section[r].needs \cap ap_fixed :
                           known(f).needs = section[r].needs \cap ap_templates
    BY DEF Agent!ResourcesFit
  <2>1. /\ section[r].needs \subseteq DOMAIN section \cup DOMAIN ap_before.resources
        /\ \A f \in section[r].needs \cap ap_fixed :
             (IF f \in DOMAIN section THEN section[f] ELSE ap_before.resources[f]).needs
               = section[r].needs \cap ap_templates
    BY <1>1 DEF Agent!Accepted, Agent!ResourcesFit
  <2>2. Pruned # {} => section[r].needs \subseteq DOMAIN section
    BY <1>2, <1>3 DEF Spare, Agent!PrunedDependencies
  <2>3. section[r].needs \subseteq DOMAIN section \cup DOMAIN ap_sys.resources
    BY <1>2, <2>1, <2>2
  <2>4. ASSUME r \in DOMAIN ap_sys.resources
        PROVE  Agent!Same(r, section[r], ap_sys.resources[r], settings)
    <3>1. r \in Defined /\ TheResource(r) = section[r]
      BY DEF Defined, TheResource
    <3>2. ~(r \in ap_fixed /\ section[r].is = ap_omitted)
      BY <3>1, SectionGiven DEF Agent!Repeatable
    <3>3. Agent!Same(r, section[r], ap_sys.resources[r], TheSettings)
      BY <1>1, <2>4, <3>1, <3>2, DefinedIsAsGiven
    <3> QED BY <1>4, <3>3, CapacityCounts
  <2>5. ASSUME NEW f \in section[r].needs \cap ap_fixed
        PROVE  known(f).needs = section[r].needs \cap ap_templates
    <3>1. CASE f \in DOMAIN section
      BY <2>1, <3>1
    <3>2. CASE f \notin DOMAIN section
      <4>1. f \in DOMAIN ap_before.resources /\ f \notin Pruned
        BY <2>1, <2>2, <3>2
      <4>2. f \in Agent!Names
        BY <1>1, <4>1 DEF Holds
      <4>3. ap_sys.resources[f] = ap_before.resources[f]
        BY <1>1, <4>1, <4>2 DEF Stands, ResourcesStand
      <4> QED BY <2>1, <3>2, <4>3
    <3> QED BY <3>1, <3>2
  <2> QED BY <2>3, <2>4, <2>5
<1>6. Planned \subseteq ap_nodes
      /\ \A n \in Planned \cap DOMAIN ap_before.nodes : n \in DOMAIN ap_sys.nodes
  <2>1. Planned \subseteq ap_nodes
    BY WellPlanned
  <2>2. Planned \cap PrunedNodes = {}
    BY DEF PrunedNodes, SpareNodes
  <2> QED BY <1>1, <2>1, <2>2 DEF Stands, NodesStand
<1>7. Agent!NodesFit(items, ap_sys.nodes)
  BY <1>6, WellPlanned DEF Agent!NodesFit, Planned, TheItem
<1> DEFINE plans == Agent!Plans(items, ap_sys.nodes)
<1>8. DOMAIN plans = Planned /\ DOMAIN ap_apply.plans = Planned
  BY <1>1 DEF Agent!Plans, Planned, Begun
<1>9. \A n \in Planned : plans[n].config.uses = ap_apply.plans[n].config.uses
  <2> SUFFICES ASSUME NEW n \in Planned
               PROVE  plans[n].config.uses = ap_apply.plans[n].config.uses
    OBVIOUS
  <2>1. plans[n].config.uses =
          IF TheItem(n).uses # ap_omitted THEN TheItem(n).uses
          ELSE IF n \in DOMAIN ap_sys.nodes THEN ap_sys.nodes[n].config.uses ELSE ap_omitted
    BY <1>1, PlanOfNode DEF Planned, TheItem, Holds
  <2>2. CASE TheItem(n).uses # ap_omitted
    BY <2>1, <2>2, WellPlanned
  <2>3. CASE TheItem(n).uses = ap_omitted
    <3>1. /\ n \in DOMAIN ap_before.nodes /\ n \in DOMAIN ap_sys.nodes
          /\ ap_apply.plans[n].config.uses = ap_before.nodes[n].config.uses
      BY <1>6, <2>3, WellPlanned
    <3>2. \/ ap_sys.nodes[n].config = ap_apply.plans[n].config
          \/ ap_sys.nodes[n] = ap_before.nodes[n]
      BY <1>1, <1>6, <3>1 DEF Stands, NodesStand
    <3> QED BY <2>1, <2>3, <3>1, <3>2
  <2> QED BY <2>2, <2>3
<1>10. \A n \in Planned : plans[n].config.uses # ap_omitted
  BY <1>1, <1>8, <1>9 DEF Agent!Accepted, Begun
<1> HIDE DEF plans
<1>11. Agent!ReferencesFit(Doc, plans, ap_apply.prune, ap_sys)
  <2> DEFINE CatalogOf(s) == DOMAIN section \cup
               (IF ap_apply.prune /\ Doc.resources # ap_omitted THEN {} ELSE DOMAIN s.resources)
             KeptOf(s) == IF ap_apply.prune /\ Doc.nodes # ap_omitted
                          THEN {} ELSE DOMAIN s.nodes \ Planned
  <2> SUFFICES ASSUME Doc.resources # ap_omitted \/ Doc.nodes # ap_omitted
               PROVE  /\ \A n \in Planned : plans[n].config.uses \in CatalogOf(ap_sys)
                      /\ \A n \in KeptOf(ap_sys) : ap_sys.nodes[n].config.uses \in CatalogOf(ap_sys)
    BY <1>8 DEF Agent!ReferencesFit
  <2>1. /\ \A n \in Planned : ap_apply.plans[n].config.uses \in CatalogOf(ap_before)
        /\ \A n \in KeptOf(ap_before) :
             ap_before.nodes[n].config.uses \in CatalogOf(ap_before)
    <3>1. Agent!ReferencesFit(Doc, ap_apply.plans, ap_apply.prune, ap_before)
      BY <1>1 DEF Agent!Accepted, Begun
    <3> QED BY <1>8, <3>1 DEF Agent!ReferencesFit
  <2>2. CatalogOf(ap_before) \subseteq CatalogOf(ap_sys)
    BY <1>2 DEF Spare
  <2>3. ASSUME NEW n \in KeptOf(ap_sys)
        PROVE  n \in KeptOf(ap_before) /\ ap_sys.nodes[n] = ap_before.nodes[n]
    <3>1. n \in ap_nodes /\ n \notin Planned /\ n \in DOMAIN ap_sys.nodes
      BY <1>1, <2>3 DEF Holds
    <3>2. n \in DOMAIN ap_before.nodes /\ ap_sys.nodes[n] = ap_before.nodes[n]
      BY <1>1, <3>1 DEF Stands, NodesStand
    <3> QED BY <2>3, <3>1, <3>2
  <2> HIDE DEF CatalogOf, KeptOf
  <2>4. \A n \in Planned : plans[n].config.uses \in CatalogOf(ap_sys)
    BY <1>9, <2>1, <2>2
  <2>5. \A n \in KeptOf(ap_sys) : ap_sys.nodes[n].config.uses \in CatalogOf(ap_sys)
    BY <2>1, <2>2, <2>3
  <2> QED BY <2>4, <2>5
<1> QED BY <1>3, <1>5, <1>7, <1>8, <1>10, <1>11 DEF Agent!Accepted, plans

\* The reply tells what was done.
LEMMA EndsReported ==
  ASSUME Working, ap_touched = {}, NEW result, Agent!Ends(result)
  PROVE  Agent!Reported'
<1>1. /\ Begun /\ Stands /\ Holds(ap_sys) /\ Holds(ap_before) /\ Doc \in ap_documents
  BY BeforeHolds DEF Working, Begun
<1>2. /\ DOMAIN ap_sys.resources = (DOMAIN ap_before.resources \ Pruned) \cup Created
      /\ Created \subseteq Missing /\ Pruned \subseteq Spare
  BY ResourcesAreThere
<1>3. /\ ap_reply'.completed = ap_apply.completed /\ ap_reply'.doc = Doc
      /\ ap_reply'.about = Item /\ ap_sys' = ap_sys /\ ap_before' = ap_before
  BY DEF Agent!Ends, Doc, Item
<1> DEFINE done == ap_apply.completed
<1>4. ASSUME NEW n \in done \cap Planned
      PROVE  Agent!NodeIsAs(n, TheItem(n), ap_sys)
  <2>1. ~Waiting(n) /\ ~Turning(n)
    BY <1>1 DEF Stands, CompletedIsDone, Turning
  <2> QED BY <2>1, FinishedIsAsPlanned
<1>5. ASSUME NEW r \in done \cap Agent!Names
      PROVE  r \in DOMAIN ap_sys.resources <=> r \in Defined
  <2>1. r \in Created \cup Pruned
    BY <1>1 DEF Stands, CompletedIsDone
  <2> QED BY <1>2, <2>1 DEF Missing, Spare
<1>6. ASSUME NEW r \in Agent!Names,
             r \in DOMAIN ap_sys.resources <=> r \notin DOMAIN ap_before.resources
      PROVE  r \in done
  <2>1. r \in Created \cup Pruned
    BY <1>2, <1>6
  <2> QED BY <1>1, <2>1 DEF Stands, CompletedIsDone
<1>7. ASSUME NEW n \in ap_nodes,
             \/ n \in DOMAIN ap_sys.nodes <=> n \notin DOMAIN ap_before.nodes
             \/ n \in DOMAIN ap_sys.nodes /\ ap_sys.nodes[n] # ap_before.nodes[n]
      PROVE  n \in done \cup {Item}
  <2>1. CASE n \in Planned /\ ~Waiting(n)
    BY <1>1, <2>1 DEF Stands, CompletedIsDone, Turning
  <2>2. CASE ~(n \in Planned /\ ~Waiting(n))
    <3>1. n \in PrunedNodes
      BY <1>1, <1>7, <2>2 DEF Stands, NodesStand
    <3> QED BY <1>1, <3>1 DEF Stands, CompletedIsDone
  <2> QED BY <2>1, <2>2
<1>8. ASSUME NEW p \in Agent!NetworkParts
      PROVE  /\ \/ p \in done \cup {Item}
                \/ /\ ap_sys.network[p] = ap_before.network[p]
                   /\ ap_sys.settings.network[p] = ap_before.settings.network[p]
             /\ p \in done => /\ p \in Asked /\ ap_sys.network[p] = TheNetwork(p)
                              /\ ap_sys.settings.network[p] = TheNetwork(p)
  <2>1. /\ ap_sys.settings.network[p] = ap_sys.network[p]
        /\ ap_sys.network[p] = IF p \in Applied THEN TheNetwork(p) ELSE ap_before.network[p]
    BY <1>1 DEF Stands, SettingsStand
  <2>2. p \in done <=> p \in Applied /\ p # Item
    BY <1>1 DEF Stands, CompletedIsDone
  <2>3. Applied \subseteq Asked
    BY DEF Applied
  <2>4. ap_before.settings.network = ap_before.network
    BY BeforeHolds DEF Working
  <2> QED BY <2>1, <2>2, <2>3, <2>4
<1>11. /\ "settings" \in done => ap_sys.settings.capacity = TheSettings.capacity
       /\ ap_sys.settings.capacity # ap_before.settings.capacity => "settings" \in done
  BY <1>1 DEF Stands, SettingsStand, CompletedIsDone
<1>12. Agent!Changed' \subseteq done \cup {Item}
  <2> SUFFICES ASSUME NEW x \in Agent!Changed' PROVE x \in done \cup {Item}
    OBVIOUS
  <2>1. CASE /\ x \in Agent!NetworkParts
             /\ \/ ap_sys.network[x] # ap_before.network[x]
                \/ ap_sys.settings.network[x] # ap_before.settings.network[x]
    BY <1>8, <2>1
  <2>2. CASE /\ x \in Agent!Names
             /\ x \in DOMAIN ap_sys.resources <=> x \notin DOMAIN ap_before.resources
    BY <1>6, <2>2
  <2>3. CASE /\ x \in ap_nodes
             /\ \/ x \in DOMAIN ap_sys.nodes <=> x \notin DOMAIN ap_before.nodes
                \/ x \in DOMAIN ap_sys.nodes /\ ap_sys.nodes[x] # ap_before.nodes[x]
    BY <1>7, <2>3
  <2>4. CASE x = "settings" /\ ap_sys.settings.capacity # ap_before.settings.capacity
    BY <1>11, <2>4
  <2> QED BY <1>3, <2>1, <2>2, <2>3, <2>4 DEF Agent!Changed
<1>13. /\ "settings" \in ap_reply'.completed =>
            ap_sys'.settings.capacity = Agent!Merged(ap_before'.settings, ap_reply'.doc).capacity
       /\ \A p \in ap_reply'.completed \cap Agent!NetworkParts :
            /\ p \in DOMAIN Agent!Section(ap_reply'.doc.network)
            /\ ap_sys'.network[p] = Agent!Section(ap_reply'.doc.network)[p]
            /\ ap_sys'.settings.network[p] = Agent!Section(ap_reply'.doc.network)[p]
  BY <1>3, <1>8, <1>11 DEF Asked, TheNetwork, TheSettings
<1>9. \A n \in ap_reply'.completed \cap DOMAIN Agent!Section(ap_reply'.doc.nodes) :
        Agent!NodeIsAs(n, Agent!Section(ap_reply.doc.nodes)[n], ap_sys)'
  BY <1>3, <1>4 DEF Agent!NodeIsAs, Planned, TheItem
<1>10. \A r \in ap_reply'.completed \cap Agent!Names :
         r \in DOMAIN ap_sys'.resources <=> r \in DOMAIN Agent!Section(ap_reply'.doc.resources)
  BY <1>3, <1>5 DEF Defined
<1> QED BY <1>3, <1>9, <1>10, <1>12, <1>13 DEF Agent!Reported

\* A document that came to its end is in force.
LEMMA EndsConverged ==
  ASSUME Working, At = "pruneResources", Left = {}, Agent!Ends("ok")
  PROVE  Agent!Converged'
<1>1. /\ Begun /\ Stands /\ Holds(ap_sys) /\ Holds(ap_before) /\ Doc \in ap_documents
  BY BeforeHolds DEF Working, Begun
<1>2. /\ ap_reply'.doc = Doc /\ ap_reply'.prune = ap_apply.prune /\ ap_sys' = ap_sys
      /\ ap_before' = ap_before /\ ap_touched' = ap_touched
  BY DEF Agent!Ends, Doc
<1>3. Created = Missing /\ Pruned = Spare /\ PrunedNodes = SpareNodes
  BY DEF Created, Pruned, PrunedNodes
<1>4. ap_sys.settings.capacity = TheSettings.capacity
      /\ \A p \in Agent!NetworkParts \ ap_touched :
           /\ ap_sys.network[p] = ap_sys.settings.network[p]
           /\ p \in Asked => ap_sys.network[p] = TheNetwork(p)
  BY <1>1 DEF Stands, SettingsStand, Applied
<1>5. ASSUME NEW r \in Defined \ ap_touched
      PROVE  Agent!IsAs(r, TheResource(r), ap_sys, TheSettings)
  <2>1. r \in Agent!Names
    BY <1>1, DocumentAssumption DEF Decoded, Defined
  <2>2. r \in DOMAIN ap_sys.resources
    BY <1>1, <1>3, <2>1 DEF Stands, ResourcesStand, Missing, Spare
  <2> QED BY <2>2, DefinedIsAsGiven DEF Agent!IsAs
<1>6. ASSUME NEW n \in Planned \ ap_touched
      PROVE  Agent!NodeIsAs(n, TheItem(n), ap_sys)
  <2>1. ~Waiting(n) /\ ~Turning(n)
    BY DEF Waiting, Turning
  <2> QED BY <2>1, FinishedIsAsPlanned
<1>7. ASSUME ap_apply.prune, Doc.nodes # ap_omitted
      PROVE  DOMAIN ap_sys.nodes \subseteq Planned \cup ap_touched
  BY <1>1, <1>3, <1>7 DEF Stands, NodesStand, Holds, SpareNodes
<1>8. ASSUME ap_apply.prune, Doc.resources # ap_omitted
      PROVE  DOMAIN ap_sys.resources \subseteq Defined \cup ap_touched
  BY <1>1, <1>3, <1>8 DEF Stands, ResourcesStand, Holds, Spare, Missing
<1> DEFINE settings == Agent!Merged(ap_before.settings, ap_reply.doc)
           resources == Agent!Section(ap_reply.doc.resources)
           items == Agent!Section(ap_reply.doc.nodes)
<1>9. /\ settings' = TheSettings /\ DOMAIN resources' = Defined /\ DOMAIN items' = Planned
      /\ \A r \in Defined : resources'[r] = TheResource(r)
      /\ \A n \in Planned : items'[n] = TheItem(n)
  BY <1>2 DEF TheSettings, Defined, Planned, TheResource, TheItem
<1>10. \A r \in DOMAIN resources' \ ap_touched' :
         Agent!IsAs(r, resources[r], ap_sys, settings)'
  <2> SUFFICES ASSUME NEW r \in Defined \ ap_touched
               PROVE  Agent!IsAs(r, resources[r], ap_sys, settings)'
    BY <1>2, <1>9
  <2> HIDE DEF settings, resources
  <2> QED BY <1>2, <1>5, <1>9 DEF Agent!IsAs, Agent!Same, Agent!Capacity
<1>11. \A n \in DOMAIN items' \ ap_touched' : Agent!NodeIsAs(n, items[n], ap_sys)'
  <2> SUFFICES ASSUME NEW n \in Planned \ ap_touched
               PROVE  Agent!NodeIsAs(n, items[n], ap_sys)'
    BY <1>2, <1>9
  <2> HIDE DEF items
  <2> QED BY <1>2, <1>6, <1>9 DEF Agent!NodeIsAs
<1>12. ap_sys'.settings.capacity = settings'.capacity
       /\ \A p \in Agent!NetworkParts \ ap_touched' :
            /\ ap_sys'.network[p] = ap_sys'.settings.network[p]
            /\ p \in DOMAIN Agent!Section(ap_reply'.doc.network) =>
                 ap_sys'.network[p] = Agent!Section(ap_reply'.doc.network)[p]
  BY <1>2, <1>4, <1>9 DEF Asked, TheNetwork
<1>13. ap_reply'.prune =>
         /\ ap_reply'.doc.nodes = ap_omitted
              \/ DOMAIN ap_sys'.nodes \subseteq DOMAIN items' \cup ap_touched'
         /\ ap_reply'.doc.resources = ap_omitted
              \/ DOMAIN ap_sys'.resources \subseteq DOMAIN resources' \cup ap_touched'
  BY <1>2, <1>7, <1>8, <1>9
<1> QED BY <1>10, <1>11, <1>12, <1>13 DEF Agent!Converged

\* The reply that ends a document is true, whatever was done when it ended.
LEMMA Ending ==
  ASSUME Working, NEW result \in {"ok", "failed"}, Agent!Ends(result),
         result = "ok" => At = "pruneResources" /\ Left = {}
  PROVE  FollowsDocument'
<1>1. /\ ap_reply'.result = result /\ ap_reply'.doc = Doc
      /\ ap_reply'.prune = ap_apply.prune
      /\ ap_apply' = Agent!Idle /\ ap_sys' = ap_sys /\ ap_before' = ap_before
      /\ ap_touched' = ap_touched
  BY DEF Agent!Ends, Doc
<1>2. ap_reply' # Agent!NoReply
  BY <1>1 DEF Agent!NoReply
<1>3. ReplyIsTrue'
  <2>1. CASE ap_touched = {}
    BY <1>1, <2>1, EndsReported, EndsConverged DEF ReplyIsTrue, Agent!ReplyIsTrue
  <2>2. CASE ap_touched # {}
    BY <1>1, <2>2, EndsConverged DEF ReplyIsTrue, Agent!ReplyIsTrue
  <2> QED BY <2>1, <2>2
<1>4. NeverDangling'
  BY <1>1, StaysProvided DEF NeverDangling, Agent!NeverDangling, Agent!Provided
<1>5. CanBeRepeated'
  <2> SUFFICES ASSUME ap_touched = {}, Agent!Repeatable(Doc)
               PROVE  Agent!Accepted(Doc, ap_apply.prune, ap_sys)
    BY <1>1 DEF CanBeRepeated, Agent!CanBeRepeated
  <2> QED BY PassesAgain
<1> QED BY <1>1, <1>2, <1>3, <1>4, <1>5 DEF FollowsDocument, Working, Holds

-----------------------------------------------------------------------------
(***************************************************************************)
(* The commands of other administrators, between any two steps.            *)
(***************************************************************************)
\* A command of another administrator changes nothing of the document.
LEMMA PhaseKept ==
  ASSUME ap_apply' = ap_apply, ap_before' = ap_before
  PROVE  /\ At' = At /\ Left' = Left /\ Item' = Item /\ Doc' = Doc
         /\ Asked' = Asked /\ Defined' = Defined /\ Planned' = Planned
         /\ TheSettings' = TheSettings /\ Missing' = Missing /\ Spare' = Spare
         /\ Applied' = Applied /\ Created' = Created /\ Pruned' = Pruned
         /\ PrunedNodes' = PrunedNodes
         /\ \A n : Turning(n)' = Turning(n) /\ Waiting(n)' = Waiting(n)
<1>1. At' = At /\ Left' = Left /\ Item' = Item /\ Doc' = Doc
  BY DEF At, Left, Item, Doc
<1>2. /\ Asked' = Asked /\ Defined' = Defined /\ Planned' = Planned
      /\ TheSettings' = TheSettings
  BY <1>1 DEF Asked, Defined, Planned, TheSettings
<1>3. Missing' = Missing /\ Spare' = Spare /\ SpareNodes' = SpareNodes
  BY <1>1, <1>2 DEF Missing, Spare, SpareNodes
<1>4. /\ Applied' = Applied /\ Created' = Created /\ Pruned' = Pruned
      /\ PrunedNodes' = PrunedNodes
  BY <1>1, <1>2, <1>3 DEF Applied, Created, Pruned, PrunedNodes
<1>5. \A n : Turning(n)' = Turning(n) /\ Waiting(n)' = Waiting(n)
  BY <1>1 DEF Turning, Waiting
<1> QED BY <1>1, <1>2, <1>3, <1>4, <1>5

\* It changes one name, which is touched from then on: nothing is said of it any more.
LEMMA CommandWorks ==
  ASSUME Working, NEW what, Agent!Command(what), Holds(ap_sys'),
         ap_sys'.settings.capacity = ap_sys.settings.capacity,
         \A p \in Agent!NetworkParts \ {what} : /\ ap_sys'.settings.network[p] = ap_sys.settings.network[p]
                                                /\ ap_sys'.network[p] = ap_sys.network[p],
         \A r \in Agent!Names \ {what} :
           /\ r \in DOMAIN ap_sys'.resources <=> r \in DOMAIN ap_sys.resources
           /\ r \in DOMAIN ap_sys.resources => ap_sys'.resources[r] = ap_sys.resources[r],
         \A n \in ap_nodes \ {what} :
           /\ n \in DOMAIN ap_sys'.nodes <=> n \in DOMAIN ap_sys.nodes
           /\ n \in DOMAIN ap_sys.nodes => ap_sys'.nodes[n] = ap_sys.nodes[n]
  PROVE  Working'
<1>1. /\ ap_apply' = ap_apply /\ ap_reply' = ap_reply /\ ap_before' = ap_before
      /\ ap_touched' = ap_touched \cup {what}
  BY DEF Agent!Command
<1>2. Begun /\ Stands /\ ap_before \in ap_systems /\ ap_apply # Agent!Idle
      /\ ap_reply = Agent!NoReply
  BY DEF Working
<1>3. /\ At' = At /\ Left' = Left /\ Item' = Item /\ Doc' = Doc /\ Asked' = Asked
      /\ Defined' = Defined /\ Planned' = Planned /\ TheSettings' = TheSettings
      /\ Missing' = Missing /\ Spare' = Spare
  BY <1>1, PhaseKept
<1>4. Applied' = Applied /\ Created' = Created /\ Pruned' = Pruned /\ PrunedNodes' = PrunedNodes
  BY <1>1, PhaseKept
<1>5. \A n : Turning(n)' = Turning(n) /\ Waiting(n)' = Waiting(n)
  BY <1>1, PhaseKept
<1>6. Begun'
  BY <1>1, <1>2, <1>3 DEF Begun
<1>7. LeftIsDue'
  BY <1>1, <1>2, <1>3 DEF Stands, LeftIsDue
<1>8. SettingsStand'
  BY <1>1, <1>2, <1>3, <1>4 DEF Stands, SettingsStand, TheNetwork
<1>9. ResourcesStand'
  <2> SUFFICES ASSUME NEW r \in Agent!Names \ ap_touched, r # what
               PROVE  /\ r \in DOMAIN ap_sys'.resources <=>
                           r \in (DOMAIN ap_before.resources \ Pruned) \cup Created
                      /\ r \in DOMAIN ap_before.resources \ Pruned =>
                           ap_sys'.resources[r] = ap_before.resources[r]
                      /\ r \in Created =>
                           ap_sys'.resources[r] \in Agent!Stored(r, Doc.resources[r], TheSettings)
    BY <1>1, <1>3, <1>4 DEF ResourcesStand
  <2> QED BY <1>2 DEF Stands, ResourcesStand
<1>10. NodesStand'
  <2> SUFFICES ASSUME NEW n \in ap_nodes \ ap_touched, n # what
               PROVE  IF n \in Planned /\ ~Waiting(n)
                      THEN /\ n \in DOMAIN ap_sys'.nodes
                           /\ ap_sys'.nodes[n].config = ap_apply.plans[n].config
                           /\ Turning(n) \/ ap_sys'.nodes[n].status = ap_apply.plans[n].status
                      ELSE /\ n \in DOMAIN ap_sys'.nodes <=>
                                n \in DOMAIN ap_before.nodes \ PrunedNodes
                           /\ n \in DOMAIN ap_sys'.nodes => ap_sys'.nodes[n] = ap_before.nodes[n]
    BY <1>1, <1>3, <1>4, <1>5 DEF NodesStand
  <2>1. IF n \in Planned /\ ~Waiting(n)
        THEN /\ n \in DOMAIN ap_sys.nodes
             /\ ap_sys.nodes[n].config = ap_apply.plans[n].config
             /\ Turning(n) \/ ap_sys.nodes[n].status = ap_apply.plans[n].status
        ELSE /\ n \in DOMAIN ap_sys.nodes <=> n \in DOMAIN ap_before.nodes \ PrunedNodes
             /\ n \in DOMAIN ap_sys.nodes => ap_sys.nodes[n] = ap_before.nodes[n]
    BY <1>2 DEF Stands, NodesStand
  <2>2. /\ n \in DOMAIN ap_sys'.nodes <=> n \in DOMAIN ap_sys.nodes
        /\ n \in DOMAIN ap_sys.nodes => ap_sys'.nodes[n] = ap_sys.nodes[n]
    OBVIOUS
  <2> QED BY <2>1, <2>2
<1>11. CompletedIsDone'
  BY <1>1, <1>2, <1>3, <1>4, <1>5 DEF Stands, CompletedIsDone
<1> QED BY <1>1, <1>2, <1>6, <1>7, <1>8, <1>9, <1>10, <1>11 DEF Working, Stands

\* A command about a resource.
LEMMA ResourceCommandWorks ==
  ASSUME Working, NEW r \in Agent!Names, Agent!Command(r), Holds(ap_sys'),
         ap_sys'.settings = ap_sys.settings, ap_sys'.network = ap_sys.network,
         ap_sys'.nodes = ap_sys.nodes,
         \A x \in Agent!Names \ {r} :
           /\ x \in DOMAIN ap_sys'.resources <=> x \in DOMAIN ap_sys.resources
           /\ x \in DOMAIN ap_sys.resources => ap_sys'.resources[x] = ap_sys.resources[x]
  PROVE  Working'
BY CommandWorks

\* A command about a node.
LEMMA NodeCommandWorks ==
  ASSUME Working, NEW n \in ap_nodes, Agent!Command(n), Holds(ap_sys'),
         ap_sys'.settings = ap_sys.settings, ap_sys'.network = ap_sys.network,
         ap_sys'.resources = ap_sys.resources,
         \A x \in ap_nodes \ {n} :
           /\ x \in DOMAIN ap_sys'.nodes <=> x \in DOMAIN ap_sys.nodes
           /\ x \in DOMAIN ap_sys.nodes => ap_sys'.nodes[x] = ap_sys.nodes[x]
  PROVE  Working'
BY CommandWorks

\* A resource is created by another administrator.
LEMMA CommandCreateWorks ==
  ASSUME Working, NEW r \in Agent!Names, NEW item, Agent!CommandCreate(r, item)
  PROVE  Working'
<1>1. Holds(ap_sys) /\ Agent!Command(r)
  BY DEF Working, Agent!CommandCreate
<1>2. PICK d : ap_sys' = [ap_sys EXCEPT !.resources = Agent!Put(@, r, d)]
  BY DEF Agent!CommandCreate
<1>3. /\ DOMAIN ap_sys' = DOMAIN ap_sys /\ ap_sys'.settings = ap_sys.settings
      /\ ap_sys'.network = ap_sys.network /\ ap_sys'.nodes = ap_sys.nodes
      /\ ap_sys'.resources = Agent!Put(ap_sys.resources, r, d)
  BY <1>1, <1>2 DEF Holds
<1>4. /\ Holds(ap_sys') /\ DOMAIN ap_sys'.resources = DOMAIN ap_sys.resources \cup {r}
      /\ \A x \in DOMAIN ap_sys.resources : x # r => ap_sys'.resources[x] = ap_sys.resources[x]
  BY <1>1, <1>3, PutResource
<1> QED BY <1>1, <1>3, <1>4, ResourceCommandWorks

\* A resource is deleted by another administrator.
LEMMA CommandDeleteWorks ==
  ASSUME Working, NEW r \in Agent!Names, Agent!CommandDelete(r)
  PROVE  Working'
<1>1. Holds(ap_sys) /\ Agent!Command(r)
  BY DEF Working, Agent!CommandDelete
<1>2. /\ DOMAIN ap_sys' = DOMAIN ap_sys /\ ap_sys'.settings = ap_sys.settings
      /\ ap_sys'.network = ap_sys.network /\ ap_sys'.nodes = ap_sys.nodes
      /\ ap_sys'.resources = Agent!Drop(ap_sys.resources, {r})
  BY <1>1 DEF Holds, Agent!CommandDelete
<1>3. /\ Holds(ap_sys') /\ DOMAIN ap_sys'.resources = DOMAIN ap_sys.resources \ {r}
      /\ \A x \in DOMAIN ap_sys'.resources : ap_sys'.resources[x] = ap_sys.resources[x]
  BY <1>1, <1>2, DropResource
<1> QED BY <1>1, <1>2, <1>3, ResourceCommandWorks

\* A planned configuration is a configuration.
LEMMA PlanIsConfigured ==
  ASSUME NEW n, NEW item, NEW list,
         \A m \in DOMAIN list : DOMAIN list[m].config = {"uses", "creds", "rest"}
  PROVE  DOMAIN Agent!Plan(n, item, list).config = {"uses", "creds", "rest"}
BY DEF Agent!Plan

\* A node is created by another administrator.
LEMMA CommandCreateNodeWorks ==
  ASSUME Working, NEW n \in ap_nodes, NEW given, Agent!CommandCreateNode(n, given)
  PROVE  Working'
<1>1. Holds(ap_sys) /\ Agent!Command(n)
  BY DEF Working, Agent!CommandCreateNode
<1> DEFINE config == Agent!Plan(n, given, ap_sys.nodes).config
           item == [config |-> config, status |-> "running"]
<1>2. DOMAIN config = {"uses", "creds", "rest"}
  BY <1>1, PlanIsConfigured DEF Holds
<1>3. /\ DOMAIN ap_sys' = DOMAIN ap_sys /\ ap_sys'.settings = ap_sys.settings
      /\ ap_sys'.network = ap_sys.network /\ ap_sys'.resources = ap_sys.resources
      /\ ap_sys'.nodes = Agent!Put(ap_sys.nodes, n, item)
  BY <1>1 DEF Agent!CommandCreateNode, Holds
<1> HIDE DEF config
<1>4. DOMAIN item = {"config", "status"} /\ DOMAIN item.config = {"uses", "creds", "rest"}
  BY <1>2
<1> HIDE DEF item
<1>5. /\ Holds(ap_sys') /\ DOMAIN ap_sys'.nodes = DOMAIN ap_sys.nodes \cup {n}
      /\ \A m \in DOMAIN ap_sys.nodes : m # n => ap_sys'.nodes[m] = ap_sys.nodes[m]
  BY <1>1, <1>3, <1>4, PutNode
<1> QED BY <1>1, <1>3, <1>5, NodeCommandWorks

\* A node that is there is changed by a command.
LEMMA NodeChanged ==
  ASSUME Working, NEW n \in ap_nodes, Agent!Command(n), n \in DOMAIN ap_sys.nodes, NEW item,
         DOMAIN item = {"config", "status"}, DOMAIN item.config = {"uses", "creds", "rest"},
         DOMAIN ap_sys' = DOMAIN ap_sys, ap_sys'.settings = ap_sys.settings,
         ap_sys'.network = ap_sys.network, ap_sys'.resources = ap_sys.resources,
         ap_sys'.nodes = [ap_sys.nodes EXCEPT ![n] = item]
  PROVE  Working'
<1>1. Holds(ap_sys)
  BY DEF Working
<1>2. /\ Holds(ap_sys') /\ DOMAIN ap_sys'.nodes = DOMAIN ap_sys.nodes
      /\ \A x \in DOMAIN ap_sys.nodes : x # n => ap_sys'.nodes[x] = ap_sys.nodes[x]
  BY <1>1, SetNode
<1> QED BY <1>2, NodeCommandWorks

\* A node is updated by another administrator.
LEMMA CommandUpdateNodeWorks ==
  ASSUME Working, NEW n \in ap_nodes, NEW given, Agent!CommandUpdateNode(n, given)
  PROVE  Working'
<1>1. Holds(ap_sys) /\ Agent!Command(n) /\ n \in DOMAIN ap_sys.nodes
  BY DEF Working, Agent!CommandUpdateNode
<1> DEFINE plan == Agent!Plan(n, given, ap_sys.nodes).config
           config == [plan EXCEPT !.rest = "other"]
           item == [ap_sys.nodes[n] EXCEPT !.config = config]
<1>2. DOMAIN plan = {"uses", "creds", "rest"}
  BY <1>1, PlanIsConfigured DEF Holds
<1>3. ap_sys' = [ap_sys EXCEPT !.nodes[n].config = config]
  BY DEF Agent!CommandUpdateNode
<1> HIDE DEF plan
<1>4. DOMAIN config = {"uses", "creds", "rest"}
  BY <1>2
<1> HIDE DEF config
<1>5. /\ DOMAIN ap_sys' = DOMAIN ap_sys /\ ap_sys'.settings = ap_sys.settings
      /\ ap_sys'.network = ap_sys.network /\ ap_sys'.resources = ap_sys.resources
      /\ ap_sys'.nodes = [ap_sys.nodes EXCEPT ![n] = item]
  BY <1>1, <1>3 DEF Holds
<1>6. DOMAIN item = {"config", "status"} /\ DOMAIN item.config = {"uses", "creds", "rest"}
  BY <1>1, <1>4 DEF Holds
<1> HIDE DEF item
<1> QED BY <1>1, <1>5, <1>6, NodeChanged

\* A node is started or stopped by another administrator.
LEMMA CommandTurnNodeWorks ==
  ASSUME Working, NEW n \in ap_nodes, NEW status, Agent!CommandTurnNode(n, status)
  PROVE  Working'
<1>1. Holds(ap_sys) /\ Agent!Command(n) /\ n \in DOMAIN ap_sys.nodes
  BY DEF Working, Agent!CommandTurnNode
<1> DEFINE item == [ap_sys.nodes[n] EXCEPT !.status = status]
<1>2. /\ DOMAIN ap_sys' = DOMAIN ap_sys /\ ap_sys'.settings = ap_sys.settings
      /\ ap_sys'.network = ap_sys.network /\ ap_sys'.resources = ap_sys.resources
      /\ ap_sys'.nodes = [ap_sys.nodes EXCEPT ![n] = item]
  BY <1>1 DEF Holds, Agent!CommandTurnNode
<1>3. DOMAIN item = {"config", "status"} /\ DOMAIN item.config = {"uses", "creds", "rest"}
  BY <1>1 DEF Holds
<1> HIDE DEF item
<1> QED BY <1>1, <1>2, <1>3, NodeChanged

\* A node is deleted by another administrator.
LEMMA CommandDeleteNodeWorks ==
  ASSUME Working, NEW n \in ap_nodes, Agent!CommandDeleteNode(n)
  PROVE  Working'
<1>1. Holds(ap_sys) /\ Agent!Command(n)
  BY DEF Working, Agent!CommandDeleteNode
<1>2. /\ DOMAIN ap_sys' = DOMAIN ap_sys /\ ap_sys'.settings = ap_sys.settings
      /\ ap_sys'.network = ap_sys.network /\ ap_sys'.resources = ap_sys.resources
      /\ ap_sys'.nodes = Agent!Drop(ap_sys.nodes, {n})
  BY <1>1 DEF Holds, Agent!CommandDeleteNode
<1>3. /\ Holds(ap_sys') /\ DOMAIN ap_sys'.nodes = DOMAIN ap_sys.nodes \ {n}
      /\ \A x \in DOMAIN ap_sys'.nodes : ap_sys'.nodes[x] = ap_sys.nodes[x]
  BY <1>1, <1>2, DropNode
<1> QED BY <1>1, <1>2, <1>3, NodeCommandWorks

\* The network is changed by another administrator.
LEMMA CommandNetworkWorks ==
  ASSUME Working, NEW p \in Agent!NetworkParts, NEW v, Agent!CommandNetwork(p, v)
  PROVE  Working'
<1>1. Holds(ap_sys) /\ Agent!Command(p)
  BY DEF Working, Agent!CommandNetwork
<1>2. ap_sys' = Agent!InForce(p, v)
  BY DEF Agent!CommandNetwork
<1>3. /\ Holds(ap_sys') /\ ap_sys'.resources = ap_sys.resources /\ ap_sys'.nodes = ap_sys.nodes
      /\ ap_sys'.settings.capacity = ap_sys.settings.capacity
      /\ \A q \in Agent!NetworkParts \ {p} :
           /\ ap_sys'.network[q] = ap_sys.network[q]
           /\ ap_sys'.settings.network[q] = ap_sys.settings.network[q]
  BY <1>1, <1>2, SetNetwork
<1>4. /\ \A r \in Agent!Names : /\ r \in DOMAIN ap_sys'.resources <=> r \in DOMAIN ap_sys.resources
                                /\ ap_sys'.resources[r] = ap_sys.resources[r]
      /\ \A n \in ap_nodes : /\ n \in DOMAIN ap_sys'.nodes <=> n \in DOMAIN ap_sys.nodes
                             /\ ap_sys'.nodes[n] = ap_sys.nodes[n]
  BY <1>3
<1> QED BY <1>1, <1>3, <1>4, CommandWorks

\* Whatever another administrator does, the document stands where its phase says.
LEMMA CommandsWork ==
  ASSUME Working, Agent!Commands
  PROVE  Working'
<1>1. ASSUME NEW doc \in ap_documents, NEW r \in DOMAIN Agent!Section(doc.resources),
             Agent!CommandCreate(r, doc.resources[r])
      PROVE  Working'
  <2>1. r \in Agent!Names
    BY <1>1, DocumentAssumption DEF Decoded
  <2> QED BY <1>1, <2>1, CommandCreateWorks
<1>2. ASSUME NEW doc \in ap_documents, NEW n \in DOMAIN Agent!Section(doc.nodes),
             Agent!CommandCreateNode(n, doc.nodes[n]) \/ Agent!CommandUpdateNode(n, doc.nodes[n])
      PROVE  Working'
  <2>1. n \in ap_nodes
    BY <1>2, DocumentAssumption DEF Decoded
  <2> QED BY <1>2, <2>1, CommandCreateNodeWorks, CommandUpdateNodeWorks
<1>3. ASSUME NEW doc \in ap_documents, NEW p \in DOMAIN Agent!Section(doc.network),
             Agent!CommandNetwork(p, doc.network[p])
      PROVE  Working'
  <2>1. p \in Agent!NetworkParts
    BY <1>3, DocumentAssumption DEF Decoded
  <2> QED BY <1>3, <2>1, CommandNetworkWorks
<1>4. ASSUME NEW r \in Agent!Names, Agent!CommandDelete(r)
      PROVE  Working'
  BY <1>4, CommandDeleteWorks
<1>5. ASSUME NEW n \in ap_nodes, Agent!CommandDeleteNode(n)
      PROVE  Working'
  BY <1>5, CommandDeleteNodeWorks
<1>6. ASSUME NEW n \in ap_nodes, NEW status, Agent!CommandTurnNode(n, status)
      PROVE  Working'
  BY <1>6, CommandTurnNodeWorks
<1> QED BY <1>1, <1>2, <1>3, <1>4, <1>5, <1>6 DEF Agent!Commands

-----------------------------------------------------------------------------
(***************************************************************************)
(* The specification.                                                      *)
(***************************************************************************)
\* It is true when nothing has been applied yet.
LEMMA NothingApplied == Agent!Init => FollowsDocument
<1> SUFFICES ASSUME Agent!Init PROVE FollowsDocument
  OBVIOUS
<1>1. /\ ap_sys \in ap_systems /\ ap_before = ap_sys /\ ap_apply = Agent!Idle
      /\ ap_reply = Agent!NoReply /\ ap_touched = {}
  BY DEF Agent!Init
<1> QED BY <1>1, SystemAssumption DEF FollowsDocument

\* A document that passes its checks is begun on what is there.
LEMMA BeginFollows ==
  ASSUME FollowsDocument, NEW doc \in ap_documents, NEW prune \in BOOLEAN,
         Agent!Begin(doc, prune)
  PROVE  FollowsDocument'
<1>1. /\ ap_sys \in ap_systems /\ ap_sys = ap_before /\ Holds(ap_sys)
      /\ ap_reply = Agent!NoReply
      /\ ap_sys.settings.network = ap_sys.network
      /\ \A n \in DOMAIN ap_sys.nodes : ap_sys.nodes[n] # ap_omitted
  BY BeforeHolds DEF FollowsDocument, Agent!Begin
<1>2. /\ ap_sys' = ap_sys /\ ap_before' = ap_sys /\ ap_touched' = {} /\ ap_reply' = ap_reply
      /\ Agent!Accepted(doc, prune, ap_sys)
  BY DEF Agent!Begin
<1>3. /\ DOMAIN ap_apply' = Fields /\ At' = "settings" /\ Doc' = doc
      /\ ap_apply'.prune = prune /\ ap_apply'.base = ap_sys /\ Left' = {}
      /\ ap_apply'.completed = {} /\ Item' = ap_omitted
      /\ ap_apply'.plans = Agent!Plans(Agent!Section(doc.nodes), ap_sys.nodes)
  BY DEF Agent!Begin, Fields, At, Doc, Left, Item
<1>4. Begun'
  BY <1>1, <1>2, <1>3 DEF Begun, Fields, Phases
<1>5. ap_apply' # Agent!Idle
  BY <1>3 DEF Fields, Agent!Idle
<1>6. /\ Applied' = {} /\ Created' = {} /\ Pruned' = {} /\ PrunedNodes' = {}
      /\ \A n : Waiting(n)' /\ ~Turning(n)'
  BY <1>3 DEF Applied, Created, Pruned, PrunedNodes, Waiting, Turning
<1>7. LeftIsDue'
  BY <1>3 DEF LeftIsDue
<1>8. SettingsStand'
  BY <1>1, <1>2, <1>3, <1>6 DEF SettingsStand
<1>9. ResourcesStand'
  BY <1>1, <1>2, <1>6 DEF ResourcesStand
<1>10. NodesStand'
  BY <1>1, <1>2, <1>6 DEF NodesStand
<1>11. CompletedIsDone'
  BY <1>3, <1>6 DEF CompletedIsDone
<1>12. Holds(ap_sys')
  BY <1>1, <1>2
<1> QED
  BY <1>1, <1>2, <1>4, <1>5, <1>7, <1>8, <1>9, <1>10, <1>11, <1>12 DEF FollowsDocument, Stands

\* Nothing is applied, or what is applied has come as far as its phase says.
LEMMA WorkingFollows ==
  /\ FollowsDocument /\ ap_apply # Agent!Idle => Working
  /\ Working => FollowsDocument
BY DEF FollowsDocument, Working

\* A call that fails or is refused ends the document.
LEMMA FailureFollows ==
  ASSUME FollowsDocument,
         \/ Agent!Fails \/ Agent!NodeRefused \/ Agent!PruneRefused \/ Agent!Done
         \/ \E r \in Agent!Names : Agent!CreateRefused(r)
  PROVE  FollowsDocument'
<1>1. ap_apply # Agent!Idle
  <2>1. Agent!Idle.at = "idle"
    BY DEF Agent!Idle
  <2> QED BY <2>1 DEF Agent!Fails, Agent!NodeRefused, Agent!PruneRefused, Agent!Done,
             Agent!CreateRefused, Agent!Takes
<1>2. Working
  BY <1>1, WorkingFollows
<1>3. CASE Agent!Done
  <2>1. Agent!Ends("ok") /\ At = "pruneResources" /\ Left = {}
    BY <1>3 DEF Agent!Done, At, Left
  <2> QED BY <1>2, <2>1, Ending
<1>4. CASE \/ Agent!Fails \/ Agent!NodeRefused \/ Agent!PruneRefused
           \/ \E r \in Agent!Names : Agent!CreateRefused(r)
  <2>1. Agent!Ends("failed")
    BY <1>4 DEF Agent!Fails, Agent!NodeRefused, Agent!PruneRefused, Agent!CreateRefused
  <2> QED BY <1>2, <2>1, Ending
<1> QED BY <1>3, <1>4

\* Every step of a document, and every command meanwhile, leaves it where its phase says.
LEMMA StepsWork ==
  ASSUME FollowsDocument,
         \/ Agent!ReplaceSettings \/ Agent!ApplyNetwork \/ Agent!ApplyNodes \/ Agent!TurnNode
         \/ Agent!Answers \/ \E p \in Agent!NetworkParts : Agent!SetPart(p)
         \/ Agent!PruneNodes \/ Agent!PruneResources \/ Agent!Commands
         \/ \E r \in Agent!Names : Agent!Create(r) \/ Agent!PruneResource(r)
         \/ \E n \in ap_nodes : \/ Agent!CreateNode(n) \/ Agent!UpdateNode(n) \/ Agent!LeaveNode(n)
                               \/ Agent!UpdateLost(n) \/ Agent!PruneNode(n)
  PROVE  FollowsDocument'
<1>1. ap_apply # Agent!Idle
  <2>1. Agent!Idle.at = "idle"
    BY DEF Agent!Idle
  <2>2. CASE Agent!Commands
    BY <2>2 DEF Agent!Commands, Agent!Command, Agent!CommandCreate, Agent!CommandDelete,
                Agent!CommandCreateNode, Agent!CommandUpdateNode, Agent!CommandTurnNode,
                Agent!CommandDeleteNode, Agent!CommandNetwork
  <2>3. CASE ~Agent!Commands
    BY <2>1, <2>3
    DEF Agent!ReplaceSettings, Agent!ApplyNetwork, Agent!TurnNode, Agent!PruneNodes,
        Agent!PruneResources, Agent!Create, Agent!PruneResource, Agent!CreateNode,
        Agent!UpdateNode, Agent!LeaveNode, Agent!UpdateLost, Agent!PruneNode, Agent!Takes,
        Agent!ApplyNodes, Agent!Answers, Agent!SetPart
  <2> QED BY <2>2, <2>3
<1>2. Working
  BY <1>1, WorkingFollows
<1>3. ASSUME NEW r \in Agent!Names, Agent!Create(r) \/ Agent!PruneResource(r)
      PROVE  Working'
  BY <1>2, <1>3, CreateWorks, PruneResourceWorks
<1>4. ASSUME NEW n \in ap_nodes,
             \/ Agent!CreateNode(n) \/ Agent!UpdateNode(n) \/ Agent!LeaveNode(n)
             \/ Agent!UpdateLost(n) \/ Agent!PruneNode(n)
      PROVE  Working'
  BY <1>2, <1>4, CreateNodeWorks, UpdateNodeWorks, LeaveNodeWorks, UpdateLostWorks, PruneNodeWorks
<1>5. Working'
  BY <1>2, <1>3, <1>4, ReplaceSettingsWorks, ApplyNetworkWorks, SetPartWorks, ApplyNodesWorks,
     AnswersWorks, TurnNodeWorks, PruneNodesWorks, PruneResourcesWorks, CommandsWork
<1> QED BY <1>5 DEF Working, FollowsDocument

\* A step that changes nothing of it.
LEMMA NothingFollows ==
  ASSUME FollowsDocument, UNCHANGED <<ap_sys, ap_apply, ap_reply, ap_before, ap_touched>>
  PROVE  FollowsDocument'
<1>1. Holds(ap_sys') /\ ap_before' \in ap_systems
  BY DEF FollowsDocument
<1>2. CASE ap_apply # Agent!Idle
  <2>1. Working
    BY <1>2, WorkingFollows
  <2>2. Begun'
    BY <2>1 DEF Working, Begun, At, Doc
  <2>3. /\ At' = At /\ Left' = Left /\ Item' = Item /\ Doc' = Doc /\ Asked' = Asked
        /\ Defined' = Defined /\ Planned' = Planned /\ TheSettings' = TheSettings
        /\ Missing' = Missing /\ Spare' = Spare /\ Applied' = Applied
        /\ Created' = Created /\ Pruned' = Pruned /\ PrunedNodes' = PrunedNodes
        /\ \A n : Turning(n)' = Turning(n) /\ Waiting(n)' = Waiting(n)
    BY PhaseKept
  <2>4. LeftIsDue' /\ SettingsStand'
    BY <2>1, <2>3 DEF Working, Stands, LeftIsDue, SettingsStand, TheNetwork
  <2>5. ResourcesStand'
    BY <2>1, <2>3 DEF Working, Stands, ResourcesStand
  <2>6. NodesStand'
    BY <2>1, <2>3 DEF Working, Stands, NodesStand
  <2>7. CompletedIsDone'
    BY <2>1, <2>3 DEF Working, Stands, CompletedIsDone
  <2> QED BY <1>1, <2>1, <2>2, <2>4, <2>5, <2>6, <2>7 DEF Working, Stands, FollowsDocument
<1>3. CASE ap_apply = Agent!Idle /\ ap_reply = Agent!NoReply
  BY <1>1, <1>3 DEF FollowsDocument
<1>4. CASE ap_apply = Agent!Idle /\ ap_reply # Agent!NoReply
  <2>1. ReplyIsTrue /\ NeverDangling /\ CanBeRepeated
    BY <1>4 DEF FollowsDocument
  <2>2. ReplyIsTrue'
    <3>1. Agent!Converged' = Agent!Converged
      BY DEF Agent!Converged, Agent!NodeIsAs
    <3>2. Agent!Reported' = Agent!Reported
      BY DEF Agent!Reported, Agent!NodeIsAs, Agent!Changed
    <3> QED BY <2>1, <3>1, <3>2 DEF ReplyIsTrue, Agent!ReplyIsTrue
  <2>3. NeverDangling'
    BY <2>1 DEF NeverDangling, Agent!NeverDangling
  <2>4. CanBeRepeated'
    BY <2>1 DEF CanBeRepeated, Agent!CanBeRepeated
  <2> QED BY <1>1, <1>4, <2>2, <2>3, <2>4 DEF FollowsDocument
<1> QED BY <1>2, <1>3, <1>4

\* Every step follows the document.
LEMMA FollowsDocumentStep == FollowsDocument /\ [Agent!Next]_(Agent!vars) => FollowsDocument'
<1> SUFFICES ASSUME FollowsDocument, [Agent!Next]_(Agent!vars) PROVE FollowsDocument'
  OBVIOUS
<1>1. ASSUME UNCHANGED Agent!vars
      PROVE  FollowsDocument'
  BY <1>1, NothingFollows DEF Agent!vars
<1>2. CASE Agent!Applies
  <2>1. ASSUME NEW doc \in ap_documents, NEW prune \in BOOLEAN, Agent!Begin(doc, prune)
        PROVE  FollowsDocument'
    BY <2>1, BeginFollows
  <2> QED BY <1>2, <2>1, FailureFollows, StepsWork DEF Agent!Applies
<1>3. CASE Agent!Commands
  BY <1>3, StepsWork
<1>4. CASE Agent!Rest
  BY <1>1, <1>4 DEF Agent!Rest
<1> QED BY <1>1, <1>2, <1>3, <1>4 DEF Agent!Next

\* In every reachable state the document is followed.
LEMMA DocumentIsFollowed == Agent!Spec => []FollowsDocument
<1> QED BY NothingApplied, FollowsDocumentStep, PTL DEF Agent!Spec

\* What is followed is true, provided for, and can be repeated.
LEMMA FollowedMeansTrue == FollowsDocument => ReplyIsTrue /\ NeverDangling /\ CanBeRepeated
<1> SUFFICES ASSUME FollowsDocument PROVE ReplyIsTrue /\ NeverDangling /\ CanBeRepeated
  OBVIOUS
<1>1. CASE ap_reply = Agent!NoReply
  <2>1. ReplyIsTrue /\ CanBeRepeated
    BY <1>1 DEF ReplyIsTrue, Agent!ReplyIsTrue, CanBeRepeated, Agent!CanBeRepeated, Agent!NoReply
  <2>2. NeverDangling
    <3>1. CASE ap_apply = Agent!Idle
      BY <1>1, <3>1 DEF FollowsDocument, NeverDangling, Agent!NeverDangling
    <3>2. CASE ap_apply # Agent!Idle
      BY <3>2, WorkingFollows, StaysProvided
    <3> QED BY <3>1, <3>2
  <2> QED BY <2>1, <2>2
<1>2. CASE ap_reply # Agent!NoReply
  BY <1>2 DEF FollowsDocument
<1> QED BY <1>1, <1>2

(***************************************************************************)
(* In every reachable state the reply to a document is true: one that was  *)
(* applied is in force, apart from what other administrators changed       *)
(* meanwhile and from nodes whose update was lost; and if there are none   *)
(* of these, what it calls completed is done, and all that was changed in  *)
(* the settings, the network, the resources and the nodes is called so,    *)
(* but for the one item that the failing call was about.                   *)
(***************************************************************************)
THEOREM RepliesAreTrue == Agent!Spec => []ReplyIsTrue
BY DocumentIsFollowed, FollowedMeansTrue, PTL

(***************************************************************************)
(* In every reachable state, while nobody else interferes, each node has   *)
(* the resource that it uses, if it had it before.                         *)
(***************************************************************************)
THEOREM NoneIsLeftDangling == Agent!Spec => []NeverDangling
BY DocumentIsFollowed, FollowedMeansTrue, PTL

(***************************************************************************)
(* In every reachable state a document that was applied, or failed half    *)
(* way, passes its checks again, unless somebody else interfered or it     *)
(* leaves an address to the service.                                       *)
(***************************************************************************)
THEOREM DocumentsCanBeRepeated == Agent!Spec => []CanBeRepeated
BY DocumentIsFollowed, FollowedMeansTrue, PTL

-----------------------------------------------------------------------------
(***************************************************************************)
(* The mutexes of the calls.                                               *)
(***************************************************************************)
USE LockAssumption

\* In the beginning no mutex is held.
LEMMA InitHeld == Init => HeldByStage
BY DEF Init, HeldByStage, TypeOK, Mutexes, Stages, InTransaction, InChange

\* Every step keeps the mutexes with the stages.
LEMMA NextHeld == HeldByStage /\ [Next]_vars => HeldByStage'
<1> SUFFICES ASSUME HeldByStage, [Next]_vars PROVE HeldByStage'
  OBVIOUS
<1> USE DEF HeldByStage, TypeOK, Mutexes, Stages, InTransaction, InChange, Proceed, Free
<1>1. ASSUME NEW t \in Threads, Transact(t) PROVE HeldByStage'
  BY <1>1 DEF Transact
<1>2. ASSUME NEW t \in Threads, ForceDrain(t) PROVE HeldByStage'
  BY <1>2 DEF ForceDrain
<1>3. ASSUME NEW t \in Threads, Change(t) PROVE HeldByStage'
  BY <1>3 DEF Change
<1>4. ASSUME NEW t \in Threads, NEW n \in Nodes, Delete(t, n) PROVE HeldByStage'
  BY <1>4 DEF Delete
<1>5. ASSUME NEW t \in Threads, ForceDrainInbound(t) PROVE HeldByStage'
  BY <1>5 DEF ForceDrainInbound
<1>6. ASSUME NEW t \in Threads, List(t) PROVE HeldByStage'
  BY <1>6 DEF List
<1>7. ASSUME NEW t \in Threads, RefreshInboundBindings(t) PROVE HeldByStage'
  BY <1>7 DEF RefreshInboundBindings
<1>8. ASSUME NEW t \in Threads, NEW failed \in BOOLEAN, Save(t, failed) PROVE HeldByStage'
  BY <1>8 DEF Save
<1>9. ASSUME NEW t \in Threads, Return(t) PROVE HeldByStage'
  BY <1>9 DEF Return
<1>10. ASSUME NEW t \in Threads, LookUpPool(t) PROVE HeldByStage'
  BY <1>10 DEF LookUpPool
<1>11. ASSUME NEW t \in Threads, DeleteDedicatedPool(t) PROVE HeldByStage'
  BY <1>11 DEF DeleteDedicatedPool
<1>12. ASSUME NEW t \in Threads, NEW n \in Nodes, Create(t, n) PROVE HeldByStage'
  BY <1>12 DEF Create
<1>13. ASSUME NEW t \in Threads, NEW n \in Nodes, UndoCreate(t, n) PROVE HeldByStage'
  BY <1>13 DEF UndoCreate
<1>14. CASE UNCHANGED vars
  BY <1>14 DEF vars
<1> QED
  BY <1>1, <1>2, <1>3, <1>4, <1>5, <1>6, <1>7, <1>8, <1>9, <1>10, <1>11, <1>12, <1>13, <1>14
  DEF Next, Step

(***************************************************************************)
(* The mutexes follow the stages of the calls, in every reachable state.   *)
(***************************************************************************)
THEOREM MutexesFollowCalls == Spec => []HeldByStage
BY InitHeld, NextHeld, PTL DEF Spec

(***************************************************************************)
(* A call that deletes no node with a dedicated pool asks only for the     *)
(* nodes' mutex while it holds one, and whoever holds that asks for none.  *)
(***************************************************************************)
LEMMA HeldOrder == HeldByStage => OnlyDeletionsBlock
<1> SUFFICES ASSUME HeldByStage, NEW S \in (SUBSET Threads) \ {{}},
                    \A t \in S : deleting[t] \cap Dedicated = {}
             PROVE  \E t \in S : \A m \in Wants(t) : held[m] \notin S
  BY DEF OnlyDeletionsBlock
<1>1. ASSUME NEW t \in S
      PROVE  Wants(t) \subseteq {"nodes"}
  BY <1>1 DEF HeldByStage, Wants
<1>2. CASE held["nodes"] \in S
  <2>1. stage[held["nodes"]] = "changing"
    BY <1>2 DEF HeldByStage, InChange
  <2>2. Wants(held["nodes"]) = {}
    BY <2>1 DEF Wants
  <2> QED BY <1>2, <2>2
<1>3. CASE held["nodes"] \notin S
  <2>1. PICK t \in S : TRUE
    OBVIOUS
  <2> QED BY <1>1, <1>3, <2>1
<1> QED BY <1>2, <1>3

(***************************************************************************)
(* A circular wait always has a deletion of a node with a dedicated pool   *)
(* in it: the transactions and the node operations alone cannot deadlock.  *)
(***************************************************************************)
THEOREM DeadlockNeedsDeletion == Spec => []OnlyDeletionsBlock
BY MutexesFollowCalls, HeldOrder, PTL
=============================================================================
