----------------------------- MODULE AgentApply -----------------------------
(***************************************************************************)
(* admin/agent.go: a configuration document is applied to the service.     *)
(* The whole document is checked against a snapshot first (a refusal or a  *)
(* dry run changes nothing); then settings, resources, network and nodes   *)
(* follow in this order, one service call at a time, and with "prune" what *)
(* the document does not name is deleted.  The first call that fails ends  *)
(* it: nothing is undone, and the reply lists what was completed.          *)
(*                                                                         *)
(* The services are atomic and may refuse any call (their own modules show *)
(* what they do inside).  Some may still fail when they have done what     *)
(* they were asked: the network, when the change cannot be put in the log  *)
(* (operations_service.go:237, 265), and the nodes, when what they cannot  *)
(* save cannot be undone either; so their calls take effect in one step    *)
(* and answer in another.  Settings and resources never do that.           *)
(* Between two calls another administrator may use the services, with the  *)
(* agent's commands or the web handlers.                                   *)
(*                                                                         *)
(* A resource definition is what it needs (templates, pinned addresses)    *)
(* and one value: a template's prefix, a fixed address, a pool's capacity. *)
(* A node's configuration is the resource it uses, its credentials and the *)
(* rest.  A field that a document leaves out is Omitted.  Dedicated pools  *)
(* are left out: deleting a node with one never ends (see LockOrder).      *)
(***************************************************************************)
EXTENDS Naturals, FiniteSets

CONSTANTS Templates, Fixed, Pools,  \* resource names
          Nodes,
          Values,      \* definitions, capacities, settings
          Omitted,
          Documents,   \* the documents that are applied
          Systems,     \* the states of the services in which applying begins
          MaxOthers    \* bound: calls of the other administrator

VARIABLES
  sys,        \* settings with the network as saved, the network in use, resources, nodes
  apply,      \* the document being applied and how far
  reply,      \* what the last one was told
  before,     \* history: sys when the last one began
  touched,    \* history: what the other administrator changed meanwhile, and lost updates
  others

vars == <<sys, apply, reply, before, touched, others>>
Names == Templates \cup Fixed \cup Pools
NetworkParts == {"nat64", "resolvers"}  \* what there is of the network
Idle == [at |-> "idle"]
NoReply == [result |-> "none"]

Init ==
  /\ sys \in Systems /\ before = sys
  /\ apply = Idle /\ reply = NoReply
  /\ touched = {} /\ others = 0

Put(f, key, value) == [x \in DOMAIN f \cup {key} |-> IF x = key THEN value ELSE f[x]]
Drop(f, keys) == [x \in DOMAIN f \ keys |-> f[x]]
Section(s) == IF s = Omitted THEN << >> ELSE s

(***************************************************************************)
(* The checks                                                              *)
(***************************************************************************)
\* mergeAgentSettings: fields that are left out keep their value
Merged(settings, doc) ==
  IF doc.settings = Omitted THEN settings ELSE [settings EXCEPT !.capacity = doc.settings]

\* agentPoolCapacity
Capacity(item, settings) == IF item.is = Omitted THEN settings.capacity ELSE item.is

\* a document that prunes must hold everything that its resources need
PrunedDependencies(section) ==
  \A r \in DOMAIN section : section[r].needs \subseteq DOMAIN section

\* preflightAgentResources: what is named twice must be the same, what is needed
\* must be there or in the document, and pins must be of the pool's template
Same(r, item, existing, settings) ==
  /\ item.needs = existing.needs
  /\ existing.is = IF r \in Pools THEN Capacity(item, settings) ELSE item.is

ResourcesFit(section, existing, settings) ==
  LET known(r) == IF r \in DOMAIN section THEN section[r] ELSE existing[r] IN
  \A r \in DOMAIN section :
    /\ section[r].needs \subseteq DOMAIN section \cup DOMAIN existing
    /\ r \in DOMAIN existing => Same(r, section[r], existing[r], settings)
    /\ \A f \in section[r].needs \cap Fixed :
         known(f).needs = section[r].needs \cap Templates

\* preflightAgentNodes: only an existing node has credentials to preserve
NodesFit(section, nodes) ==
  \A n \in DOMAIN section : section[n].auth = "preserve" => n \in DOMAIN nodes

\* buildAgentNodePlans: an existing node keeps what the document leaves out
Credentials(item, config) ==
  CASE item.auth = "preserve" -> config.creds
    [] item.auth = "set" -> "given"
    [] item.auth = "generate" -> "made"
    [] item.auth = "none" -> "none"

Plan(n, item, nodes) ==
  LET config == IF n \in DOMAIN nodes THEN nodes[n].config
                ELSE [uses |-> Omitted, creds |-> "none", rest |-> "default"]
  IN  [config |-> [config EXCEPT !.uses = IF item.uses = Omitted THEN @ ELSE item.uses,
                                 !.creds = Credentials(item, config)],
       status |-> item.status,
       existing |-> IF n \in DOMAIN nodes THEN nodes[n] ELSE Omitted,
       fresh |-> item.auth = "generate"]

Plans(section, nodes) == [n \in DOMAIN section |-> Plan(n, section[n], nodes)]

\* Mutant: resources that will be pruned are taken for there
ReferencesFitUnpruned(doc, plans, prune, s) ==
  LET catalog == DOMAIN s.resources \cup DOMAIN Section(doc.resources)
      kept == IF prune /\ doc.nodes # Omitted THEN {} ELSE DOMAIN s.nodes \ DOMAIN plans
  IN  /\ \A n \in DOMAIN plans : plans[n].config.uses \in catalog
      /\ \A n \in kept : s.nodes[n].config.uses \in catalog

\* preflightAgentNodeResources: the nodes there will be refer to resources there
\* will be
ReferencesFit(doc, plans, prune, s) ==
  LET catalog == DOMAIN Section(doc.resources) \cup
                 (IF prune /\ doc.resources # Omitted THEN {} ELSE DOMAIN s.resources)
      kept == IF prune /\ doc.nodes # Omitted THEN {} ELSE DOMAIN s.nodes \ DOMAIN plans
  IN  (doc.resources # Omitted \/ doc.nodes # Omitted) =>
        /\ \A n \in DOMAIN plans : plans[n].config.uses \in catalog
        /\ \A n \in kept : s.nodes[n].config.uses \in catalog

\* applyDocument until its first change: all of it on what the services hold
Accepted(doc, prune, s) ==
  LET settings == Merged(s.settings, doc)
      plans == Plans(Section(doc.nodes), s.nodes)
  IN  /\ prune => PrunedDependencies(Section(doc.resources))
      /\ ResourcesFit(Section(doc.resources), s.resources, settings)
      /\ NodesFit(Section(doc.nodes), s.nodes)
      /\ \A n \in DOMAIN plans : plans[n].config.uses # Omitted
      /\ ReferencesFit(doc, plans, prune, s)

(***************************************************************************)
(* Applying                                                                *)
(***************************************************************************)
\* The document passes its checks and is begun.  One that is refused, or only tried,
\* or for which no credentials can be made, changes nothing
Begin(doc, prune) ==
  /\ apply = Idle /\ reply = NoReply
  /\ Accepted(doc, prune, sys)
  /\ apply' = [at |-> "settings", doc |-> doc, prune |-> prune, base |-> sys,
               plans |-> Plans(Section(doc.nodes), sys.nodes), todo |-> {},
               item |-> Omitted, completed |-> {}]
  /\ before' = sys /\ touched' = {}
  /\ UNCHANGED <<sys, reply, others>>

Goes(next, done) ==
  /\ apply' = [next EXCEPT !.completed = @ \cup done]
  /\ UNCHANGED <<reply, before, touched, others>>

\* The reply
Ends(result) ==
  /\ reply' = [result |-> result, completed |-> apply.completed,
               doc |-> apply.doc, prune |-> apply.prune, about |-> apply.item]
  /\ apply' = Idle
  /\ UNCHANGED <<sys, before, touched, others>>

\* a service fails, or refuses for a reason of its own; what it was asked may be done
Fails == apply # Idle /\ Ends("failed")

\* A call is about one item, whose answer is awaited when the call has taken effect
InHand(item, at) ==
  /\ apply' = [apply EXCEPT !.at = at, !.item = item]
  /\ UNCHANGED <<reply, before, touched, others>>

Takes(stage, item) == apply.at = stage /\ apply.item = Omitted /\ item \in apply.todo

\* the call has succeeded
Answers ==
  /\ apply.at \in {"network", "nodes", "pruneNodes"} /\ apply.item # Omitted
  /\ Goes([apply EXCEPT !.todo = @ \ {apply.item}, !.item = Omitted], {apply.item})
  /\ UNCHANGED sys

\* ConfigStore.Replace writes back the whole snapshot, changed by the document
ReplaceSettings ==
  LET settings == Merged(apply.base.settings, apply.doc)
      next == [apply EXCEPT !.at = "creates",
                 !.todo = DOMAIN Section(apply.doc.resources) \ DOMAIN apply.base.resources]
  IN
  /\ apply.at = "settings"
  /\ IF settings # apply.base.settings
     THEN sys' = [sys EXCEPT !.settings = settings] /\ Goes(next, {"settings"})
     ELSE UNCHANGED sys /\ Goes(next, {})

\* the remaining ones of the first kind that has any
First(todo, kinds) ==
  LET k == CHOOSE i \in 1..3 : /\ todo \cap kinds[i] # {}
                               /\ \A j \in 1..(i - 1) : todo \cap kinds[j] = {}
  IN  IF todo = {} THEN {} ELSE todo \cap kinds[k]

Creatable(r, item) ==
  r \notin DOMAIN sys.resources /\ item.needs \subseteq DOMAIN sys.resources

\* what the store makes of a definition: an address that is left out is chosen
Stored(r, item, settings) ==
  {[needs |-> item.needs, is |-> v] :
     v \in IF r \in Pools THEN {Capacity(item, settings)}
           ELSE IF item.is = Omitted THEN Values ELSE {item.is}}

\* Mutant: pools get the default capacity that was in force before
CreateWithOldDefault(r) ==
  /\ apply.at = "creates" /\ r \in First(apply.todo, <<Templates, Fixed, Pools>>)
  /\ Creatable(r, apply.doc.resources[r])
  /\ \E d \in Stored(r, apply.doc.resources[r], apply.base.settings) :
       sys' = [sys EXCEPT !.resources = Put(@, r, d)]
  /\ Goes([apply EXCEPT !.todo = @ \ {r}], {r})

\* applyResourceCreates: what the snapshot lacked, templates first and pools last
Create(r) ==
  /\ apply.at = "creates" /\ r \in First(apply.todo, <<Templates, Fixed, Pools>>)
  /\ Creatable(r, apply.doc.resources[r])
  /\ \E d \in Stored(r, apply.doc.resources[r], Merged(apply.base.settings, apply.doc)) :
       sys' = [sys EXCEPT !.resources = Put(@, r, d)]
  /\ Goes([apply EXCEPT !.todo = @ \ {r}], {r})

\* another administrator has created it, or deleted what it needs
CreateRefused(r) ==
  /\ apply.at = "creates" /\ r \in First(apply.todo, <<Templates, Fixed, Pools>>)
  /\ ~Creatable(r, apply.doc.resources[r])
  /\ Ends("failed")

\* applyNetwork: what the document says of the network
ApplyNetwork ==
  /\ apply.at = "creates" /\ apply.todo = {}
  /\ Goes([apply EXCEPT !.at = "network", !.todo = DOMAIN Section(apply.doc.network)], {})
  /\ UNCHANGED sys

InForce(p, v) == [sys EXCEPT !.network[p] = v, !.settings.network[p] = v]

\* SetManualNAT64, then UpdateResolvers: used and saved (and put in the log)
SetPart(p) ==
  /\ Takes("network", p) /\ (p = "resolvers" => "nat64" \notin apply.todo)
  /\ sys' = InForce(p, apply.doc.network[p])
  /\ InHand(p, "network")

\* applyNodes: the plans, in their order
ApplyNodes ==
  /\ apply.at = "network" /\ apply.todo = {}
  /\ Goes([apply EXCEPT !.at = "nodes", !.todo = DOMAIN apply.plans], {})
  /\ UNCHANGED sys

\* A node that was answered with this status is done, or it is turned to the one it
\* should have
AfterStatus(n, status) == IF status = apply.plans[n].status THEN "nodes" ELSE "status"

\* applyNodes: a new node is created, and runs
CreateNode(n) ==
  /\ Takes("nodes", n) /\ apply.plans[n].existing = Omitted /\ n \notin DOMAIN sys.nodes
  /\ sys' = [sys EXCEPT !.nodes =
               Put(@, n, [config |-> apply.plans[n].config, status |-> "running"])]
  /\ InHand(n, AfterStatus(n, "running"))

Changes(plan) == plan.fresh \/ plan.config # plan.existing.config

\* applyNodes: an existing one is updated when the plan differs from what the plan was
\* built on.  What an update returns is the node as it is
UpdateNode(n) ==
  /\ Takes("nodes", n) /\ apply.plans[n].existing # Omitted
  /\ Changes(apply.plans[n]) /\ n \in DOMAIN sys.nodes
  /\ sys' = [sys EXCEPT !.nodes[n].config = apply.plans[n].config]
  /\ InHand(n, AfterStatus(n, sys.nodes[n].status))

\* of one that is not updated the plan's is taken
LeaveNode(n) ==
  /\ Takes("nodes", n) /\ apply.plans[n].existing # Omitted
  /\ ~Changes(apply.plans[n])
  /\ IF apply.plans[n].existing.status = apply.plans[n].status
     THEN Goes([apply EXCEPT !.todo = @ \ {n}], {n})
     ELSE InHand(n, "status")
  /\ UNCHANGED sys

\* An update that could not be saved, and was undone or could not be undone, is taken for
\* done when an old runtime could not be cleaned up either (persistent.go:93-100,
\* agent.go:505); the node that it returns is empty, and so has no status
UpdateLost(n) ==
  /\ Takes("nodes", n) /\ apply.plans[n].existing # Omitted
  /\ Changes(apply.plans[n]) /\ n \in DOMAIN sys.nodes
  /\ sys' \in {sys, [sys EXCEPT !.nodes[n].config = apply.plans[n].config]}
  /\ apply' = [apply EXCEPT !.at = "status", !.item = n]
  /\ touched' = touched \cup {n}
  /\ UNCHANGED <<reply, before, others>>

\* Mutant: the node is reported before it has its status
TurnNodeReported ==
  /\ apply.at = "status" /\ apply.item \in DOMAIN sys.nodes
  /\ \/ apply.item \notin apply.completed /\ UNCHANGED sys /\ Goes(apply, {apply.item})
     \/ /\ apply.item \in apply.completed
        /\ sys' = [sys EXCEPT !.nodes[apply.item].status = apply.plans[apply.item].status]
        /\ InHand(apply.item, "nodes")

\* applyNodes: Start or Stop
TurnNode ==
  /\ apply.at = "status" /\ apply.item \in DOMAIN sys.nodes
  /\ sys' = [sys EXCEPT !.nodes[apply.item].status = apply.plans[apply.item].status]
  /\ InHand(apply.item, "nodes")

\* another administrator has created it, or deleted it
NodeRefused ==
  /\ \/ apply.at = "status" /\ apply.item \notin DOMAIN sys.nodes
     \/ \E n \in Nodes :
          /\ Takes("nodes", n)
          /\ LET plan == apply.plans[n] IN
             IF plan.existing = Omitted THEN n \in DOMAIN sys.nodes
             ELSE Changes(plan) /\ n \notin DOMAIN sys.nodes
  /\ Ends("failed")

\* pruneNodes: the nodes there are now
PruneNodes ==
  /\ apply.at = "nodes" /\ apply.todo = {}
  /\ Goes([apply EXCEPT !.at = "pruneNodes",
             !.todo = IF apply.prune /\ apply.doc.nodes # Omitted
                      THEN DOMAIN sys.nodes \ DOMAIN apply.doc.nodes ELSE {}], {})
  /\ UNCHANGED sys

PruneNode(n) ==
  /\ Takes("pruneNodes", n) /\ n \in DOMAIN sys.nodes
  /\ sys' = [sys EXCEPT !.nodes = Drop(@, {n})]
  /\ InHand(n, "pruneNodes")

\* pruneResources: the resources of the snapshot, except pools that are gone since
PruneResources ==
  LET extra == DOMAIN apply.base.resources \ DOMAIN Section(apply.doc.resources)
      there == {r \in extra : r \in Pools => r \in DOMAIN sys.resources}
  IN
  /\ apply.at = "pruneNodes" /\ apply.todo = {}
  /\ Goes([apply EXCEPT !.at = "pruneResources",
             !.todo = IF apply.prune /\ apply.doc.resources # Omitted THEN there ELSE {}], {})
  /\ UNCHANGED sys

\* the store keeps what others need
Deletable(r) ==
  /\ r \in DOMAIN sys.resources
  /\ \A other \in DOMAIN sys.resources : r \notin sys.resources[other].needs

PruneResource(r) ==
  /\ apply.at = "pruneResources" /\ r \in First(apply.todo, <<Pools, Fixed, Templates>>)
  /\ Deletable(r)
  /\ sys' = [sys EXCEPT !.resources = Drop(@, {r})]
  /\ Goes([apply EXCEPT !.todo = @ \ {r}], {r})

PruneRefused ==
  /\ \/ \E n \in Nodes : Takes("pruneNodes", n) /\ n \notin DOMAIN sys.nodes
     \/ /\ apply.at = "pruneResources"
        /\ \E r \in First(apply.todo, <<Pools, Fixed, Templates>>) : ~Deletable(r)
  /\ Ends("failed")

Done == apply.at = "pruneResources" /\ apply.todo = {} /\ Ends("ok")

(***************************************************************************)
(* The other administrator: the commands of the agent and the web handlers *)
(***************************************************************************)
\* (before and after, what it does is another state to begin in)
Command(what) ==
  /\ apply # Idle /\ others < MaxOthers /\ others' = others + 1
  /\ touched' = touched \cup {what}
  /\ UNCHANGED <<apply, reply, before>>

CommandCreate(r, item) ==
  /\ Creatable(r, item)
  /\ \E d \in Stored(r, item, sys.settings) : sys' = [sys EXCEPT !.resources = Put(@, r, d)]
  /\ Command(r)

CommandDelete(r) ==
  /\ Deletable(r) /\ sys' = [sys EXCEPT !.resources = Drop(@, {r})]
  /\ Command(r)

\* createNode, and POST /api/nodes; the handlers of nodes do not check what it uses
CommandCreateNode(n, item) ==
  /\ n \notin DOMAIN sys.nodes /\ item.auth # "preserve" /\ item.uses # Omitted
  /\ sys' = [sys EXCEPT !.nodes =
               Put(@, n, [config |-> Plan(n, item, sys.nodes).config, status |-> "running"])]
  /\ Command(n)

\* updateNode, and PUT /api/nodes
CommandUpdateNode(n, item) ==
  /\ n \in DOMAIN sys.nodes
  /\ sys' = [sys EXCEPT !.nodes[n].config = [Plan(n, item, sys.nodes).config EXCEPT !.rest = "other"]]
  /\ Command(n)

\* nodeStatusCommand, and the start and stop handlers
CommandTurnNode(n, status) ==
  /\ n \in DOMAIN sys.nodes
  /\ sys' = [sys EXCEPT !.nodes[n].status = status]
  /\ Command(n)

CommandDeleteNode(n) ==
  /\ n \in DOMAIN sys.nodes /\ sys' = [sys EXCEPT !.nodes = Drop(@, {n})]
  /\ Command(n)

\* setNAT64, replaceResolvers and their handlers
CommandNetwork(p, v) == sys' = InForce(p, v) /\ Command(p)

\* what the administrators define is what the documents define
Commands ==
  \/ \E doc \in Documents :
       \/ \E r \in DOMAIN Section(doc.resources) : CommandCreate(r, doc.resources[r])
       \/ \E n \in DOMAIN Section(doc.nodes) : \/ CommandCreateNode(n, doc.nodes[n])
                                              \/ CommandUpdateNode(n, doc.nodes[n])
       \/ \E p \in DOMAIN Section(doc.network) : CommandNetwork(p, doc.network[p])
  \/ \E r \in Names : CommandDelete(r)
  \/ \E n \in Nodes : \/ CommandDeleteNode(n)
                      \/ \E status \in {"running", "stopped"} : CommandTurnNode(n, status)

\* nothing is left to apply
Rest == apply = Idle /\ UNCHANGED vars

Applies ==
  \/ \E doc \in Documents, prune \in BOOLEAN : Begin(doc, prune)
  \/ ReplaceSettings \/ ApplyNetwork \/ ApplyNodes \/ TurnNode \/ NodeRefused
  \/ \E p \in NetworkParts : SetPart(p)
  \/ Answers \/ PruneNodes \/ PruneResources \/ PruneRefused \/ Done \/ Fails
  \/ \E r \in Names : Create(r) \/ CreateRefused(r) \/ PruneResource(r)
  \/ \E n \in Nodes : CreateNode(n) \/ UpdateNode(n) \/ LeaveNode(n) \/ UpdateLost(n)
                     \/ PruneNode(n)
Next == Applies \/ Commands \/ Rest
Spec == Init /\ [][Next]_vars

(***************************************************************************)
(* Properties                                                              *)
(***************************************************************************)
\* The definition that a resource has is the one the document gives it
IsAs(r, item, s, settings) ==
  /\ r \in DOMAIN s.resources
  /\ Same(r, item, s.resources[r], settings) \/ (r \in Fixed /\ item.is = Omitted)

NodeIsAs(n, item, s) ==
  /\ n \in DOMAIN s.nodes /\ s.nodes[n].status = item.status
  /\ s.nodes[n].config.uses = item.uses \/ item.uses = Omitted
  /\ s.nodes[n].config.creds = IF item.auth = "preserve" THEN before.nodes[n].config.creds
                               ELSE Credentials(item, Omitted)

\* What nobody else changed meanwhile is as the document says; and if it prunes, nothing else
\* is there.
Converged ==
  LET doc == reply.doc
      settings == Merged(before.settings, doc)
      network == Section(doc.network)
      resources == Section(doc.resources)
      nodes == Section(doc.nodes)
  IN
  /\ sys.settings.capacity = settings.capacity
  /\ \A p \in NetworkParts \ touched :
       /\ sys.network[p] = sys.settings.network[p]
       /\ p \in DOMAIN network => sys.network[p] = network[p]
  /\ \A r \in DOMAIN resources \ touched : IsAs(r, resources[r], sys, settings)
  /\ \A n \in DOMAIN nodes \ touched : NodeIsAs(n, nodes[n], sys)
  /\ reply.prune => /\ doc.nodes = Omitted \/ DOMAIN sys.nodes \subseteq DOMAIN nodes \cup touched
                    /\ doc.resources = Omitted \/ DOMAIN sys.resources \subseteq
                                                    DOMAIN resources \cup touched

\* What nobody else changed is not as it was before.
Changed ==
  {p \in NetworkParts : sys.network[p] # before.network[p] \/ sys.settings.network[p] # before.settings.network[p]}
    \cup {r \in Names : r \in DOMAIN sys.resources <=> r \notin DOMAIN before.resources}
    \cup {n \in Nodes : \/ (n \in DOMAIN sys.nodes <=> n \notin DOMAIN before.nodes)
                       \/ (n \in DOMAIN sys.nodes /\ sys.nodes[n] # before.nodes[n])}
    \cup (IF sys.settings.capacity # before.settings.capacity THEN {"settings"} ELSE {})

\* What the reply calls completed is done; and what changed is called so, except the one
\* item that the failing call was about.
Reported ==
  LET settings == Merged(before.settings, reply.doc)
      network == Section(reply.doc.network)
      resources == Section(reply.doc.resources)
      nodes == Section(reply.doc.nodes)
  IN
  /\ "settings" \in reply.completed => sys.settings.capacity = settings.capacity
  /\ \A p \in reply.completed \cap NetworkParts :
       p \in DOMAIN network /\ sys.network[p] = network[p] /\ sys.settings.network[p] = network[p]
  /\ \A n \in reply.completed \cap DOMAIN nodes : NodeIsAs(n, nodes[n], sys)
  /\ \A r \in reply.completed \cap Names : r \in DOMAIN sys.resources <=> r \in DOMAIN resources
  /\ Changed \subseteq reply.completed \cup {reply.about}

\* What the reply says is true: a document that was applied is in force, apart from what other
\* administrators changed meanwhile and from nodes whose update was lost; and when there are
\* none of these, what it calls completed is done, and all that was changed in the settings,
\* the network, the resources and the nodes is called completed, except what the failing call
\* was about, wherever that was (agent.go applyDocument).
ReplyIsTrue ==
  /\ reply.result = "ok" => Converged
  /\ reply # NoReply /\ touched = {} => Reported

Provided(s) == \A n \in DOMAIN s.nodes : s.nodes[n].config.uses \in DOMAIN s.resources

\* While nobody else interferes no step of a document takes from a node the resource
\* that it uses: what nodes use is created before them and deleted after them.
NeverDangling == touched = {} /\ Provided(before) => Provided(sys)

\* A document passes its checks again after it was applied, and after it failed half
\* way, whatever had been done: "same name, same definition" counts as converged
\* (fixed addresses that were left to the service excepted: they conflict).
Repeatable(doc) ==
  \A r \in DOMAIN Section(doc.resources) : r \in Fixed => doc.resources[r].is # Omitted
CanBeRepeated ==
  reply # NoReply /\ touched = {} /\ Repeatable(reply.doc) =>
    Accepted(reply.doc, reply.prune, sys)
=============================================================================
