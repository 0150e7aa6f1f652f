--------------------------- MODULE Administration ---------------------------
(***************************************************************************)
(* The documents that the agent applies for an administrator, an instance  *)
(* of its module over variables and constants of its own.  Its properties  *)
(* are checked by the run of MCServices and proved in                      *)
(* AdministrationProofs.                                                   *)
(***************************************************************************)
CONSTANTS ap_templates, ap_fixed, ap_pools, ap_nodes, ap_values, ap_omitted, ap_documents,
          ap_systems, ap_others_bound
VARIABLES ap_sys, ap_apply, ap_reply, ap_before, ap_touched, ap_others

Agent == INSTANCE AgentApply WITH
  Templates <- ap_templates, Fixed <- ap_fixed, Pools <- ap_pools, Nodes <- ap_nodes,
  Values <- ap_values, Omitted <- ap_omitted, Documents <- ap_documents,
  Systems <- ap_systems, MaxOthers <- ap_others_bound,
  sys <- ap_sys, apply <- ap_apply, reply <- ap_reply, before <- ap_before,
  touched <- ap_touched, others <- ap_others

\* A reply names resources and nodes with their kinds.
NamesAreApart ==
  /\ Agent!Names \cap ap_nodes = {}
  /\ ({"settings"} \cup Agent!NetworkParts) \cap (Agent!Names \cup ap_nodes) = {}
  /\ ap_omitted \notin {"settings"} \cup Agent!NetworkParts \cup Agent!Names \cup ap_nodes
ASSUME NamingAssumption == NamesAreApart

\* What the decoder lets pass: a template has a prefix (agent.go
\* preflightAgentResources), a node says what becomes of its credentials.
Decoded(doc) ==
  /\ DOMAIN doc = {"settings", "network", "resources", "nodes"}
  /\ DOMAIN Agent!Section(doc.network) \subseteq Agent!NetworkParts
  /\ LET resources == Agent!Section(doc.resources) IN
     /\ DOMAIN resources \subseteq Agent!Names
     /\ \A r \in DOMAIN resources :
          /\ DOMAIN resources[r] = {"needs", "is"}
          /\ r \in ap_templates => resources[r].is # ap_omitted
  /\ LET nodes == Agent!Section(doc.nodes) IN
     /\ DOMAIN nodes \subseteq ap_nodes
     /\ \A n \in DOMAIN nodes :
          /\ DOMAIN nodes[n] = {"uses", "auth", "status"}
          /\ nodes[n].auth \in {"preserve", "set", "generate", "none"}
ASSUME DocumentAssumption == \A doc \in ap_documents : Decoded(doc)

\* What the services hold: records, functions of names.
Holds(s) ==
  /\ DOMAIN s = {"settings", "network", "resources", "nodes"}
  /\ DOMAIN s.settings = {"capacity", "network"}
  /\ DOMAIN s.network = Agent!NetworkParts /\ DOMAIN s.settings.network = Agent!NetworkParts
  /\ DOMAIN s.resources \subseteq Agent!Names
  /\ DOMAIN s.nodes \subseteq ap_nodes
  /\ \A n \in DOMAIN s.nodes :
       /\ DOMAIN s.nodes[n] = {"config", "status"}
       /\ DOMAIN s.nodes[n].config = {"uses", "creds", "rest"}

\* Before a document the network that is saved is the one in use.
ASSUME SystemAssumption ==
  \A s \in ap_systems : /\ Holds(s) /\ s.settings.network = s.network
                        /\ \A n \in DOMAIN s.nodes : s.nodes[n] # ap_omitted

\* What the reply to a document says is so (agent.go).
ReplyIsTrue == Agent!ReplyIsTrue

\* No step of a document takes from a node what it uses (agent.go).
NeverDangling == Agent!NeverDangling

\* A document passes its checks again after it was applied or failed (agent.go).
CanBeRepeated == Agent!CanBeRepeated
=============================================================================
