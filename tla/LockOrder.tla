------------------------------ MODULE LockOrder ------------------------------
(***************************************************************************)
(* The two mutexes that calls nest: the resource coordinator's and the     *)
(* persistent node manager's.  A resource transaction holds the first      *)
(* while it lists the nodes and refreshes their bindings under the second; *)
(* deleting a node that has a dedicated pool (at an administrator's wish,  *)
(* or because it could not be saved when it was created) holds the second  *)
(* while it deletes the pool in a transaction.  The pool is found: the     *)
(* nodes of Dedicated have one until a deletion removes it.                *)
(***************************************************************************)
EXTENDS FiniteSets

CONSTANTS
  Threads,     \* the goroutines that make calls: HTTP handlers, the drain queue
  Nodes,       \* the nodes
  Dedicated,   \* the nodes that have a dedicated pool
  Nobody       \* the holder of a free mutex

ASSUME LockAssumption == Dedicated \subseteq Nodes /\ Nobody \notin Threads

VARIABLES
  stage,       \* thread -> how far its call has come
  deleting,    \* thread -> the nodes its call deletes
  held,        \* mutex -> the thread that holds it
  nodes,       \* the nodes that are listed
  pools        \* the nodes whose dedicated pool exists

vars == <<stage, deleting, held, nodes, pools>>

Mutexes == {"resources", "nodes"}

Stages == {"returned", "changing", "cleaning", "starting", "listing", "refreshing",
           "saving", "draining"}

\* The shape of the state.
TypeOK ==
  /\ stage \in [Threads -> Stages]
  /\ deleting \in [Threads -> SUBSET Nodes]
  /\ held \in [Mutexes -> Threads \cup {Nobody}]
  /\ nodes \subseteq Nodes
  /\ pools \subseteq Dedicated

Init ==
  /\ stage = [t \in Threads |-> "returned"]
  /\ deleting = [t \in Threads |-> {}]
  /\ held = [m \in Mutexes |-> Nobody]
  /\ nodes \in SUBSET Nodes
  /\ pools = Dedicated

Free(m) == held[m] = Nobody

Proceed(t, from, to) == stage[t] = from /\ stage' = [stage EXCEPT ![t] = to]

-----------------------------------------------------------------------------
(***************************************************************************)
(* A call on the resources.  Listing the nodes and refreshing their        *)
(* bindings take the nodes' mutex and give it back.                        *)
(***************************************************************************)
Transact(t) ==
  /\ Proceed(t, "returned", "listing")
  /\ Free("resources")
  /\ held' = [held EXCEPT !["resources"] = t]
  /\ UNCHANGED <<deleting, nodes, pools>>

\* A forced drain closes connections under the nodes' mutex before its transaction.
ForceDrain(t) ==
  /\ Proceed(t, "returned", "draining")
  /\ Free("resources")
  /\ held' = [held EXCEPT !["resources"] = t]
  /\ UNCHANGED <<deleting, nodes, pools>>

ForceDrainInbound(t) ==
  /\ Proceed(t, "draining", "listing")
  /\ Free("nodes")
  /\ UNCHANGED <<deleting, held, nodes, pools>>

List(t) ==
  /\ Proceed(t, "listing", "refreshing")
  /\ Free("nodes")
  /\ UNCHANGED <<deleting, held, nodes, pools>>

RefreshInboundBindings(t) ==
  /\ Proceed(t, "refreshing", "saving")
  /\ Free("nodes")
  /\ UNCHANGED <<deleting, held, nodes, pools>>

\* The transaction commits, or fails; a deletion it was part of returns with it, and
\* puts its node back when it failed.
Save(t, failed) ==
  /\ Proceed(t, "saving", "returned")
  /\ held' = [m \in Mutexes |-> IF held[m] = t THEN Nobody ELSE held[m]]
  /\ deleting' = [deleting EXCEPT ![t] = {}]
  /\ IF failed THEN nodes' = nodes \cup deleting[t] /\ UNCHANGED pools
               ELSE pools' = pools \ deleting[t] /\ UNCHANGED nodes

-----------------------------------------------------------------------------
(***************************************************************************)
(* A call on the nodes.                                                    *)
(***************************************************************************)

\* Mutant: a change reads the resources while it holds the nodes' mutex.
ChangeReading(t) ==
  /\ Proceed(t, "returned", "starting")
  /\ Free("nodes")
  /\ held' = [held EXCEPT !["nodes"] = t]
  /\ UNCHANGED <<deleting, nodes, pools>>

\* Update, Start, Stop, a move, and what only reads.
Change(t) ==
  /\ Proceed(t, "returned", "changing")
  /\ Free("nodes")
  /\ held' = [held EXCEPT !["nodes"] = t]
  /\ UNCHANGED <<deleting, nodes, pools>>

\* The node is stopped and forgotten, and that is saved.
Delete(t, n) ==
  /\ Proceed(t, "returned", IF n \in Dedicated THEN "cleaning" ELSE "changing")
  /\ n \in nodes
  /\ Free("nodes")
  /\ held' = [held EXCEPT !["nodes"] = t]
  /\ nodes' = nodes \ {n}
  /\ deleting' = [deleting EXCEPT ![t] = {n}]
  /\ UNCHANGED pools

Create(t, n) ==
  /\ Proceed(t, "returned", "changing")
  /\ n \notin nodes
  /\ Free("nodes")
  /\ held' = [held EXCEPT !["nodes"] = t]
  /\ nodes' = nodes \cup {n}
  /\ UNCHANGED <<deleting, pools>>

\* A node that was created and could not be saved is deleted again, its pool included.
UndoCreate(t, n) ==
  /\ Proceed(t, "returned", IF n \in Dedicated THEN "cleaning" ELSE "changing")
  /\ n \notin nodes
  /\ Free("nodes")
  /\ held' = [held EXCEPT !["nodes"] = t]
  /\ deleting' = [deleting EXCEPT ![t] = {n}]
  /\ UNCHANGED <<nodes, pools>>

Return(t) ==
  /\ Proceed(t, "changing", "returned")
  /\ held' = [held EXCEPT !["nodes"] = Nobody]
  /\ deleting' = [deleting EXCEPT ![t] = {}]
  /\ UNCHANGED <<nodes, pools>>

\* The node's dedicated pool is looked up in a copy of the resources ...
LookUpPool(t) ==
  /\ Proceed(t, "cleaning", "starting")
  /\ Free("resources")
  /\ UNCHANGED <<deleting, held, nodes, pools>>

\* ... and deleted in a transaction.
DeleteDedicatedPool(t) ==
  /\ Proceed(t, "starting", "listing")
  /\ Free("resources")
  /\ held' = [held EXCEPT !["resources"] = t]
  /\ UNCHANGED <<deleting, nodes, pools>>

Step(t) ==
  \/ ForceDrainInbound(t)
  \/ List(t)
  \/ RefreshInboundBindings(t)
  \/ \E failed \in BOOLEAN : Save(t, failed)
  \/ Return(t)
  \/ LookUpPool(t)
  \/ DeleteDedicatedPool(t)

Next ==
  \E t \in Threads :
    \/ Transact(t)
    \/ ForceDrain(t)
    \/ Change(t)
    \/ \E n \in Nodes : Create(t, n) \/ UndoCreate(t, n) \/ Delete(t, n)
    \/ Step(t)

Spec == Init /\ [][Next]_vars

\* A call that has begun goes on; Go's mutexes do not starve a goroutine.
Fairness == \A t \in Threads : SF_vars(Step(t))

FairSpec == Spec /\ Fairness

-----------------------------------------------------------------------------
\* The mutex a thread asks for next.
Wants(t) ==
  CASE stage[t] \in {"cleaning", "starting"} -> {"resources"}
    [] stage[t] \in {"listing", "refreshing", "draining"} -> {"nodes"}
    [] OTHER -> {}

(***************************************************************************)
(* A mutex is held exactly by the call whose stage says so: no path out of *)
(* a transaction or a change, failed ones included, keeps one.             *)
(***************************************************************************)
InTransaction == {"listing", "refreshing", "saving", "draining"}
InChange == {"changing", "cleaning", "starting"}

HeldByStage ==
  /\ TypeOK
  /\ \A t \in Threads :
       /\ held["resources"] = t <=> stage[t] \in InTransaction
       /\ held["nodes"] = t <=>
            stage[t] \in InChange \/ (stage[t] # "returned" /\ deleting[t] \cap Dedicated # {})
       /\ stage[t] \in {"cleaning", "starting"} => deleting[t] \cap Dedicated # {}
       /\ stage[t] = "returned" => deleting[t] = {}

(***************************************************************************)
(* A group of calls waits for itself only if one of them deletes a node    *)
(* with a dedicated pool: among any other threads, one asks for no mutex   *)
(* that one of them holds.                                                 *)
(***************************************************************************)
OnlyDeletionsBlock ==
  \A S \in (SUBSET Threads) \ {{}} :
    \/ \E t \in S : deleting[t] \cap Dedicated # {}
    \/ \E t \in S : \A m \in Wants(t) : held[m] \notin S

(***************************************************************************)
(* README: a dedicated pool is "cleaned up together with its node when the *)
(* node is deleted".  A deletion comes to an end: the node's pool is gone, *)
(* or the node is listed again because the deletion failed.                *)
(***************************************************************************)
DeleteCleansUp ==
  \A t \in Threads, n \in Dedicated : n \in deleting[t] ~> n \notin pools \/ n \in nodes
=============================================================================
