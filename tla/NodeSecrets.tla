----------------------------- MODULE NodeSecrets -----------------------------
(***************************************************************************)
(* app/node_secrets.go over eventlog's RegisterSecret and UnregisterSecret: *)
(* the log leaves out the credentials of the nodes.  Each credential is     *)
(* counted, so that nodes may share one; a wrapper around the node service  *)
(* registers what a node gets and unregisters what it had.  The wrapper has *)
(* no lock of its own: it reads what the node had before it calls the       *)
(* service, and counts after the service has returned.                     *)
(*                                                                         *)
(* A node has one credential here (its name and its password are counted in *)
(* the same way), or none, or does not exist.  The service (persistent.go)  *)
(* undoes what it cannot save; where the undoing fails too, or where it     *)
(* reports that a runtime it had replaced could not be cleaned up, what the *)
(* wrapper counts is not what the node has.                                *)
(***************************************************************************)
EXTENDS Naturals, FiniteSets

CONSTANTS Callers,     \* goroutines that administer nodes
          Nodes, Credentials,
          Open,        \* the credential of a node without one
          Gone,        \* of a node that does not exist
          MaxChanges   \* bound: operations that begin

VARIABLES
  carried,    \* the credential of each node
  saved,      \* and what the file of nodes says
  count,      \* secretCounts
  call,       \* what each caller is doing
  changes,    \* operations begun
  crossed,    \* history: two operations on one node overlapped
  unsettled   \* history: two calls of one operation failed

vars == <<carried, saved, count, call, changes, crossed, unsettled>>

Idle == [at |-> "idle"]
Kinds == {"create", "update", "delete"}
Init ==
  /\ carried = [n \in Nodes |-> Gone] /\ saved = carried
  /\ count = [s \in Credentials |-> 0] /\ call = [c \in Callers |-> Idle]
  /\ changes = 0 /\ crossed = FALSE /\ unsettled = FALSE

Goes(c, stage) == call' = [call EXCEPT ![c] = stage]
Busy(n) == \E c \in Callers : call[c] # Idle /\ call[c].node = n

\* RegisterSecret and UnregisterSecret; what is not counted cannot be released
Registered(s) == count' = IF s \in Credentials THEN [count EXCEPT ![s] = @ + 1] ELSE count

Unregistered(s) ==
  count' = IF s \in Credentials /\ count[s] > 0 THEN [count EXCEPT ![s] = @ - 1] ELSE count

\* An operation on node n begins: an update and a deletion read what the node
\* has, a creation does not
Begin(c, n, kind, next) ==
  /\ call[c] = Idle /\ changes < MaxChanges /\ changes' = changes + 1
  /\ kind = "delete" <=> next = Gone
  /\ Goes(c, [at |-> "called", kind |-> kind, node |-> n, next |-> next,
              had |-> IF kind = "create" THEN Gone ELSE carried[n]])
  /\ crossed' = (crossed \/ Busy(n))
  /\ UNCHANGED <<carried, saved, count, unsettled>>

Has(n, s) == carried' = [carried EXCEPT ![n] = s]
OnlyServiceActs == UNCHANGED <<count, changes, crossed>>

\* The service carries it out and saves the table.  An update whose old runtime
\* could not be cleaned up has been carried out too.
Commit(c) ==
  /\ call[c].at = "called"
  /\ call[c].kind = "create" <=> carried[call[c].node] = Gone
  /\ Has(call[c].node, call[c].next) /\ saved' = carried'
  /\ Goes(c, [call[c] EXCEPT !.at = "releases"])
  /\ UNCHANGED unsettled /\ OnlyServiceActs

\* It refuses, or has undone all it did; a deletion whose node came back as its
\* dedicated pool could not be deleted has saved it again
Refuse(c) ==
  /\ call[c].at = "called"
  /\ Goes(c, Idle)
  /\ saved' \in {saved, carried}
  /\ UNCHANGED <<carried, unsettled>> /\ OnlyServiceActs

\* Neither the table nor the undoing succeeds: a new node stays, an updated one
\* keeps its update, a deleted one does not come back
UndoFails(c) ==
  /\ call[c].at = "called"
  /\ call[c].kind = "create" <=> carried[call[c].node] = Gone
  /\ Has(call[c].node, call[c].next)
  /\ Goes(c, Idle)
  /\ unsettled' = TRUE /\ UNCHANGED saved /\ OnlyServiceActs

\* An update is not saved, and the runtime that it or its undoing replaced
\* cannot be cleaned up: the wrapper takes the error for that of an update that
\* was carried out, of a node without a credential
SeemsDone(c) ==
  /\ call[c].at = "called" /\ call[c].kind = "update"
  /\ carried[call[c].node] # Gone
  /\ \/ UNCHANGED carried
     \/ Has(call[c].node, call[c].next)
  /\ Goes(c, [call[c] EXCEPT !.at = "releases", !.next = Open])
  /\ unsettled' = TRUE /\ UNCHANGED saved /\ OnlyServiceActs

\* A deletion has saved the table, cannot delete the dedicated pool, and cannot
\* save the table again: the node is back, and not in the file
ComesBackUnsaved(c) ==
  /\ call[c].at = "called" /\ call[c].kind = "delete"
  /\ carried[call[c].node] # Gone
  /\ saved' = [carried EXCEPT ![call[c].node] = Gone]
  /\ Goes(c, Idle)
  /\ unsettled' = TRUE /\ UNCHANGED carried /\ OnlyServiceActs

\* Starts, stops and moves between folders save the whole table
OtherSaves ==
  /\ saved' = carried
  /\ UNCHANGED <<carried, call, unsettled>> /\ OnlyServiceActs

\* Mutant: an update keeps what it replaced registered
ReleaseDeletedOnly(c) ==
  /\ call[c].at = "releases"
  /\ IF call[c].next = Gone THEN Unregistered(call[c].had) ELSE UNCHANGED count
  /\ Goes(c, [call[c] EXCEPT !.at = "registers"])
  /\ UNCHANGED <<carried, saved, changes, crossed, unsettled>>

Release(c) ==
  /\ call[c].at = "releases"
  /\ Unregistered(call[c].had)
  /\ Goes(c, [call[c] EXCEPT !.at = "registers"])
  /\ UNCHANGED <<carried, saved, changes, crossed, unsettled>>

Register(c) ==
  /\ call[c].at = "registers"
  /\ Registered(call[c].next)
  /\ Goes(c, Idle)
  /\ UNCHANGED <<carried, saved, changes, crossed, unsettled>>

\* a new process counts the credentials of the nodes it restores
Restart ==
  /\ carried' = saved
  /\ count' = [s \in Credentials |-> Cardinality({n \in Nodes : saved[n] = s})]
  /\ call' = [c \in Callers |-> Idle] /\ crossed' = FALSE /\ unsettled' = FALSE
  /\ UNCHANGED <<saved, changes>>

Next ==
  \/ \E c \in Callers :
       \/ \E n \in Nodes, kind \in Kinds,
             next \in Credentials \cup {Open, Gone} : Begin(c, n, kind, next)
       \/ Commit(c) \/ Refuse(c) \/ UndoFails(c) \/ SeemsDone(c) \/ ComesBackUnsaved(c)
       \/ Release(c) \/ Register(c)
  \/ OtherSaves \/ Restart

Spec == Init /\ [][Next]_vars

(***************************************************************************)
(* Properties                                                              *)
(***************************************************************************)
Between == \A c \in Callers : call[c] = Idle

\* An operation gives up a credential of its node only once the node has what
\* the operation registers next in its place.
GivenUpIsReplaced ==
  \A c \in Callers : call[c].at = "releases" => carried[call[c].node] = call[c].next

\* While no two operations on one node overlapped and no operation had two
\* failing calls, whatever ran on other nodes at the same time, each credential
\* is counted once for each node that has it: none is given up while a node has
\* it, none is kept when no node has.
CountsAreExact ==
  Between /\ ~crossed /\ ~unsettled =>
    \A s \in Credentials : count[s] = Cardinality({n \in Nodes : carried[n] = s})
=============================================================================
