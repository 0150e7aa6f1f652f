----------------------------- MODULE MCServices -----------------------------
(***************************************************************************)
(* Instances for TLC of the services that share no state (Services), of    *)
(* the documents that the agent applies (Administration) and of the calls  *)
(* that nest mutexes (LockOrder, whose Nodes and nodes these are).  Each   *)
(* behaviour is a behaviour of one of them, which BeginOne chooses among   *)
(* Parts.                                                                  *)
(***************************************************************************)
EXTENDS Services, Administration, LockOrder, Sequences, TLC

CONSTANTS
  Parts,                 \* the services to check
  c1, c2, c3, c4,        \* goroutines, readers
  template, fixed, pool, \* resources
  a, b,                  \* nodes
  name,                  \* host name
  x, y,                  \* servers, prefixes, credentials, addresses and capacities
  None, Gone

VARIABLE part            \* the service that was chosen

LookupVars ==
  <<lk_servers, lk_cache, lk_lookups, lk_op, lk_settings, lk_file, lk_updates>>
Nat64Vars ==
  <<nat_manual, nat_status, nat_check, nat_op, nat_file, nat_changes>>
DotVars ==
  <<dot_open, dot_idle, dot_closed, dot_query>>
LogVars ==
  <<log_files, log_usable, log_size, log_last, log_kept, log_cleared, log_published, log_open,
    log_queue, log_seen, log_step, log_lagged, log_faults>>
SecretsVars ==
  <<sec_carried, sec_saved, sec_count, sec_call, sec_changes, sec_crossed, sec_unsettled>>
AgentVars ==
  <<ap_sys, ap_apply, ap_reply, ap_before, ap_touched, ap_others>>
AccessVars ==
  <<adm_saved, adm_up, adm_session, adm_made, adm_cookie, adm_request, adm_changing>>

LockVars ==
  <<stage, deleting, held, nodes, pools>>

all == <<part, LookupVars, Nat64Vars, DotVars, LogVars, SecretsVars, AgentVars, AccessVars, LockVars>>

(***************************************************************************)
(* Documents, and what they are applied to.                                *)
(***************************************************************************)
Item(needs, is) == [needs |-> needs, is |-> is]
Node(uses, auth, status) == [uses |-> uses, auth |-> auth, status |-> status]

\* Nothing, a pool with the default capacity, one with a pinned address, an address that is
\* left to the service, and a pool whose template must be there.
Resources == {
  None, << >>,
  template :> Item({}, x) @@ pool :> Item({template}, None),
  template :> Item({}, x) @@ fixed :> Item({template}, x) @@ pool :> Item({template, fixed}, x),
  template :> Item({}, x) @@ fixed :> Item({template}, None),
  pool :> Item({template}, y)}

NodeLists == {
  None, << >>,
  a :> Node(pool, "generate", "stopped"),
  a :> Node(None, "preserve", "running") @@ b :> Node(fixed, "set", "stopped")}

Networks == {None, [nat64 |-> y], [nat64 |-> y, resolvers |-> y]}

\* A document that sets the network leaves out the resources or the nodes; its settings come
\* with both parts of the network, their absence with one.
TheDocuments ==
  {doc \in [settings : {None, y}, network : Networks, resources : Resources, nodes : NodeLists] :
     doc.network # None =>
       /\ doc.settings # None <=> Cardinality(DOMAIN doc.network) = 2
       /\ doc.resources = None \/ doc.nodes = None}

System(resources, users) ==
  LET network == [nat64 |-> x, resolvers |-> x] IN
  [settings |-> [capacity |-> x, network |-> network], network |-> network,
   resources |-> resources, nodes |-> users]

Uses(resource, status) ==
  [config |-> [uses |-> resource, creds |-> "old", rest |-> "old"], status |-> status]

Empty == System(<< >>, << >>)

\* Nothing, a node whose pool is gone, and what documents leave behind.
TheSystems == {
  Empty,
  System(<< >>, a :> Uses(pool, "running")),
  System(template :> Item({}, x) @@ pool :> Item({template}, x), a :> Uses(pool, "running")),
  System(template :> Item({}, x) @@ fixed :> Item({template}, x) @@ pool :> Item({template, fixed}, x),
         a :> Uses(pool, "stopped") @@ b :> Uses(fixed, "running"))}

\* The lists of name servers.
TheServers == {<<x>>, <<y, x>>}

\* The services that are not chosen rest in one initial state.
BeginOne ==
  /\ part \in Parts
  /\ Lookup!Init /\ (part # "lookup" => lk_file = <<x>>)
  /\ Nat64!Init /\ (part # "nat64" => nat_file = None)
  /\ Dot!Init
  /\ Log!Init
  /\ Secrets!Init
  /\ Agent!Init /\ (part # "agent" => ap_sys = Empty)
  /\ Access!Init
  /\ Init /\ (part # "locks" => nodes = Nodes)

\* Only the service that was chosen takes steps.
Only(p) ==
  /\ part = p /\ UNCHANGED part
  /\ p # "lookup" => UNCHANGED LookupVars
  /\ p # "nat64" => UNCHANGED Nat64Vars
  /\ p # "dot" => UNCHANGED DotVars
  /\ p # "log" => UNCHANGED LogVars
  /\ p # "secrets" => UNCHANGED SecretsVars
  /\ p # "agent" => UNCHANGED AgentVars
  /\ p # "access" => UNCHANGED AccessVars
  /\ p # "locks" => UNCHANGED LockVars

StepOne ==
  \/ Only("lookup") /\ \E c \in {c1, c2} : Lookup!Resolve(c, name)
  \/ Only("lookup") /\ \E c \in {c1, c2} : Lookup!ResolveA(c)
  \/ Only("lookup") /\ \E c \in {c1, c2} : Lookup!Begin(c)
  \/ Only("lookup") /\ \E c \in {c1, c2} : Lookup!AskFails(c)
  \/ Only("lookup") /\ \E c \in {c1, c2} : Lookup!NoAnswer(c)
  \/ Only("lookup") /\ \E c \in {c1, c2}, answer \in Lookup!Answers : Lookup!Answer(c, answer, 3)
  \/ Only("lookup") /\ \E c \in {c1, c2} : Lookup!GiveUp(c)
  \/ Only("lookup") /\ Lookup!Tick
  \/ Only("lookup") /\ \E list \in {<<x>>, <<y, x>>} : Lookup!UpdateResolvers(list)
  \/ Only("lookup") /\ Lookup!SaveResolvers
  \/ Only("lookup") /\ Lookup!SaveFails
  \/ Only("lookup") /\ Lookup!Restart
  \/ Only("nat64") /\ Nat64!CheckBegins
  \/ Only("nat64") /\ Nat64!CheckFails
  \/ Only("nat64") /\ \E found \in {x, y} : Nat64!CheckSucceeds(found)
  \/ Only("nat64") /\ \E prefix \in {x, y, None} : Nat64!Change(prefix)
  \/ Only("nat64") /\ Nat64!SetManual
  \/ Only("nat64") /\ Nat64!Save
  \/ Only("nat64") /\ Nat64!SaveFails
  \/ Only("nat64") /\ Nat64!Undo
  \/ Only("nat64") /\ Nat64!CheckChange
  \/ Only("nat64") /\ Nat64!Restart
  \/ Only("dot") /\ \E q \in {c1, c2, c3} : Dot!Take(q)
  \/ Only("dot") /\ \E q \in {c1, c2, c3} : Dot!ReuseFails(q)
  \/ Only("dot") /\ \E q \in {c1, c2, c3}, conn \in 1..5 : Dot!Dial(q, conn)
  \/ Only("dot") /\ \E q \in {c1, c2, c3} : Dot!DialFails(q)
  \/ Only("dot") /\ \E q \in {c1, c2, c3} : Dot!AskFails(q)
  \/ Only("dot") /\ \E q \in {c1, c2, c3} : Dot!Answered(q)
  \/ Only("dot") /\ Dot!Close
  \/ Only("log") /\ Log!Subscribe(c3)
  \/ Only("log") /\ Log!Receive(c3)
  \/ Only("log") /\ Log!Unsubscribe(c3)
  \/ Only("log") /\ Log!Offer(c3)
  \/ Only("log") /\ Log!Drop(c3)
  \/ Only("log") /\ Log!Retry(c3)
  \/ Only("log") /\ Log!Write
  \/ Only("log") /\ Log!WriteHalf
  \/ Only("log") /\ Log!WriteFails
  \/ Only("log") /\ Log!Clear
  \/ Only("log") /\ \E k \in Log!Steps : Log!RotateFails(k)
  \/ Only("log") /\ \E k \in Log!Steps : Log!ClearFails(k)
  \/ Only("log") /\ \E k \in Log!Steps : Log!Restart(k)
  \/ Only("secrets") /\ \E c \in sec_callers, n \in {a, b}, kind \in Secrets!Kinds, next \in {x, y, None, Gone} :
          Secrets!Begin(c, n, kind, next)
  \/ Only("secrets") /\ \E c \in sec_callers : Secrets!Commit(c)
  \/ Only("secrets") /\ \E c \in sec_callers : Secrets!Refuse(c)
  \/ Only("secrets") /\ \E c \in sec_callers : Secrets!UndoFails(c)
  \/ Only("secrets") /\ \E c \in sec_callers : Secrets!SeemsDone(c)
  \/ Only("secrets") /\ \E c \in sec_callers : Secrets!ComesBackUnsaved(c)
  \/ Only("secrets") /\ \E c \in sec_callers : Secrets!Release(c)
  \/ Only("secrets") /\ \E c \in sec_callers : Secrets!Register(c)
  \/ Only("secrets") /\ Secrets!OtherSaves
  \/ Only("secrets") /\ Secrets!Restart
  \/ Only("agent") /\ \E doc \in TheDocuments, prune \in BOOLEAN : Agent!Begin(doc, prune)
  \/ Only("agent") /\ Agent!ReplaceSettings
  \/ Only("agent") /\ Agent!ApplyNetwork
  \/ Only("agent") /\ \E p \in Agent!NetworkParts : Agent!SetPart(p)
  \/ Only("agent") /\ Agent!ApplyNodes
  \/ Only("agent") /\ Agent!TurnNode
  \/ Only("agent") /\ Agent!Answers
  \/ Only("agent") /\ Agent!NodeRefused
  \/ Only("agent") /\ Agent!PruneNodes
  \/ Only("agent") /\ Agent!PruneResources
  \/ Only("agent") /\ Agent!PruneRefused
  \/ Only("agent") /\ Agent!Done
  \/ Only("agent") /\ Agent!Fails
  \/ Only("agent") /\ \E r \in Agent!Names : Agent!Create(r)
  \/ Only("agent") /\ \E r \in Agent!Names : Agent!CreateRefused(r)
  \/ Only("agent") /\ \E r \in Agent!Names : Agent!PruneResource(r)
  \/ Only("agent") /\ \E n \in {a, b} : Agent!CreateNode(n)
  \/ Only("agent") /\ \E n \in {a, b} : Agent!UpdateNode(n)
  \/ Only("agent") /\ \E n \in {a, b} : Agent!LeaveNode(n)
  \/ Only("agent") /\ \E n \in {a, b} : Agent!UpdateLost(n)
  \/ Only("agent") /\ \E n \in {a, b} : Agent!PruneNode(n)
  \/ Only("agent") /\ Agent!Commands
  \/ Only("agent") /\ Agent!Rest
  \/ Only("access") /\ Access!Start
  \/ Only("access") /\ Access!Stop
  \/ Only("access") /\ Access!ResetDirectly
  \/ Only("access") /\ Access!Expire
  \/ Only("access") /\ \E c \in {c1, c2} : Access!Authenticate(c)
  \/ Only("access") /\ \E c \in {c1, c2} : Access!Create(c)
  \/ Only("access") /\ \E c \in {c1, c2} : Access!CreateFails(c)
  \/ Only("access") /\ \E c \in {c1, c2} : Access!Revoke(c)
  \/ Only("access") /\ \E c \in {c1, c2} : Access!SaveFails(c)
  \/ Only("access") /\ \E c \in {c1, c2}, operation \in {"revoke", "change"} :
          Access!Admit(c, operation)
  \/ Only("access") /\ \E c \in {c1, c2, c3} : Access!Save(c)
  \/ Only("access") /\ \E c \in {c1, c2, c3} : Access!RevokeAll(c)
  \/ Only("locks") /\ \E t \in Threads : Transact(t)
  \/ Only("locks") /\ \E t \in Threads : ForceDrain(t)
  \/ Only("locks") /\ \E t \in Threads : ForceDrainInbound(t)
  \/ Only("locks") /\ \E t \in Threads : List(t)
  \/ Only("locks") /\ \E t \in Threads : RefreshInboundBindings(t)
  \/ Only("locks") /\ \E t \in Threads, failed \in BOOLEAN : Save(t, failed)
  \/ Only("locks") /\ \E t \in Threads : Change(t)
  \/ Only("locks") /\ \E t \in Threads, n \in Nodes : Create(t, n)
  \/ Only("locks") /\ \E t \in Threads, n \in Nodes : UndoCreate(t, n)
  \/ Only("locks") /\ \E t \in Threads, n \in Nodes : Delete(t, n)
  \/ Only("locks") /\ \E t \in Threads : Return(t)
  \/ Only("locks") /\ \E t \in Threads : LookUpPool(t)
  \/ Only("locks") /\ \E t \in Threads : DeleteDedicatedPool(t)
  \/ Only("locks") /\ UNCHANGED LockVars  \* calls may wait for ever

\* No part tells these two apart: the reader of a stream and the console are c3.
MCSymmetry == Permutations({c1, c2})

OneSpec == BeginOne /\ [][StepOne]_all

\* A credential of a node is released once the update that replaced it has committed, as
\* node_secrets.go:59-61 has it: not so when the update failed, was undone, and the old runtime
\* could not be cleaned up.
GivenUpIsReplaced == Secrets!GivenUpIsReplaced
=============================================================================
