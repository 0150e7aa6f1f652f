---------------------------- MODULE ServiceRun ----------------------------
(***************************************************************************)
(* The life of the service process (internal/app/service.go, production.go *)
(* and the pieces production_build.go gives it): start, the three          *)
(* components that serve, stop and cleanup, and the service manager that   *)
(* starts a process again when it failed.                                  *)
(*                                                                         *)
(* A resource file that cannot be loaded at the start makes the store      *)
(* read-only for this process (startup_state.go).                          *)
(***************************************************************************)
EXTENDS Naturals, FiniteSets

CONSTANTS
  Room,         \* capacity of the channel of their results
  Attempts,     \* StartupAttempts
  MaxFaults     \* bound of the model on failures and crashes

VARIABLES
  phase,      \* the step of Run that comes next
  stopping,   \* the context of the process has ended: it was told to stop
  part,       \* what each component does
  results,    \* results in the channel that were not received
  left,       \* startup attempts that are left
  up,         \* what is up: "sockets", "firewall", "network", "nodes", "log"
  lost,       \* a component returned before the service was told to stop (runErr)
  stuck,      \* what the cleanup could not bring down
  writable,   \* the resource file was loaded, or there was none
  file,       \* the resource file: "intact" or "unreadable"
  exit,       \* how the last process ended
  late,       \* a request outlasted the server that it came to
  faults      \* how many faults happened

vars == <<phase, stopping, part, results, left, up, lost, stuck, writable, file, exit, late, faults>>

\* The HTTP server, the control server, and the drain queue (with the NAT64 monitor).
Components == {"http", "control", "queue"}

Fault == faults < MaxFaults /\ faults' = faults + 1

\* The addresses and the rules outlast the process.
InKernel == up \cap {"network", "firewall"}

Init ==
  /\ phase = "down"
  /\ stopping = FALSE
  /\ part = [c \in Components |-> "none"]
  /\ results = 0
  /\ left = 0
  /\ up = {}
  /\ lost = FALSE /\ stuck = {}
  /\ writable = TRUE
  /\ file \in {"intact", "unreadable"}
  /\ exit = "none"
  /\ late = FALSE
  /\ faults = 0

-----------------------------------------------------------------------------
(***************************************************************************)
(* Start.                                                                  *)
(***************************************************************************)
\* buildProduction: the log is opened and the resource file is read; what the last process left
\* in the kernel is still there.  A process that failed is started by the service manager, one
\* that was stopped by an administrator.
Build ==
  /\ phase = "down"
  /\ phase' = "listen"
  /\ stopping' = FALSE
  /\ left' = Attempts
  /\ up' = InKernel \cup {"log"}
  /\ lost' = FALSE /\ stuck' = {}
  /\ writable' = (file = "intact")
  /\ exit' = "none"
  /\ late' = FALSE
  /\ UNCHANGED <<part, results, file, faults>>

Ends(ok) ==
  /\ phase' = "down"
  /\ exit' = IF ok THEN "ok" ELSE "failed"
  /\ part' = [c \in Components |-> "none"]
  /\ results' = 0
  /\ UNCHANGED <<stopping, left, lost, stuck, writable, file, late>>

\* A step of the start that leads to the phase next.
Starts(now, next, brought) ==
  /\ phase = now
  /\ phase' = next
  /\ up' = up \cup brought
  /\ UNCHANGED <<stopping, part, results, left, lost, stuck, writable, file, exit, late, faults>>

Listen == Starts("listen", "password", {"sockets"})
InitializePassword == Starts("password", "runtime", {})
InitializeRuntime == Starts("runtime", "reconcile", {"firewall"})

\* The management sockets or the password cannot be had: the sockets close, the process ends.
StartFails ==
  /\ phase \in {"listen", "password"}
  /\ Fault
  /\ up' = InKernel
  /\ Ends(FALSE)

\* The firewall cannot be set up: what there is of it is shut down, or stays.
RuntimeFails ==
  /\ phase = "runtime"
  /\ Fault
  /\ \E rules \in SUBSET {"firewall"} : up' = (InKernel \ {"firewall"}) \cup rules
  /\ Ends(FALSE)

\* ReconcileResources, within retryStartupOperation.
Reconcile ==
  /\ writable
  /\ ~stopping
  /\ Starts("reconcile", "restore", {"network"})

\* An attempt fails: by itself when the resource file could not be read.
ReconcileFails ==
  /\ phase = "reconcile"
  /\ ~stopping
  /\ IF writable THEN Fault ELSE UNCHANGED faults
  /\ left' = left - 1
  /\ phase' = IF left = 1 THEN "restore" ELSE "reconcile"
  /\ UNCHANGED <<stopping, part, results, up, lost, stuck, writable, file, exit, late>>

\* The retries end with the context; the start goes on without the addresses.
ReconcileGivenUp == stopping /\ Starts("reconcile", "restore", {})

\* The nodes are restored, some of them if there is an error, and the components start.
RestoreNodes ==
  /\ phase = "restore"
  /\ phase' = "serving"
  /\ part' = [c \in Components |-> "running"]
  /\ up' = up \cup {"nodes"}
  /\ UNCHANGED <<stopping, results, left, lost, stuck, writable, file, exit, late, faults>>

-----------------------------------------------------------------------------
(***************************************************************************)
(* Service and stop.                                                       *)
(***************************************************************************)
\* An administrator changes the resources (protectedResourceStateStore.Save).
SaveResources ==
  /\ phase \in {"serving", "draining"} /\ \E c \in Components : part[c] = "running"
  /\ writable
  /\ file' = "intact"
  /\ UNCHANGED <<phase, stopping, part, results, left, up, lost, stuck, writable, exit, late, faults>>

\* An administrator starts a node through a component that still serves.
StartNode ==
  /\ \E c \in Components : part[c] = "running"
  /\ up' = up \cup {"nodes"}
  /\ UNCHANGED <<phase, stopping, part, results, left, lost, stuck, writable, file, exit, late, faults>>

\* The file on the disk is damaged while no process runs, or repaired by hand.
Damage ==
  /\ phase = "down"
  /\ file' = IF file = "intact" THEN "unreadable" ELSE "intact"
  /\ Fault
  /\ UNCHANGED <<phase, stopping, part, results, left, up, lost, stuck, writable, exit, late>>

\* SIGTERM, or the restart that an administrator or the watchdog asked for.
Stop ==
  /\ phase # "down"
  /\ ~stopping
  /\ stopping' = TRUE
  /\ UNCHANGED <<phase, part, results, left, up, lost, stuck, writable, file, exit, late, faults>>

\* A component returns: its context has ended, or it failed.  The control server does not wait
\* for the handlers of its connections.
ComponentReturns(c) ==
  /\ part[c] = "running"
  /\ IF stopping \/ phase = "draining" THEN UNCHANGED faults ELSE Fault
  /\ part' = [part EXCEPT ![c] = "sending"]
  /\ late' \in (IF c = "control" THEN {late, TRUE} ELSE {late})
  /\ UNCHANGED <<phase, stopping, results, left, up, lost, stuck, writable, file, exit>>

\* The HTTP server returns at the end of its timeout although a request goes on.
HTTPReturnsEarly ==
  /\ part["http"] = "running"
  /\ Fault
  /\ late' = TRUE
  /\ part' = [part EXCEPT !["http"] = "sending"]
  /\ UNCHANGED <<phase, stopping, results, left, up, lost, stuck, writable, file, exit>>

\* Such a request may start a node behind the cleanup; it opens the firewall again.
StartLateNode ==
  /\ late
  /\ phase # "down"
  /\ up' = up \cup {"nodes", "firewall"}
  /\ UNCHANGED <<phase, stopping, part, results, left, lost, stuck, writable, file, exit, late, faults>>

\* A transaction of such a request, undone since its context has ended, puts the addresses back:
\* the undoing goes on without that context.
UndoLate ==
  /\ late
  /\ phase # "down"
  /\ up' = up \cup {"network"}
  /\ UNCHANGED <<phase, stopping, part, results, left, lost, stuck, writable, file, exit, late, faults>>

ComponentSends(c) ==
  /\ part[c] = "sending"
  /\ results < Room
  /\ results' = results + 1
  /\ part' = [part EXCEPT ![c] = "done"]
  /\ UNCHANGED <<phase, stopping, left, up, lost, stuck, writable, file, exit, late, faults>>

Drains ==
  /\ phase = "serving"
  /\ phase' = "draining"
  /\ up' = up \ {"sockets"}
  /\ UNCHANGED <<stopping, part, left, stuck, writable, file, exit, late, faults>>

\* The select of Run sees the end of the context.
SeeStop ==
  /\ stopping
  /\ Drains
  /\ UNCHANGED <<results, lost>>

\* Mutant: Run waits for the end of its context only.
SeeResultWhenTold ==
  /\ stopping
  /\ results > 0
  /\ Drains
  /\ results' = results - 1
  /\ UNCHANGED lost

\* It receives the result of a component, which is an error unless the service was told to stop.
SeeResult ==
  /\ results > 0
  /\ Drains
  /\ results' = results - 1
  /\ lost' = ~stopping

\* Mutant: the cleanup does not wait for the components.
GoesOn ==
  /\ phase = "draining"
  /\ phase' = "nodes"
  /\ UNCHANGED <<stopping, part, results, left, up, lost, stuck, writable, file, exit, late, faults>>

\* components.Wait
Wait ==
  /\ phase = "draining"
  /\ \A c \in Components : part[c] = "done"
  /\ phase' = "nodes"
  /\ UNCHANGED <<stopping, part, results, left, up, lost, stuck, writable, file, exit, late, faults>>

\* A step of the cleanup, which goes on when it fails.
Cleans(now, next, what) ==
  /\ phase = now
  /\ phase' = next
  /\ \/ up' = up \ {what} /\ UNCHANGED <<stuck, faults>>
     \/ Fault /\ stuck' = stuck \cup {what} /\ UNCHANGED up
  /\ UNCHANGED <<stopping, part, results, left, lost, writable, file, exit, late>>

ShutdownNodes == Cleans("nodes", "network", "nodes")
ShutdownNetwork == Cleans("network", "firewall", "network")
ShutdownFirewall == Cleans("firewall", "statistics", "firewall")
SaveStatistics == Cleans("statistics", "log", "none")

CloseLog ==
  /\ phase = "log"
  /\ up' = up \ {"log", "nodes"}
  /\ UNCHANGED faults
  /\ Ends(~lost /\ stuck = {})

\* A crash: the kernel keeps the addresses and the rules.
Crash ==
  /\ phase # "down"
  /\ Fault
  /\ up' = InKernel
  /\ Ends(FALSE)

Cleanup == ShutdownNodes \/ ShutdownNetwork \/ ShutdownFirewall \/ SaveStatistics \/ CloseLog

Start == Listen \/ InitializePassword \/ InitializeRuntime \/ Reconcile \/ ReconcileFails
           \/ ReconcileGivenUp \/ RestoreNodes

Next ==
  \/ Build
  \/ Listen
  \/ InitializePassword
  \/ InitializeRuntime
  \/ StartFails
  \/ RuntimeFails
  \/ Reconcile
  \/ ReconcileFails
  \/ ReconcileGivenUp
  \/ RestoreNodes
  \/ SaveResources
  \/ StartNode
  \/ Damage
  \/ Stop
  \/ \E c \in Components : ComponentReturns(c)
  \/ HTTPReturnsEarly
  \/ StartLateNode
  \/ UndoLate
  \/ \E c \in Components : ComponentSends(c)
  \/ SeeStop
  \/ SeeResult
  \/ Wait
  \/ ShutdownNodes
  \/ ShutdownNetwork
  \/ ShutdownFirewall
  \/ SaveStatistics
  \/ CloseLog
  \/ Crash

\* The calls of the start end by their timeouts, a component returns once its context has ended,
\* and the service manager starts a process that failed again (Restart=on-failure).  The calls of
\* the cleanup have no deadline: their fairness assumes that nobody keeps the mutexes of nodes and
\* resources for ever, as the deletion of a node with a dedicated pool does (LockOrder).
Fairness ==
  /\ WF_vars(Start) /\ WF_vars(SeeStop \/ SeeResult) /\ WF_vars(Wait) /\ WF_vars(Cleanup)
  /\ WF_vars(exit = "failed" /\ Build)
  /\ \A c \in Components : /\ WF_vars(stopping /\ ComponentReturns(c))
                           /\ WF_vars(phase = "draining" /\ ComponentReturns(c))
                           /\ WF_vars(ComponentSends(c))

Spec == Init /\ [][Next]_vars /\ Fairness

-----------------------------------------------------------------------------
\* While nodes serve the firewall is up, and the addresses and the rules go only when the
\* nodes are gone or could not be stopped; nobody brings a node or an address back behind the
\* cleanup, but for a request that outlasted its server.  A process that ends well was told to
\* stop and, but for such a request, leaves nothing behind; any other end is an error, so that
\* the service manager starts it again (service.go:126-172).
EndsInOrder ==
  /\ "nodes" \in up => "firewall" \in up \/ "nodes" \in stuck \/ late
  /\ phase \in {"network", "firewall", "statistics", "log"} =>
       "nodes" \notin up \/ "nodes" \in stuck \/ late
  /\ exit = "ok" => stopping /\ (up = {} \/ late)

\* A service that is told to stop, or one of whose components is gone, ends, whoever of its
\* components returned before (service.go:95, 126, 162), if the calls of its cleanup do.
ServiceEnds == stopping \/ (\E c \in Components : part[c] = "sending") ~> phase = "down"

=============================================================================
