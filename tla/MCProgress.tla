----------------------------- MODULE MCProgress -----------------------------
(***************************************************************************)
(* Instances for TLC of the parts that must make progress and share no     *)
(* state: the drain of outbound addresses, the resolver, the watchdog and  *)
(* the run of the service.  Each behaviour is a behaviour of one of them,  *)
(* which Init chooses among Parts.                                         *)
(***************************************************************************)
EXTENDS Supervision, FiniteSets, Sequences, TLC

CONSTANTS
  Parts,       \* the parts to check
  c1, c2,      \* goroutines that resolve names
  name,        \* host name
  a, b,        \* listeners
  x, y, z      \* servers, addresses

VARIABLES
  part,   \* the service that was chosen
  lk_servers, lk_cache, lk_lookups, lk_op, lk_settings, lk_file, lk_updates,
  dr_committed, dr_generated, dr_tx, dr_assigned, dr_pending, dr_queue, dr_taken, dr_starting,
  dr_faults, dr_crashes, dr_current, dr_leases, dr_sources, dr_ready, dr_released

LookupVars ==
  <<lk_servers, lk_cache, lk_lookups, lk_op, lk_settings, lk_file, lk_updates>>
GuardVars ==
  <<wd_running, wd_broken, wd_round, wd_failures, wd_cool, wd_guard, wd_requested, wd_faults,
    wd_since, wd_restarts, wd_left>>
RunVars ==
  <<svc_phase, svc_stopping, svc_part, svc_results, svc_left, svc_up, svc_lost, svc_stuck,
    svc_writable, svc_file, svc_exit, svc_late, svc_faults>>
DrainVars ==
  <<dr_committed, dr_generated, dr_tx, dr_assigned, dr_pending, dr_queue, dr_taken,
    dr_starting, dr_faults, dr_crashes, dr_current, dr_leases, dr_sources, dr_ready,
    dr_released>>

vars == <<part, LookupVars, GuardVars, RunVars, DrainVars>>

Lookup == INSTANCE NameLookup WITH
  Clients <- {c1, c2}, Names <- {name}, Prefix <- FALSE, Servers <- {<<x>>},
  MinTTL <- 1, MaxTTL <- 1, TTLs <- {1}, CacheMax <- 1, MaxAge <- 1, MaxUpdates <- 0,
  servers <- lk_servers, cache <- lk_cache, lookups <- lk_lookups, op <- lk_op,
  settings <- lk_settings, file <- lk_file, updates <- lk_updates

Drain == INSTANCE OutboundDrain WITH
  Addresses <- {x, y, z}, Capacity <- 1, MaxLeases <- 2, Wraps <- FALSE, Faults <- {},
  MaxFaults <- 0, MaxCrashes <- 1,
  committed <- dr_committed, generated <- dr_generated, tx <- dr_tx, assigned <- dr_assigned,
  pending <- dr_pending, queue <- dr_queue, taken <- dr_taken, starting <- dr_starting,
  faults <- dr_faults, crashes <- dr_crashes, current <- dr_current, leases <- dr_leases,
  sources <- dr_sources, ready <- dr_ready, released <- dr_released

\* The services that are not chosen rest in one initial state.
Init ==
  /\ part \in Parts
  /\ Lookup!Init /\ (part # "lookup" => lk_file = <<x>>)
  /\ Guard!Init /\ (part # "watchdog" => wd_running = {} /\ wd_broken = FALSE)
  /\ Run!Init /\ (part # "service" => svc_file = "intact")
  /\ Drain!Init /\ (part # "drain" => dr_current = {x})

\* Only the service that was chosen takes steps.
Only(p) ==
  /\ part = p /\ UNCHANGED part
  /\ p # "lookup" => UNCHANGED LookupVars
  /\ p # "watchdog" => UNCHANGED GuardVars
  /\ p # "service" => UNCHANGED RunVars
  /\ p # "drain" => UNCHANGED DrainVars

Next ==
  \/ Only("lookup") /\ \E c \in {c1, c2} : Lookup!Resolve(c, name)
  \/ Only("lookup") /\ \E c \in {c1, c2} : Lookup!ResolveA(c)
  \/ Only("lookup") /\ \E c \in {c1, c2} : Lookup!Begin(c)
  \/ Only("lookup") /\ \E c \in {c1, c2} : Lookup!AskFails(c)
  \/ Only("lookup") /\ \E c \in {c1, c2} : Lookup!NoAnswer(c)
  \/ Only("lookup") /\ \E c \in {c1, c2}, answer \in Lookup!Answers : Lookup!Answer(c, answer, 1)
  \/ Only("lookup") /\ \E c \in {c1, c2} : Lookup!GiveUp(c)
  \/ Only("lookup") /\ Lookup!Tick
  \/ Only("lookup") /\ Lookup!Restart
  \/ Only("watchdog") /\ Guard!Begin
  \/ Only("watchdog") /\ Guard!BeginUnread
  \/ Only("watchdog") /\ Guard!BeginWithoutTargets
  \/ Only("watchdog") /\ Guard!Succeeds
  \/ Only("watchdog") /\ Guard!Fails
  \/ Only("watchdog") /\ Guard!SaveGuard
  \/ Only("watchdog") /\ Guard!SaveGuardFails
  \/ Only("watchdog") /\ Guard!Restart
  \/ Only("watchdog") /\ Guard!RestartFails
  \/ Only("watchdog") /\ Guard!Replace
  \/ Only("watchdog") /\ Guard!Crash
  \/ Only("watchdog") /\ Guard!Tick
  \/ Only("watchdog") /\ \E t \in {a, b} : Guard!StartNode(t)
  \/ Only("watchdog") /\ \E t \in {a, b} : Guard!StopNode(t)
  \/ Only("watchdog") /\ Guard!Turn
  \/ Only("service") /\ Run!Build
  \/ Only("service") /\ Run!Listen
  \/ Only("service") /\ Run!InitializePassword
  \/ Only("service") /\ Run!InitializeRuntime
  \/ Only("service") /\ Run!StartFails
  \/ Only("service") /\ Run!RuntimeFails
  \/ Only("service") /\ Run!Reconcile
  \/ Only("service") /\ Run!ReconcileFails
  \/ Only("service") /\ Run!ReconcileGivenUp
  \/ Only("service") /\ Run!RestoreNodes
  \/ Only("service") /\ Run!SaveResources
  \/ Only("service") /\ Run!StartNode
  \/ Only("service") /\ Run!Damage
  \/ Only("service") /\ Run!Stop
  \/ Only("service") /\ \E c \in Run!Components : Run!ComponentReturns(c)
  \/ Only("service") /\ Run!HTTPReturnsEarly
  \/ Only("service") /\ Run!StartLateNode
  \/ Only("service") /\ Run!UndoLate
  \/ Only("service") /\ \E c \in Run!Components : Run!ComponentSends(c)
  \/ Only("service") /\ Run!SeeStop
  \/ Only("service") /\ Run!SeeResult
  \/ Only("service") /\ Run!Wait
  \/ Only("service") /\ Run!ShutdownNodes
  \/ Only("service") /\ Run!ShutdownNetwork
  \/ Only("service") /\ Run!ShutdownFirewall
  \/ Only("service") /\ Run!SaveStatistics
  \/ Only("service") /\ Run!CloseLog
  \/ Only("service") /\ Run!Crash
  \/ Only("drain") /\ Drain!PipelineStep /\ UNCHANGED <<dr_current, dr_leases, dr_sources, dr_ready, dr_released>>
  \/ Only("drain") /\ Drain!PrepareOutbound
  \/ Only("drain") /\ Drain!Replace
  \/ Only("drain") /\ \E k \in {x, y, z} : Drain!ReportReady(k)
  \/ Only("drain") /\ Drain!Synced
  \/ Only("drain") /\ \E batch \in dr_committed.draining : Drain!ForceDrain(batch)
  \/ Only("drain") /\ Drain!Crash
  \/ Only("drain") /\ \E k \in {x, y, z} : Drain!Acquire(k)
  \/ Only("drain") /\ \E k \in {x, y, z} : Drain!Release(k)
  \/ Only("drain") /\ \E k \in {x, y, z} : Drain!ReportReleased(k)

\* Nothing that fairness is about is enabled in a part that rests, or it changes nothing.
Fairness == Drain!Fairness /\ Lookup!Fairness /\ Guard!Fairness /\ Run!Fairness

Spec == Init /\ [][Next]_vars /\ Fairness

(***************************************************************************)
(* The properties of each, which its module states.                        *)
(***************************************************************************)
\* A draining address whose connections end is given back (drain_queue.go).
DrainsComplete == Drain!DrainsComplete

\* Every lookup ends, also for the followers of a call that failed (resolver.go).
LookupsEnd == Lookup!LookupsEnd

\* Traffic that stays broken gets its restart (watchdog.go).
BrokenIsAnswered == Guard!BrokenIsAnswered

\* A service that is told to stop, or lost a component, ends (service.go).
ServiceEnds == Run!ServiceEnds
=============================================================================
