---------------------------- MODULE Supervision -----------------------------
(***************************************************************************)
(* The run of the service and the watchdog that restarts it, each an       *)
(* instance of its module over variables and constants of its own.  Their  *)
(* properties are checked by the run of MCProgress and proved in           *)
(* ServicesProofs.                                                         *)
(***************************************************************************)
EXTENDS Integers

(***************************************************************************)
(* The watchdog (app/watchdog.go).                                         *)
(***************************************************************************)
CONSTANTS wd_targets, wd_failures_limit, wd_cooldown, wd_faults_bound
VARIABLES wd_running, wd_broken, wd_round, wd_failures, wd_cool, wd_guard, wd_requested,
          wd_faults, wd_since, wd_restarts, wd_left

Guard == INSTANCE Watchdog WITH
  Targets <- wd_targets, Failures <- wd_failures_limit, Cooldown <- wd_cooldown,
  MaxFaults <- wd_faults_bound,
  running <- wd_running, broken <- wd_broken, round <- wd_round, failures <- wd_failures,
  cool <- wd_cool, guard <- wd_guard, requested <- wd_requested, faults <- wd_faults,
  since <- wd_since, restarts <- wd_restarts, left <- wd_left

\* The limit is a number of failures (NewWatchdog wants a positive one).
ASSUME GuardAssumption == wd_failures_limit \in Nat

\* A failure episode gets one restart, which every listener's failures earned.
OneRestart == Guard!OneRestart

(***************************************************************************)
(* A run of the service, from its start to its cleanup (app/service.go).   *)
(***************************************************************************)
CONSTANTS svc_room, svc_attempts, svc_faults_bound
VARIABLES svc_phase, svc_stopping, svc_part, svc_results, svc_left, svc_up, svc_lost, svc_stuck,
          svc_writable, svc_file, svc_exit, svc_late, svc_faults

Run == INSTANCE ServiceRun WITH
  Room <- svc_room, Attempts <- svc_attempts, MaxFaults <- svc_faults_bound,
  phase <- svc_phase, stopping <- svc_stopping, part <- svc_part, results <- svc_results,
  left <- svc_left, up <- svc_up, lost <- svc_lost, stuck <- svc_stuck,
  writable <- svc_writable, file <- svc_file, exit <- svc_exit, late <- svc_late,
  faults <- svc_faults

\* Nodes serve inside the firewall and only an ordered stop ends well.
EndsInOrder == Run!EndsInOrder
=============================================================================
