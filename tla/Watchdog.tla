----------------------------- MODULE Watchdog -----------------------------
(***************************************************************************)
(* The watchdog of the proxy listeners (internal/app/watchdog.go) and the  *)
(* guard file that limits it to one restart of the service per failure     *)
(* episode (watchdog_state_store.go), through several processes.           *)
(*                                                                         *)
(* One goroutine runs the rounds: read the running listeners and the       *)
(* guard, probe one of them, decide.  The nodes, the network and the       *)
(* process itself change between and during the rounds.                    *)
(***************************************************************************)
EXTENDS Naturals

CONSTANTS
  Targets,     \* listeners that nodes may have
  Failures,    \* failed probes of a listener that count
  Cooldown,    \* ticks between two decisions of one process
  MaxFaults    \* bound of the model on crashes and on failed reads, writes and restarts

VARIABLES
  running,    \* the listeners of the nodes that run
  broken,     \* no listener lets traffic through
  round,      \* the round in progress: the listeners it read, the one it probes, the guard
  failures,   \* watchdog.failures
  cool,       \* ticks until Cooldown has passed since lastRestart
  guard,      \* the guard file exists
  requested,  \* the service manager was asked to replace the process
  faults,     \* how many faults happened
  since,      \* history: failed probes since the last success or decision
  restarts,   \* history: restarts the watchdog got in this failure episode
  left        \* history: the guard stayed because its removal failed, or the process ended
              \* between its writing and the restart

vars == <<running, broken, round, failures, cool, guard, requested, faults, since, restarts, left>>

NoRound == [at |-> "none"]
Zero == [t \in Targets |-> 0]
UpTo(n) == IF n < Failures THEN n + 1 ELSE n

Fault == faults < MaxFaults /\ faults' = faults + 1

Init ==
  /\ running \in SUBSET Targets
  /\ broken \in BOOLEAN
  /\ round = NoRound
  /\ failures = Zero /\ since = Zero
  /\ cool = 0
  /\ guard = FALSE
  /\ requested = FALSE
  /\ faults = 0
  /\ restarts = 0
  /\ left = FALSE

-----------------------------------------------------------------------------
\* dropRemovedTargets
Kept(count) == [t \in Targets |-> IF t \in running THEN count[t] ELSE 0]

\* Mutant: the listener with the most failures is probed first.
MostFailed(count) == {t \in running : \A u \in running : count[u] <= count[t]}

\* selectTarget
LeastFailed(count) == {t \in running : \A u \in running : count[t] <= count[u]}

\* probeOnce up to the probe.
Begin ==
  /\ round = NoRound
  /\ running # {}
  /\ failures' = Kept(failures) /\ since' = Kept(since)
  /\ \E t \in LeastFailed(failures') :
       round' = [at |-> "probing", targets |-> running, target |-> t, guarded |-> guard]
  /\ UNCHANGED <<running, broken, cool, guard, requested, faults, restarts, left>>

\* The guard cannot be read: nothing is probed.
BeginUnread ==
  /\ round = NoRound
  /\ Fault
  /\ failures' = Kept(failures) /\ since' = Kept(since)
  /\ UNCHANGED <<running, broken, round, cool, guard, requested, restarts, left>>

\* Nothing runs, so no episode goes on: the guard is removed, or stays when that fails.
BeginWithoutTargets ==
  /\ round = NoRound
  /\ running = {}
  /\ failures' = Zero /\ since' = Zero
  /\ \/ guard' = FALSE /\ UNCHANGED <<faults, left>>
     \/ guard /\ Fault /\ left' = TRUE /\ UNCHANGED guard
  /\ restarts' = 0
  /\ UNCHANGED <<running, broken, round, cool, requested>>

\* One listener that works ends the episode.
Succeeds ==
  /\ round.at = "probing"
  /\ ~broken
  /\ failures' = Zero /\ since' = Zero
  /\ restarts' = 0
  /\ \/ guard' = FALSE /\ UNCHANGED <<faults, left>>
     \/ round.guarded /\ Fault /\ left' = TRUE /\ UNCHANGED guard
  /\ round' = NoRound
  /\ UNCHANGED <<running, broken, cool, requested>>

\* allTargetsFailedAtThresholdLocked
AllFailed(count) == \A t \in round.targets : count[t] >= Failures

\* The probe fails, also when traffic passes elsewhere.
Fails ==
  /\ round.at = "probing"
  /\ since' = [since EXCEPT ![round.target] = UpTo(@)]
  /\ LET count == [failures EXCEPT ![round.target] = UpTo(@)] IN
     IF round.guarded \/ ~AllFailed(count) \/ cool > 0
       THEN failures' = count /\ round' = NoRound /\ UNCHANGED cool
       ELSE /\ failures' = Zero
            /\ cool' = Cooldown
            /\ round' = [round EXCEPT !.at = "deciding"]
  /\ UNCHANGED <<running, broken, guard, requested, faults, restarts, left>>

SaveGuard ==
  /\ round.at = "deciding"
  /\ guard' = TRUE
  /\ left' = FALSE
  /\ round' = [round EXCEPT !.at = "restarting"]
  /\ UNCHANGED <<running, broken, failures, cool, requested, faults, since, restarts>>

SaveGuardFails ==
  /\ round.at = "deciding"
  /\ Fault
  /\ since' = Zero
  /\ round' = NoRound
  /\ UNCHANGED <<running, broken, failures, cool, guard, requested, restarts, left>>

Restart ==
  /\ round.at = "restarting"
  /\ requested' = TRUE
  /\ restarts' = restarts + 1
  /\ since' = Zero
  /\ round' = NoRound
  /\ UNCHANGED <<running, broken, failures, cool, guard, faults, left>>

\* The service manager refuses; the guard is removed, or stays when that fails too.
RestartFails ==
  /\ round.at = "restarting"
  /\ \/ faults < MaxFaults /\ faults' = faults + 1 /\ guard' = FALSE /\ UNCHANGED left
     \/ faults + 1 < MaxFaults /\ faults' = faults + 2 /\ left' = TRUE /\ UNCHANGED guard
  /\ since' = Zero
  /\ round' = NoRound
  /\ UNCHANGED <<running, broken, failures, cool, requested, restarts>>

-----------------------------------------------------------------------------
\* Mutant: the guard is kept in memory.
NewProcessUnguarded ==
  /\ failures' = Zero /\ since' = Zero
  /\ cool' = 0
  /\ round' = NoRound
  /\ requested' = FALSE
  /\ guard' = FALSE
  /\ UNCHANGED <<running, broken, restarts, left>>

\* A new process: only the guard file is left of the old one.
NewProcess ==
  /\ failures' = Zero /\ since' = Zero
  /\ cool' = 0
  /\ round' = NoRound
  /\ requested' = FALSE
  /\ left' = (left \/ round.at = "restarting")
  /\ UNCHANGED <<running, broken, guard, restarts>>

Replace == requested /\ NewProcess /\ UNCHANGED faults

\* A crash, or a restart somebody else asked for.
Crash == Fault /\ NewProcess

\* A decision is carried out, and the process replaced, before Cooldown (10 minutes) is over.
Tick ==
  /\ cool > 0
  /\ ~requested /\ round.at \in {"none", "probing"}
  /\ cool' = cool - 1
  /\ UNCHANGED <<running, broken, round, failures, guard, requested, faults, since, restarts, left>>

\* Nodes start and stop, and the way out of the host breaks and comes back.
StartNode(t) ==
  /\ t \notin running
  /\ running' = running \cup {t}
  /\ UNCHANGED <<broken, round, failures, cool, guard, requested, faults, since, restarts, left>>

StopNode(t) ==
  /\ t \in running
  /\ running' = running \ {t}
  /\ UNCHANGED <<broken, round, failures, cool, guard, requested, faults, since, restarts, left>>

Turn ==
  /\ broken' = ~broken
  /\ UNCHANGED <<running, round, failures, cool, guard, requested, faults, since, restarts, left>>

Round == Begin \/ BeginWithoutTargets
Probed == Succeeds \/ Fails
Decided == SaveGuard \/ SaveGuardFails
Asked == Restart \/ RestartFails

Next ==
  \/ Begin
  \/ BeginUnread
  \/ BeginWithoutTargets
  \/ Succeeds
  \/ Fails
  \/ SaveGuard
  \/ SaveGuardFails
  \/ Restart
  \/ RestartFails
  \/ Replace
  \/ Crash
  \/ Tick
  \/ \E t \in Targets : StartNode(t)
  \/ \E t \in Targets : StopNode(t)
  \/ Turn

\* The ticker goes on, a probe ends by its timeout, and time passes.
Fairness == /\ WF_vars(Round) /\ WF_vars(Probed) /\ WF_vars(Decided) /\ WF_vars(Asked)
            /\ WF_vars(Replace) /\ WF_vars(Tick)

Spec == Init /\ [][Next]_vars /\ Fairness

-----------------------------------------------------------------------------
\* A failure episode gets one restart, also when the process is replaced, crashes or fails to
\* write, remove or read the guard in between.  It is decided when every listener that ran at
\* the start of the round failed often enough since the last probe that succeeded on any of
\* them; and the guard stands for it, so that no episode is kept from its restart by an earlier
\* one, unless the guard could not be removed or the process ended right after writing it
\* (watchdog.go:166-236).
OneRestart ==
  /\ restarts <= 1
  /\ round.at \in {"deciding", "restarting"} => AllFailed(since)
  /\ guard /\ round.at # "restarting" /\ ~left => restarts = 1

\* Traffic that stays broken gets its restart, however the rounds pick listeners and whatever
\* else was restarted before; unless the guard of an earlier episode still stands, because it
\* could not be removed or the process ended right after writing it (watchdog.go:239).
BrokenIsAnswered ==
  <>[](broken /\ running = Targets) => <>[](guard /\ (restarts = 1 \/ left))

=============================================================================
