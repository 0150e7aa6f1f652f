--------------------------- MODULE Nat64Monitor ---------------------------
(***************************************************************************)
(* The NAT64 monitor (internal/dns64/monitor.go, the probe assembled in    *)
(* app/production_build.go) and the change of the manual prefix by an      *)
(* administrator (OperationsCoordinator.SetManualNAT64,                    *)
(* ConfigStore.SaveNAT64).                                                 *)
(*                                                                         *)
(* A check holds checkMu from reading the manual prefix to publishing its  *)
(* status; the probe in between takes time.  SetManualPrefix takes the     *)
(* same lock.  Dials read the status at any time and synthesize addresses  *)
(* with its prefix when it is healthy.                                     *)
(*                                                                         *)
(* Not here: a configuration document that changes the settings writes the *)
(* whole file from its snapshot (ConfigStore.Replace), with the prefix as  *)
(* it was then (ReplaceSettings of AgentApply).                            *)
(***************************************************************************)
EXTENDS Naturals

CONSTANTS
  Prefixes,     \* valid /96 prefixes
  None,         \* no prefix: it is discovered
  MaxChanges    \* bound of the model on the number of changes of the manual prefix

VARIABLES
  manual,     \* NAT64Monitor.manual
  status,     \* NAT64Monitor.status
  check,      \* the check that holds checkMu: who runs it and the prefix it read
  op,         \* the change in progress (OperationsCoordinator.mu)
  file,       \* the prefix in the configuration file and in ConfigStore
  changes     \* how many changes began

vars == <<manual, status, check, op, file, changes>>

NoCheck == [by |-> "nobody"]
NoOp == [at |-> "idle"]

Degraded(isManual, checked) ==
  [healthy |-> FALSE, prefix |-> None, manual |-> isManual, checked |-> checked]

Healthy(isManual, prefix) ==
  [healthy |-> TRUE, prefix |-> prefix, manual |-> isManual, checked |-> TRUE]

\* NewNAT64Monitor
Boot(prefix) ==
  /\ manual = prefix
  /\ status = Degraded(prefix # None, FALSE)
  /\ check = NoCheck
  /\ op = NoOp

Init ==
  /\ file \in Prefixes \cup {None}
  /\ Boot(file)
  /\ changes = 0

-----------------------------------------------------------------------------
\* Check up to the probe: the lock is taken and the manual prefix read.
BeginCheck(by) == check = NoCheck /\ check' = [by |-> by, requested |-> manual]

\* The loop of Run.
CheckBegins ==
  /\ BeginCheck("loop")
  /\ UNCHANGED <<manual, status, op, file, changes>>

\* The administrator waits for the check that ends its change.
AfterCheck == IF check.by = "admin" THEN NoOp ELSE op

\* The probe finds no prefix, or no way through the one it verified.
CheckFails ==
  /\ check # NoCheck
  /\ status' = Degraded(check.requested # None, TRUE)
  /\ op' = AfterCheck
  /\ check' = NoCheck
  /\ UNCHANGED <<manual, file, changes>>

\* The probe verified the manual prefix, or one it discovered.
CheckSucceeds(found) ==
  /\ check # NoCheck
  /\ check.requested # None => found = check.requested
  /\ status' = Healthy(check.requested # None, found)
  /\ op' = AfterCheck
  /\ check' = NoCheck
  /\ UNCHANGED <<manual, file, changes>>

-----------------------------------------------------------------------------
\* SetManualNAT64 up to the call of SetManualPrefix.
Change(prefix) ==
  /\ op = NoOp
  /\ changes < MaxChanges
  /\ changes' = changes + 1
  /\ op' = [at |-> "setting", to |-> prefix, before |-> manual]
  /\ UNCHANGED <<manual, status, check, file>>

\* Mutant: the prefix is set while a check is on its way.
SetAnyTime(prefix) ==
  /\ manual' = prefix
  /\ status' = Degraded(prefix # None, FALSE)
  /\ UNCHANGED check

\* SetManualPrefix
Set(prefix) ==
  /\ check = NoCheck
  /\ manual' = prefix
  /\ status' = Degraded(prefix # None, FALSE)
  /\ UNCHANGED check

SetManual ==
  /\ op.at = "setting"
  /\ Set(op.to)
  /\ op' = [op EXCEPT !.at = "saving"]
  /\ UNCHANGED <<file, changes>>

Save ==
  /\ op.at = "saving"
  /\ file' = op.to
  /\ op' = [op EXCEPT !.at = "checking"]
  /\ UNCHANGED <<manual, status, check, changes>>

SaveFails ==
  /\ op.at = "saving"
  /\ op' = [op EXCEPT !.at = "undoing"]
  /\ UNCHANGED <<manual, status, check, file, changes>>

Undo ==
  /\ op.at = "undoing"
  /\ Set(op.before)
  /\ op' = [op EXCEPT !.at = "checking"]
  /\ UNCHANGED <<file, changes>>

\* The check that ends a change, or its rollback.
CheckChange ==
  /\ op.at = "checking"
  /\ BeginCheck("admin")
  /\ op' = [op EXCEPT !.at = "checked"]
  /\ UNCHANGED <<manual, status, file, changes>>

\* The process ends at any point; the next one reads the file.
Restart ==
  /\ manual' = file
  /\ status' = Degraded(file # None, FALSE)
  /\ check' = NoCheck
  /\ op' = NoOp
  /\ UNCHANGED <<file, changes>>

Next ==
  \/ CheckBegins
  \/ CheckFails
  \/ \E found \in Prefixes : CheckSucceeds(found)
  \/ \E prefix \in Prefixes \cup {None} : Change(prefix)
  \/ SetManual
  \/ Save
  \/ SaveFails
  \/ Undo
  \/ CheckChange
  \/ Restart

Spec == Init /\ [][Next]_vars

-----------------------------------------------------------------------------
\* The manual prefix is in force: whatever check is on its way, the published status is about
\* the one that was set last, so addresses are never synthesized with a prefix that was
\* replaced; and between two changes that is the one in the file, also after a save that
\* failed (monitor.go:67, 112, operations_service.go:229).  (What the file holds is what
\* changes of the prefix put there: not while a document, which replaces the whole file, is
\* applied beside them.)
ManualIsInForce ==
  /\ status.manual = (manual # None)
  /\ manual # None /\ status.healthy => status.prefix = manual
  /\ op = NoOp => manual = file
=============================================================================
