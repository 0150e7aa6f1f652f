-------------------------- MODULE NetworkOwnership --------------------------
(***************************************************************************)
(* The network manager (internal/network): it brings the addresses and     *)
(* local routes of the host to the ones the resources want, and records in *)
(* a file, the ledger, which of them are its own.  The ledger is written   *)
(* before an address is added and after one is removed, so that a crash or *)
(* a failure in between leaves nothing on the host that nobody owns.       *)
(*                                                                         *)
(* A reference is an address on an interface, or the local route of a      *)
(* template; a template in local-route mode wants just that route, and     *)
(* goes through the same steps as the addresses of one in address mode.    *)
(***************************************************************************)
EXTENDS Naturals, FiniteSets

CONSTANTS
  Refs,        \* references to addresses and routes
  Templates,   \* the sets of references that belong to one template each
  MaxFaults,   \* bound of the model on failing calls of the kernel and the file system
  MaxCrashes   \* bound of the model on the number of crashes

ASSUME TemplateAssumption == Templates \subseteq SUBSET Refs
ASSUME BoundAssumption == MaxFaults \in Nat /\ MaxCrashes \in Nat

VARIABLES
  host,        \* reference -> whether the host has it, and from whom
  ledger,      \* the ownership file
  stage,       \* how far the reconciliation has come
  desired,     \* what it reconciles the host with
  waiting,     \* the templates it has yet to apply
  seen,        \* what the last dump of the host showed
  todo,        \* the references the current loop has yet to visit
  copy,        \* the ownership it will write: the new one, or the one to restore
  added,       \* what the current template has added to the host
  failed,      \* set when some call has failed
  faults,
  crashes

work == <<stage, desired, waiting, seen, todo, copy, added, failed>>
vars == <<host, ledger, work, faults, crashes>>

Stages == {"idle", "removing", "choosing", "recording", "adding", "undoing"}

\* The shape of the state.
TypeOK ==
  /\ host \in [Refs -> {"absent", "ours", "foreign"}]
  /\ stage \in Stages
  /\ failed \in BOOLEAN
  /\ waiting \subseteq Templates
  /\ ledger \subseteq Refs /\ desired \subseteq Refs /\ seen \subseteq Refs
  /\ todo \subseteq Refs /\ copy \subseteq Refs /\ added \subseteq Refs
  /\ faults \in 0 .. MaxFaults
  /\ crashes \in 0 .. MaxCrashes

Rest ==
  /\ stage = "idle"
  /\ desired = {} /\ waiting = {} /\ seen = {} /\ todo = {} /\ copy = {} /\ added = {}
  /\ failed = FALSE

Init ==
  /\ host \in [Refs -> {"absent", "foreign"}]
  /\ ledger = {}
  /\ Rest
  /\ faults = 0
  /\ crashes = 0

Present == {r \in Refs : host[r] # "absent"}

\* A call of the kernel or of the file system returns an error and has no effect.
Fault == faults < MaxFaults /\ faults' = faults + 1

Put(r, owner) == host' = [host EXCEPT ![r] = owner]

-----------------------------------------------------------------------------
(***************************************************************************)
(* Reconcile, first half: remove what the ledger holds and nobody wants.   *)
(***************************************************************************)
\* Mutant: whatever nobody wants is removed, owned or not.
ReconcileEverything(D) ==
  /\ stage = "idle"
  /\ desired' = D
  /\ waiting' = {t \in Templates : t \cap D # {}}
  /\ copy' = ledger
  /\ todo' = Present \ D
  /\ seen' = Present
  /\ failed' = FALSE
  /\ stage' = "removing"
  /\ UNCHANGED <<host, ledger, added, faults, crashes>>

Reconcile(D) ==
  /\ stage = "idle"
  /\ desired' = D
  /\ waiting' = {t \in Templates : t \cap D # {}}
  /\ copy' = ledger
  /\ todo' = ledger \ D
  /\ seen' = Present
  /\ failed' = FALSE
  /\ stage' = "removing"
  /\ UNCHANGED <<host, ledger, added, faults, crashes>>

\* The ledger cannot be read: nothing is removed, the templates are applied all the same.
ReconcileUnread(D) ==
  /\ stage = "idle"
  /\ Fault
  /\ desired' = D
  /\ waiting' = {t \in Templates : t \cap D # {}}
  /\ failed' = TRUE
  /\ stage' = "choosing"
  /\ UNCHANGED <<host, ledger, seen, todo, copy, added, crashes>>

RemoveStale(r) ==
  /\ stage = "removing" /\ r \in todo
  /\ todo' = todo \ {r}
  /\ IF r \in seen THEN host[r] # "absent" /\ Put(r, "absent") ELSE UNCHANGED host
  /\ copy' = copy \ {r}
  /\ UNCHANGED <<ledger, stage, desired, waiting, seen, added, failed, faults, crashes>>

\* It cannot be looked up, or cannot be removed.
KeepStale(r) ==
  /\ stage = "removing" /\ r \in todo
  /\ Fault
  /\ todo' = todo \ {r}
  /\ failed' = TRUE
  /\ UNCHANGED <<host, ledger, stage, desired, waiting, seen, copy, added, crashes>>

SaveStale ==
  /\ stage = "removing" /\ todo = {}
  /\ ledger' = copy
  /\ stage' = "choosing"
  /\ UNCHANGED <<host, desired, waiting, seen, todo, copy, added, failed, faults, crashes>>

SaveStaleFails ==
  /\ stage = "removing" /\ todo = {} /\ copy # ledger
  /\ Fault
  /\ failed' = TRUE
  /\ stage' = "choosing"
  /\ UNCHANGED <<host, ledger, desired, waiting, seen, todo, copy, added, crashes>>

-----------------------------------------------------------------------------
(***************************************************************************)
(* Reconcile, second half: apply each template.                            *)
(***************************************************************************)
\* Mutant: what the ledger holds is taken to be on the host.
ChooseByLedger(t) ==
  /\ stage = "choosing" /\ t \in waiting
  /\ waiting' = waiting \ {t}
  /\ copy' = ledger
  /\ seen' = Present
  /\ IF (t \cap desired \cap Present) \subseteq ledger
       THEN /\ todo' = (t \cap desired) \ ledger
            /\ stage' = "recording"
            /\ UNCHANGED failed
       ELSE /\ failed' = TRUE
            /\ UNCHANGED <<todo, stage>>
  /\ UNCHANGED <<host, ledger, desired, added, faults, crashes>>

Choose(t) ==
  /\ stage = "choosing" /\ t \in waiting
  /\ waiting' = waiting \ {t}
  /\ copy' = ledger
  /\ seen' = Present
  /\ IF (t \cap desired \cap Present) \subseteq ledger
       THEN /\ todo' = (t \cap desired) \ Present
            /\ stage' = "recording"
            /\ UNCHANGED failed
       ELSE /\ failed' = TRUE
            /\ UNCHANGED <<todo, stage>>
  /\ UNCHANGED <<host, ledger, desired, added, faults, crashes>>

\* The host cannot be dumped or the ledger read: the template is left alone.
ChooseFails(t) ==
  /\ stage = "choosing" /\ t \in waiting
  /\ Fault
  /\ waiting' = waiting \ {t}
  /\ failed' = TRUE
  /\ UNCHANGED <<host, ledger, stage, desired, seen, todo, copy, added, crashes>>

\* Mutant: addresses are added first and recorded afterwards.
SaveIntentLater ==
  /\ stage = "recording"
  /\ stage' = "adding"
  /\ UNCHANGED <<host, ledger, desired, waiting, seen, todo, copy, added, failed, faults, crashes>>

\* The intent is written before the first address is added.
SaveIntent ==
  /\ stage = "recording"
  /\ ledger' = ledger \cup todo
  /\ stage' = "adding"
  /\ UNCHANGED <<host, desired, waiting, seen, todo, copy, added, failed, faults, crashes>>

SaveIntentFails ==
  /\ stage = "recording" /\ ~(todo \subseteq ledger)
  /\ Fault
  /\ todo' = {}
  /\ failed' = TRUE
  /\ stage' = "choosing"
  /\ UNCHANGED <<host, ledger, desired, waiting, seen, copy, added, crashes>>

\* Mutant: only what the ledger did not hold before is undone when the template fails.
AddForgetting(r) ==
  /\ stage = "adding" /\ r \in todo
  /\ host[r] = "absent"
  /\ Put(r, "ours")
  /\ todo' = todo \ {r}
  /\ added' = added \cup ({r} \ copy)
  /\ UNCHANGED <<ledger, stage, desired, waiting, seen, copy, failed, faults, crashes>>

Add(r) ==
  /\ stage = "adding" /\ r \in todo
  /\ host[r] = "absent"
  /\ Put(r, "ours")
  /\ todo' = todo \ {r}
  /\ added' = added \cup {r}
  /\ UNCHANGED <<ledger, stage, desired, waiting, seen, copy, failed, faults, crashes>>

\* An address cannot be added, or with all added one is found duplicate, not ready in
\* time, or impossible to bind.
ApplyFails ==
  /\ stage = "adding"
  /\ Fault
  /\ todo' = {}
  /\ failed' = TRUE
  /\ stage' = "undoing"
  /\ UNCHANGED <<host, ledger, desired, waiting, seen, copy, added, crashes>>

Applied ==
  /\ stage = "adding" /\ todo = {}
  /\ added' = {}
  /\ stage' = "choosing"
  /\ UNCHANGED <<host, ledger, desired, waiting, seen, todo, copy, failed, faults, crashes>>

Undo(r) ==
  /\ stage = "undoing" /\ r \in added
  /\ Put(r, "absent")
  /\ added' = added \ {r}
  /\ UNCHANGED <<ledger, stage, desired, waiting, seen, todo, copy, failed, faults, crashes>>

\* What cannot be removed again stays owned.
UndoFails(r) ==
  /\ stage = "undoing" /\ r \in added
  /\ Fault
  /\ added' = added \ {r}
  /\ copy' = copy \cup {r}
  /\ UNCHANGED <<host, ledger, stage, desired, waiting, seen, todo, failed, crashes>>

Restore ==
  /\ stage = "undoing" /\ added = {}
  /\ ledger' = copy
  /\ stage' = "choosing"
  /\ UNCHANGED <<host, desired, waiting, seen, todo, copy, added, failed, faults, crashes>>

RestoreFails ==
  /\ stage = "undoing" /\ added = {}
  /\ Fault
  /\ stage' = "choosing"
  /\ UNCHANGED <<host, ledger, desired, waiting, seen, todo, copy, added, failed, crashes>>

Finish ==
  /\ stage = "choosing" /\ waiting = {}
  /\ stage' = "idle"
  /\ seen' = {} /\ copy' = {}
  /\ UNCHANGED <<host, ledger, desired, waiting, todo, added, failed, faults, crashes>>

-----------------------------------------------------------------------------
\* The process dies; the ledger and the host remain.
Crash ==
  /\ stage # "idle"
  /\ crashes < MaxCrashes
  /\ crashes' = crashes + 1
  /\ stage' = "idle"
  /\ desired' = {} /\ waiting' = {} /\ seen' = {} /\ todo' = {} /\ copy' = {} /\ added' = {}
  /\ failed' = FALSE
  /\ UNCHANGED <<host, ledger, faults>>

\* Between two reconciliations somebody else adds an address the program does not claim,
\* or removes one of the program's.
ForeignAdd(r) ==
  /\ stage = "idle"
  /\ host[r] = "absent" /\ r \notin ledger
  /\ Put(r, "foreign")
  /\ UNCHANGED <<ledger, work, faults, crashes>>

ForeignRemove(r) ==
  /\ stage = "idle"
  /\ host[r] = "ours"
  /\ Put(r, "absent")
  /\ UNCHANGED <<ledger, work, faults, crashes>>

Next ==
  \/ \E D \in SUBSET UNION Templates : Reconcile(D) \/ ReconcileUnread(D)
  \/ \E r \in Refs : RemoveStale(r) \/ KeepStale(r)
  \/ SaveStale \/ SaveStaleFails
  \/ \E t \in Templates : Choose(t) \/ ChooseFails(t)
  \/ SaveIntent \/ SaveIntentFails
  \/ \E r \in Refs : Add(r) \/ Undo(r) \/ UndoFails(r)
  \/ ApplyFails \/ Applied \/ Restore \/ RestoreFails
  \/ Finish
  \/ Crash
  \/ \E r \in Refs : ForeignAdd(r) \/ ForeignRemove(r)

Spec == Init /\ [][Next]_vars

-----------------------------------------------------------------------------
Ours == {r \in Refs : host[r] = "ours"}
Foreign == {r \in Refs : host[r] = "foreign"}

(***************************************************************************)
(* The ledger and the host, at every point at which the program can fail   *)
(* or die: whatever the program added to the host is in the ledger, and    *)
(* would still be there if the reconciliation in progress wrote the copy   *)
(* it holds; the ledger never claims what somebody else added.  So nothing *)
(* is orphaned: what remains is removed or reused after a restart.         *)
(***************************************************************************)
Recorded ==
  /\ TypeOK
  /\ Ours \subseteq ledger
  /\ Foreign \cap ledger = {}
  /\ stage = "removing" => Ours \subseteq copy \cap seen /\ copy \cup todo \subseteq ledger
  /\ stage \in {"recording", "adding", "undoing"} =>
       Ours \ added \subseteq copy /\ Foreign \cap copy = {}
  /\ stage \in {"recording", "adding"} => todo \cap Foreign = {}
  /\ stage \in {"adding", "undoing"} => added \subseteq Ours
  /\ stage = "adding" => todo \subseteq ledger
  /\ stage \notin {"adding", "undoing"} => added = {}

(***************************************************************************)
(* An address or route the program did not add is never removed, nor taken *)
(* over (TestReleaseAndShutdownNeverRemoveUnownedResources).               *)
(***************************************************************************)
ForeignKept == [][Foreign \subseteq Foreign']_vars

(***************************************************************************)
(* A reconciliation that reports success has brought host and ledger to    *)
(* exactly what was wanted, whatever earlier ones and crashes left behind  *)
(* and whatever was removed by hand.                                       *)
(***************************************************************************)
SuccessIsExact == [][Finish /\ ~failed => Ours = desired /\ ledger = desired]_vars

(***************************************************************************)
(* README: when one address fails or is not ready in time, the whole batch *)
(* is rolled back.  With one failing call ever, nothing that the template  *)
(* being undone added is left on the host when its undoing ends.           *)
(***************************************************************************)
AllOrNothing == stage = "undoing" /\ added = {} /\ faults = 1 => Ours \subseteq seen
=============================================================================
