----------------------- MODULE NetworkOwnershipProofs -----------------------
(***************************************************************************)
(* For any references, any templates and any number of failures, crashes   *)
(* and foreign changes: the ledger covers what the program added, and what *)
(* others added stays.                                                     *)
(***************************************************************************)
EXTENDS NetworkOwnership, TLAPS

USE TemplateAssumption, BoundAssumption

LEMMA InitRecorded == Init => Recorded
<1> SUFFICES ASSUME Init PROVE Recorded
  OBVIOUS
<1> USE DEF Init, Rest
<1>1. TypeOK
  <2>1. host \in [Refs -> {"absent", "ours", "foreign"}]
    OBVIOUS
  <2>2. failed \in BOOLEAN
    OBVIOUS
  <2>3. faults \in 0 .. MaxFaults /\ crashes \in 0 .. MaxCrashes
    OBVIOUS
  <2> QED BY <2>1, <2>2, <2>3 DEF TypeOK, Stages
<1>2. Ours = {}
  BY DEF Ours
<1> QED BY <1>1, <1>2 DEF Recorded

\* The first half: stale references leave the host before they leave the ledger.
LEMMA RemovalRecorded ==
  ASSUME Recorded,
         \/ \E D \in SUBSET UNION Templates : Reconcile(D) \/ ReconcileUnread(D)
         \/ \E r \in Refs : RemoveStale(r) \/ KeepStale(r)
         \/ SaveStale \/ SaveStaleFails
  PROVE  Recorded'
<1> USE DEF Recorded, TypeOK, Stages, Ours, Foreign, Present, Fault, Put
<1>1. ASSUME NEW D \in SUBSET UNION Templates, Reconcile(D) PROVE Recorded'
  BY <1>1 DEF Reconcile
<1>2. ASSUME NEW D \in SUBSET UNION Templates, ReconcileUnread(D) PROVE Recorded'
  BY <1>2 DEF ReconcileUnread
<1>3. ASSUME NEW r \in Refs, RemoveStale(r) PROVE Recorded'
  <2>1. CASE r \in seen
    BY <1>3, <2>1 DEF RemoveStale
  <2>2. CASE r \notin seen
    BY <1>3, <2>2 DEF RemoveStale
  <2> QED BY <2>1, <2>2
<1>4. ASSUME NEW r \in Refs, KeepStale(r) PROVE Recorded'
  BY <1>4 DEF KeepStale
<1>5. CASE SaveStale
  BY <1>5 DEF SaveStale
<1>6. CASE SaveStaleFails
  BY <1>6 DEF SaveStaleFails
<1> HIDE DEF Recorded
<1> QED BY <1>1, <1>2, <1>3, <1>4, <1>5, <1>6

\* The second half, up to the last address added.
LEMMA ApplyRecorded ==
  ASSUME Recorded,
         \/ \E t \in Templates : Choose(t) \/ ChooseFails(t)
         \/ SaveIntent \/ SaveIntentFails
         \/ \E r \in Refs : Add(r)
         \/ ApplyFails \/ Applied
  PROVE  Recorded'
<1> USE DEF Recorded, TypeOK, Stages, Ours, Foreign, Present, Fault, Put
<1>1. ASSUME NEW t \in Templates, Choose(t) PROVE Recorded'
  BY <1>1 DEF Choose
<1>2. ASSUME NEW t \in Templates, ChooseFails(t) PROVE Recorded'
  BY <1>2 DEF ChooseFails
<1>3. CASE SaveIntent
  BY <1>3 DEF SaveIntent
<1>4. CASE SaveIntentFails
  BY <1>4 DEF SaveIntentFails
<1>5. ASSUME NEW r \in Refs, Add(r) PROVE Recorded'
  BY <1>5 DEF Add
<1>6. CASE ApplyFails
  BY <1>6 DEF ApplyFails
<1>7. CASE Applied
  BY <1>7 DEF Applied
<1> QED BY <1>1, <1>2, <1>3, <1>4, <1>5, <1>6, <1>7

\* The rollback, the end, and what happens to the process and the host from outside.
LEMMA UndoRecorded ==
  ASSUME Recorded,
         \/ \E r \in Refs : Undo(r) \/ UndoFails(r) \/ ForeignAdd(r) \/ ForeignRemove(r)
         \/ Restore \/ RestoreFails \/ Finish \/ Crash
  PROVE  Recorded'
<1> USE DEF Recorded, TypeOK, Stages, Ours, Foreign, Present, Fault, Put, work
<1>1. ASSUME NEW r \in Refs, Undo(r) PROVE Recorded'
  BY <1>1 DEF Undo
<1>2. ASSUME NEW r \in Refs, UndoFails(r) PROVE Recorded'
  BY <1>2 DEF UndoFails
<1>3. ASSUME NEW r \in Refs, ForeignAdd(r) PROVE Recorded'
  BY <1>3 DEF ForeignAdd
<1>4. ASSUME NEW r \in Refs, ForeignRemove(r) PROVE Recorded'
  BY <1>4 DEF ForeignRemove
<1>5. CASE Restore
  BY <1>5 DEF Restore
<1>6. CASE RestoreFails
  BY <1>6 DEF RestoreFails
<1>7. CASE Finish
  BY <1>7 DEF Finish
<1>8. CASE Crash
  <2>1. crashes' \in 0 .. MaxCrashes
    BY <1>8 DEF Crash
  <2>2. failed' \in BOOLEAN
    BY <1>8 DEF Crash
  <2> QED BY <1>8, <2>1, <2>2 DEF Crash
<1> QED BY <1>1, <1>2, <1>3, <1>4, <1>5, <1>6, <1>7, <1>8

LEMMA NextRecorded == Recorded /\ [Next]_vars => Recorded'
<1> SUFFICES ASSUME Recorded, [Next]_vars PROVE Recorded'
  OBVIOUS
<1>1. CASE UNCHANGED vars
  BY <1>1 DEF vars, work, Recorded, TypeOK, Ours, Foreign
<1>2. CASE Next
  BY <1>2, RemovalRecorded, ApplyRecorded, UndoRecorded DEF Next
<1> QED BY <1>1, <1>2

(***************************************************************************)
(* Host and ledger agree at every point at which the program can fail or   *)
(* die: everything the program added to the host is in the ledger, and     *)
(* nothing in the ledger belongs to somebody else.                         *)
(***************************************************************************)
THEOREM AlwaysRecorded == Spec => []Recorded
BY InitRecorded, NextRecorded, PTL DEF Spec

\* A step that takes something off the host takes it from the ledger's entries.
LEMMA NextForeign == Recorded /\ [Next]_vars => Foreign \subseteq Foreign'
<1> SUFFICES ASSUME Recorded, [Next]_vars, NEW x \in Refs, host[x] = "foreign"
             PROVE  host'[x] = "foreign"
  BY DEF Foreign
<1> USE DEF Recorded, TypeOK, Ours, Foreign, Put
<1>1. ASSUME NEW r \in Refs, RemoveStale(r) PROVE host'[x] = "foreign"
  BY <1>1 DEF RemoveStale
<1>2. ASSUME NEW r \in Refs, Add(r) PROVE host'[x] = "foreign"
  BY <1>2 DEF Add
<1>3. ASSUME NEW r \in Refs, Undo(r) PROVE host'[x] = "foreign"
  BY <1>3 DEF Undo
<1>4. ASSUME NEW r \in Refs, ForeignAdd(r) \/ ForeignRemove(r) PROVE host'[x] = "foreign"
  BY <1>4 DEF ForeignAdd, ForeignRemove
<1>5. CASE UNCHANGED host
  BY <1>5
<1>6. \/ \E r \in Refs : RemoveStale(r) \/ Add(r) \/ Undo(r) \/ ForeignAdd(r) \/ ForeignRemove(r)
      \/ UNCHANGED host
  BY DEF Next, vars, Reconcile, ReconcileUnread, KeepStale, SaveStale, SaveStaleFails, Choose,
         ChooseFails, SaveIntent, SaveIntentFails, UndoFails, ApplyFails, Applied, Restore,
         RestoreFails, Finish, Crash
<1> QED BY <1>1, <1>2, <1>3, <1>4, <1>5, <1>6

(***************************************************************************)
(* No step of the program removes an address or a route that somebody else *)
(* added, nor makes it its own.                                            *)
(***************************************************************************)
THEOREM ForeignIsKept == Spec => ForeignKept
<1>1. Recorded /\ [Next]_vars => [Foreign \subseteq Foreign']_vars
  BY NextForeign
<1> QED BY InitRecorded, NextRecorded, <1>1, PTL DEF Spec, ForeignKept

-----------------------------------------------------------------------------
(***************************************************************************)
(* The rollback: what is on the host and was not there when the template   *)
(* was examined is what the template added and has yet to take back.  The  *)
(* call that sent it into the rollback was one failure; a second one may   *)
(* leave an address behind.                                                *)
(***************************************************************************)
RollsBack ==
  /\ stage \in {"recording", "adding"} => Ours \ added \subseteq seen
  /\ stage = "undoing" => faults >= 1 /\ (faults = 1 => Ours \ added \subseteq seen)

LEMMA NextRollsBack ==
  ASSUME Recorded, RollsBack, [Next]_vars
  PROVE  RollsBack'
<1> USE DEF RollsBack, Recorded, TypeOK, Ours, Present, Fault, Put
<1>1. ASSUME NEW t \in Templates, Choose(t) PROVE RollsBack'
  BY <1>1 DEF Choose
<1>2. CASE SaveIntent
  BY <1>2 DEF SaveIntent
<1>3. ASSUME NEW r \in Refs, Add(r) PROVE RollsBack'
  <2>1. Ours' = Ours \cup {r} /\ added' = added \cup {r}
    BY <1>3 DEF Add
  <2> QED BY <1>3, <2>1 DEF Add
<1>4. CASE ApplyFails
  BY <1>4 DEF ApplyFails
<1>5. ASSUME NEW r \in Refs, Undo(r) PROVE RollsBack'
  <2>1. Ours' = Ours \ {r} /\ added' = added \ {r}
    BY <1>5 DEF Undo
  <2> QED BY <1>5, <2>1 DEF Undo
<1>6. ASSUME NEW r \in Refs, UndoFails(r) PROVE RollsBack'
  BY <1>6 DEF UndoFails
<1>7. CASE stage' \notin {"recording", "adding", "undoing"}
  BY <1>7
<1>8. CASE UNCHANGED vars
  BY <1>8 DEF vars, work
<1> QED BY <1>1, <1>2, <1>3, <1>4, <1>5, <1>6, <1>7, <1>8
  DEF Next, Reconcile, ReconcileUnread, RemoveStale, KeepStale, SaveStale, SaveStaleFails, ChooseFails,
      SaveIntentFails, Applied, Restore, RestoreFails, Finish, Crash, ForeignAdd, ForeignRemove, work

(***************************************************************************)
(* With one failed call ever, nothing that the template being undone added *)
(* is on the host when its undoing ends.  The ledger, stale entries and    *)
(* what other templates added are no part of it.                           *)
(***************************************************************************)
THEOREM BatchRollsBack == Spec => []AllOrNothing
<1>1. Init => RollsBack
  BY DEF Init, Rest, RollsBack
<1>2. Recorded /\ RollsBack /\ [Next]_vars => RollsBack'
  BY NextRollsBack
<1>3. RollsBack => AllOrNothing
  BY DEF RollsBack, AllOrNothing
<1> QED BY InitRecorded, NextRecorded, <1>1, <1>2, <1>3, PTL DEF Spec

-----------------------------------------------------------------------------
(***************************************************************************)
(* As long as nothing has failed, a wanted reference is on the host, is    *)
(* about to be added, or belongs to a template that has yet to be applied; *)
(* the ledger has nothing else once the stale references are gone.         *)
(***************************************************************************)
InReach(r) ==
  \/ \E t \in waiting : r \in t
  \/ stage # "removing" /\ host[r] = "ours"
  \/ stage \in {"recording", "adding"} /\ r \in todo

Unfailed == stage # "idle" /\ ~failed =>
  /\ stage # "undoing"
  /\ \A r \in desired : r \in Refs /\ InReach(r)
  /\ stage = "removing" => copy \ desired \subseteq todo
  /\ stage # "removing" => ledger \subseteq desired
  /\ stage \in {"recording", "adding"} => todo \subseteq desired

LEMMA NextUnfailed ==
  ASSUME Recorded, Unfailed, [Next]_vars
  PROVE  Unfailed'
<1> USE DEF Unfailed, InReach, Recorded, TypeOK, Ours, Foreign, Present, Fault, Put
<1>1. ASSUME NEW D \in SUBSET UNION Templates, Reconcile(D) PROVE Unfailed'
  BY <1>1, TemplateAssumption DEF Reconcile
<1>2. ASSUME NEW r \in Refs, RemoveStale(r) PROVE Unfailed'
  BY <1>2 DEF RemoveStale
<1>3. CASE SaveStale
  BY <1>3 DEF SaveStale
<1>4. ASSUME NEW t \in Templates, Choose(t) PROVE Unfailed'
  <2>1. CASE (t \cap desired \cap Present) \subseteq ledger
    <3>1. /\ stage = "choosing" /\ waiting' = waiting \ {t} /\ todo' = (t \cap desired) \ Present
          /\ stage' = "recording" /\ UNCHANGED <<host, ledger, desired, failed>>
      BY <1>4, <2>1 DEF Choose
    <3>2. ASSUME ~failed, NEW r \in desired PROVE r \in Refs /\ InReach(r)'
      <4>1. r \in Refs /\ InReach(r)
        BY <3>1, <3>2
      <4>2. CASE \E u \in waiting : r \in u /\ u # t
        BY <3>1, <4>1, <4>2
      <4>3. CASE host[r] = "ours"
        BY <3>1, <4>1, <4>3
      <4>4. CASE r \in t /\ r \notin Present
        BY <3>1, <4>1, <4>4
      <4>5. CASE r \in t /\ r \in Present
        <5>1. host[r] = "ours"
          BY <2>1, <3>2, <4>1, <4>5
        <5> QED BY <3>1, <4>1, <5>1
      <4> QED BY <3>1, <4>1, <4>2, <4>3, <4>4, <4>5
    <3> QED BY <3>1, <3>2
  <2>2. CASE ~((t \cap desired \cap Present) \subseteq ledger)
    BY <1>4, <2>2 DEF Choose
  <2> QED BY <2>1, <2>2
<1>5. CASE SaveIntent
  BY <1>5 DEF SaveIntent
<1>6. ASSUME NEW r \in Refs, Add(r) PROVE Unfailed'
  BY <1>6 DEF Add
<1>7. CASE Applied
  BY <1>7 DEF Applied
<1>8. CASE stage' = "idle" \/ failed'
  BY <1>8
<1>9. CASE UNCHANGED vars
  BY <1>9 DEF vars, work
<1>10. CASE stage = "undoing" /\ UNCHANGED failed
  <2>1. failed
    BY <1>10
  <2> QED BY <1>10, <2>1
<1> QED BY <1>1, <1>2, <1>3, <1>4, <1>5, <1>6, <1>7, <1>8, <1>9, <1>10
  DEF Next, ReconcileUnread, KeepStale, SaveStaleFails, ChooseFails, SaveIntentFails, ApplyFails, Undo,
      UndoFails, Restore, RestoreFails, Finish, Crash, ForeignAdd, ForeignRemove, work

(***************************************************************************)
(* A reconciliation that ends without an error has brought the host and    *)
(* the ledger to exactly what was wanted.                                  *)
(***************************************************************************)
THEOREM ExactOnSuccess == Spec => SuccessIsExact
<1>1. Init => Unfailed
  BY DEF Init, Rest, Unfailed
<1>2. Recorded /\ Unfailed /\ [Next]_vars => Unfailed'
  BY NextUnfailed
<1>3. Recorded /\ Unfailed /\ [Next]_vars => [Finish /\ ~failed => Ours = desired /\ ledger = desired]_vars
  <2> SUFFICES ASSUME Recorded, Unfailed, Finish, ~failed
               PROVE  Ours = desired /\ ledger = desired
    OBVIOUS
  <2>1. desired \subseteq Ours /\ ledger \subseteq desired
    BY DEF Finish, Unfailed, InReach, Ours
  <2> QED BY <2>1 DEF Recorded
<1> QED BY InitRecorded, NextRecorded, <1>1, <1>2, <1>3, PTL DEF Spec, SuccessIsExact
=============================================================================
