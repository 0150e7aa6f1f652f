-------------------------- MODULE MCResourceStore --------------------------
(***************************************************************************)
(* Instances of ResourceStore and its refinement for TLC.                  *)
(***************************************************************************)
EXTENDS ResourceLifecycle, TLC

CONSTANTS t1, t2, f1, f2, p1, p2

\* One prefix of four addresses, and one that overlaps its end.
MCPrefixes == {[lo |-> 0, hi |-> 3], [lo |-> 3, hi |-> 4]}

MCSymmetry == Permutations({t1, t2}) \cup Permutations({f1, f2}) \cup Permutations({p1, p2})
=============================================================================
