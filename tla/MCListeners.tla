---------------------------- MODULE MCListeners ----------------------------
(***************************************************************************)
(* Instances of Listeners for TLC: a host with two addresses.  Bindings is *)
(* closed under permutations of the addresses, so they are interchangeable *)
(* as nodes, ports and associations are.                                   *)
(***************************************************************************)
EXTENDS Listeners, TLC

CONSTANTS x, y, n1, n2, u1, u2, p1, p2

MCSymmetry ==
  Permutations({x, y}) \cup Permutations(Nodes) \cup Permutations(Associations) \cup
  Permutations({p1, p2})
=============================================================================
