--------------------------- MODULE MCNodeManager ---------------------------
(***************************************************************************)
(* Instances of NodeManager for TLC.                                       *)
(***************************************************************************)
EXTENDS NodeManager, TLC

CONSTANTS n1, n2, p1, p2, s1, s2, f1, f2

MCSymmetry == Permutations(Ports) \cup Permutations(Settings) \cup Permutations(Folders)
=============================================================================
