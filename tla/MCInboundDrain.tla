--------------------------- MODULE MCInboundDrain ---------------------------
(***************************************************************************)
(* Instances of InboundDrain for TLC.                                      *)
(***************************************************************************)
EXTENDS InboundDrain, TLC

CONSTANTS a1, a2, a3, n1, n2

MCSymmetry == Permutations(Addresses) \cup Permutations(Nodes)

\* Bound: what follows a failure is explored while at most one node runs.
FewNodesFail == faults > 0 => Cardinality(running) <= 1
=============================================================================
