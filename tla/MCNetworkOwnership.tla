------------------------- MODULE MCNetworkOwnership -------------------------
(***************************************************************************)
(* An instance of NetworkOwnership for TLC: a template with two addresses  *)
(* and one with its local route.                                           *)
(***************************************************************************)
EXTENDS NetworkOwnership, TLC

CONSTANTS a1, a2, route

MCSymmetry == Permutations({a1, a2})
=============================================================================
