--------------------------- MODULE MCOutboundDrain ---------------------------
(***************************************************************************)
(* Instances of OutboundDrain for TLC.                                     *)
(***************************************************************************)
EXTENDS OutboundDrain, TLC

CONSTANTS a1, a2, a3

MCSymmetry == Permutations(Addresses)
=============================================================================
