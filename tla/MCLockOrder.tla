---------------------------- MODULE MCLockOrder ----------------------------
(***************************************************************************)
(* An instance of LockOrder for TLC; MCServices has another.               *)
(***************************************************************************)
EXTENDS LockOrder, TLC

CONSTANTS t1, n1, n2

\* Every node exists when the run begins: the first operation on a dedicated one deletes it.
FullSpec == nodes = Nodes /\ FairSpec
=============================================================================
