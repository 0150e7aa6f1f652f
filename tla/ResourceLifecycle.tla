------------------------- MODULE ResourceLifecycle -------------------------
(***************************************************************************)
(* ResourceStore implements AddressLifecycle: the abstract status of an    *)
(* address, read off the pools and the fixed names (never off the          *)
(* reference counts, which are what could be wrong).                       *)
(***************************************************************************)
EXTENDS ResourceStore

ServingPools(a) == {p \in DOMAIN pools : a \in Automatic(pools[p])}
DrainingPools(a) == {p \in DOMAIN pools : \E b \in pools[p].draining : a \in b.addresses}

Status ==
  [a \in Addrs |->
     IF a \in FixedAddresses THEN <<"fixed">>
     ELSE IF ServingPools(a) # {} THEN <<"served", CHOOSE p \in ServingPools(a) : TRUE>>
     ELSE IF DrainingPools(a) # {} THEN <<"draining", CHOOSE p \in DrainingPools(a) : TRUE>>
     ELSE <<"free">>]

Lifecycle == INSTANCE AddressLifecycle WITH Address <- Addrs, Owner <- PoolNames, status <- Status

(***************************************************************************)
(* Every step of the store is a step of the life cycle of its addresses.   *)
(***************************************************************************)
LifecycleSpec == Lifecycle!Spec
=============================================================================
