-------------------------- MODULE AddressLifecycle --------------------------
(***************************************************************************)
(* What the resource store promises about one address: it is free, or      *)
(* reserved under a fixed name, or served by exactly one pool, or draining *)
(* out of exactly one pool.  An address a pool served becomes free only    *)
(* through that pool's drain or through the pool's deletion, and a         *)
(* draining address is never served again before it was free.              *)
(***************************************************************************)
CONSTANTS
  Address,    \* the addresses
  Owner       \* the pools that can serve them

VARIABLE status   \* address -> its place in the life cycle

Free == <<"free">>
Fixed == <<"fixed">>
Served(p) == <<"served", p>>
Draining(p) == <<"draining", p>>

Become(S, value) == [a \in Address |-> IF a \in S THEN value ELSE status[a]]

Init == status = [a \in Address |-> Free]

Reserve(a) == status[a] = Free /\ status' = Become({a}, Fixed)

Unreserve(a) == status[a] = Fixed /\ status' = Become({a}, Free)

\* Pool p takes the free addresses S; what it served before, all of it, drains.
Serve(p, S) ==
  /\ \A a \in S : status[a] = Free
  /\ status' = [a \in Address |-> IF a \in S THEN Served(p)
                                  ELSE IF status[a] = Served(p) THEN Draining(p)
                                  ELSE status[a]]

Drained(p, S) ==
  /\ \A a \in S : status[a] = Draining(p)
  /\ status' = Become(S, Free)

Dispose(p) ==
  status' = Become({a \in Address : status[a] \in {Served(p), Draining(p)}}, Free)

Next ==
  \/ \E a \in Address : Reserve(a) \/ Unreserve(a)
  \/ \E p \in Owner, S \in SUBSET Address : Serve(p, S) \/ Drained(p, S)
  \/ \E p \in Owner : Dispose(p)

Spec == Init /\ [][Next]_status
=============================================================================
