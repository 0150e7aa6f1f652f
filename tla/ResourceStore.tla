--------------------------- MODULE ResourceStore ---------------------------
(***************************************************************************)
(* The IPv6 resource store (internal/ipv6resource): prefix templates,      *)
(* named fixed addresses, address pools, and the canonical table that      *)
(* counts how many of them hold each address.                              *)
(*                                                                         *)
(* Every exported mutator of Store runs under the store's mutex, so each   *)
(* is one action; a call the code refuses changes nothing and is a guard   *)
(* here.  An address is a natural number and a prefix an interval of       *)
(* them; a Go map is a function whose DOMAIN is the map's key set.         *)
(***************************************************************************)
EXTENDS Naturals, FiniteSets

CONSTANTS
  TemplateNames,  \* names a caller gives to templates
  Prefixes,       \* prefixes a caller asks for, records [lo, hi]; they may overlap
  FixedNames,     \* names of fixed addresses
  PoolNames,      \* names of pools
  MaxPoolSize,    \* largest pool capacity
  MaxBatch        \* bound of the model on the number of drain batches

ASSUME NamesAssumption ==
  /\ IsFiniteSet(FixedNames)
  /\ IsFiniteSet(PoolNames)

ASSUME PrefixAssumption ==
  /\ Prefixes \subseteq [lo : Nat, hi : Nat]
  /\ \A x \in Prefixes : x.lo <= x.hi

ASSUME BoundAssumption == MaxPoolSize \in Nat /\ MaxBatch \in Nat

VARIABLES
  templates,      \* name -> [prefix, mode]
  fixed,          \* name -> [template, address, ownership]
  addresses,      \* address -> [template, ownership, references], the canonical table
  pools,          \* name -> [template, capacity, pinned, active, draining]
  nextBatch,      \* the number of the last drain batch handed out
  nextAddresses   \* prefix -> the address at which the next walk starts

vars == <<templates, fixed, addresses, pools, nextBatch, nextAddresses>>

Modes == {"address", "local-route-freebind", "external"}
Ownerships == {"address", "local-route", "external"}

InPrefix(x) == x.lo .. x.hi
Addrs == UNION {InPrefix(x) : x \in Prefixes}

Template == [prefix : Prefixes, mode : Modes]
FixedAddress == [template : TemplateNames, address : Addrs, ownership : Ownerships]
CanonicalAddress == [template : TemplateNames, ownership : Ownerships, references : Nat]
DrainBatch == [id : Nat, addresses : SUBSET Addrs]
Pool == [template : TemplateNames, capacity : 1 .. MaxPoolSize, pinned : SUBSET Addrs,
         active : SUBSET Addrs, draining : SUBSET DrainBatch]

\* Templates, fixed addresses, pools and cursors refer to names, prefixes and addresses a
\* caller can give: no walk or completion leaves the prefixes.
TypeOK ==
  /\ DOMAIN templates \subseteq TemplateNames
  /\ templates \in [DOMAIN templates -> Template]
  /\ DOMAIN fixed \subseteq FixedNames
  /\ fixed \in [DOMAIN fixed -> FixedAddress]
  /\ DOMAIN addresses \subseteq Addrs
  /\ addresses \in [DOMAIN addresses -> CanonicalAddress]
  /\ DOMAIN pools \subseteq PoolNames
  /\ pools \in [DOMAIN pools -> Pool]
  /\ nextBatch \in Nat
  /\ DOMAIN nextAddresses \subseteq Prefixes
  /\ nextAddresses \in [DOMAIN nextAddresses -> Addrs]

(***************************************************************************)
(* Maps: m[key] = value and delete(m, key).                                *)
(***************************************************************************)
Put(m, key, value) == [x \in DOMAIN m \cup {key} |-> IF x = key THEN value ELSE m[x]]
Delete(m, key) == [x \in DOMAIN m \ {key} |-> m[x]]

OwnershipForMode(mode) ==
  CASE mode = "external" -> "external"
    [] mode = "local-route-freebind" -> "local-route"
    [] mode = "address" -> "address"

PrefixesOverlap(x, y) == x.lo \in InPrefix(y) \/ y.lo \in InPrefix(x)

(***************************************************************************)
(* The walk that picks automatic addresses: from the position kept for the *)
(* prefix upwards, around its end, taking the free addresses it meets.     *)
(***************************************************************************)
Begin(x) ==
  IF x \in DOMAIN nextAddresses /\ nextAddresses[x] \in InPrefix(x)
    THEN nextAddresses[x] ELSE x.lo

Steps(x, a) == IF a >= Begin(x) THEN a - Begin(x) ELSE (x.hi + 1 - Begin(x)) + (a - x.lo)

Free(x) == InPrefix(x) \ DOMAIN addresses

\* The results the generator can return: one set, or none when too few are free.
FirstFree(x, count) ==
  {S \in SUBSET Free(x) : /\ Cardinality(S) = count
                          /\ \A a \in S, b \in Free(x) \ S : Steps(x, a) < Steps(x, b)}

\* Mutant: the cursor is not wrapped at the end of the prefix.
AfterUnwrapped(x, a) == a + 1

After(x, a) == IF a + 1 \in InPrefix(x) THEN a + 1 ELSE x.lo

Last(x, new) == {a \in new : \A b \in new : Steps(x, b) <= Steps(x, a)}

\* The cursors after a walk in x took the set new: one past the last address it took.
Advanced(x, new) ==
  IF new = {} THEN {nextAddresses}
              ELSE {Put(nextAddresses, x, After(x, a)) : a \in Last(x, new)}

(***************************************************************************)
(* Who holds an address.                                                   *)
(***************************************************************************)
Automatic(pool) == pool.active \ pool.pinned

\* One reference to an address: what kind of use, by which name, in which drain batch.
Hold(kind, name, batch) == <<kind, <<name, batch>>>>

PoolHolds(p, pool, a) ==
  (IF a \in pool.pinned THEN {Hold("pinned", p, 0)} ELSE {})
    \cup (IF a \in Automatic(pool) THEN {Hold("automatic", p, 0)} ELSE {})
    \cup {Hold("draining", p, b.id) : b \in {c \in pool.draining : a \in c.addresses}}

FixedHolds(a) == {Hold("fixed", n, 0) : n \in {m \in DOMAIN fixed : fixed[m].address = a}}

Holders(a) == FixedHolds(a) \cup UNION {PoolHolds(p, pools[p], a) : p \in DOMAIN pools}

\* The canonical table after count[a] references to each address a are given back.
Released(count) ==
  [a \in {b \in DOMAIN addresses : addresses[b].references # count[b]} |->
     [addresses[a] EXCEPT !.references = @ - count[a]]]

\* The canonical table after a pool takes its pinned and its new automatic addresses.
Referenced(t, pinned, new) ==
  [a \in DOMAIN addresses \cup new |->
     IF a \in new
       THEN [template |-> t, ownership |-> OwnershipForMode(templates[t].mode), references |-> 1]
       ELSE [addresses[a] EXCEPT !.references = IF a \in pinned THEN @ + 1 ELSE @]]

-----------------------------------------------------------------------------
Init ==
  /\ templates = << >>
  /\ fixed = << >>
  /\ addresses = << >>
  /\ pools = << >>
  /\ nextBatch = 0
  /\ nextAddresses = << >>

AddTemplate(t, x, mode) ==
  /\ t \notin DOMAIN templates
  /\ \A u \in DOMAIN templates : ~PrefixesOverlap(templates[u].prefix, x)
  /\ templates' = Put(templates, t, [prefix |-> x, mode |-> mode])
  /\ UNCHANGED <<fixed, addresses, pools, nextBatch, nextAddresses>>

\* Mutant: only fixed addresses keep a template alive.
TemplateReferencedByFixed(t) == \E n \in DOMAIN fixed : fixed[n].template = t

TemplateReferenced(t) ==
  \/ \E n \in DOMAIN fixed : fixed[n].template = t
  \/ \E p \in DOMAIN pools : pools[p].template = t

DeleteTemplate(t) ==
  /\ t \in DOMAIN templates
  /\ ~TemplateReferenced(t)
  /\ nextAddresses' = Delete(nextAddresses, templates[t].prefix)
  /\ templates' = Delete(templates, t)
  /\ UNCHANGED <<fixed, addresses, pools, nextBatch>>

\* Mutant: the requested address is not looked up in the canonical table.
CreateFixedAddressUnchecked(n, t, a, ownership) ==
  /\ n \notin DOMAIN fixed
  /\ t \in DOMAIN templates
  /\ a \in InPrefix(templates[t].prefix)
  /\ ownership = OwnershipForMode(templates[t].mode)
  /\ fixed' = Put(fixed, n, [template |-> t, address |-> a, ownership |-> ownership])
  /\ addresses' = Put(addresses, a, [template |-> t, ownership |-> ownership, references |-> 1])
  /\ UNCHANGED <<templates, pools, nextBatch, nextAddresses>>

CreateFixedAddress(n, t, a, ownership) ==
  /\ n \notin DOMAIN fixed
  /\ t \in DOMAIN templates
  /\ a \in InPrefix(templates[t].prefix)
  /\ ownership = OwnershipForMode(templates[t].mode)
  /\ a \notin DOMAIN addresses
  /\ fixed' = Put(fixed, n, [template |-> t, address |-> a, ownership |-> ownership])
  /\ addresses' = Put(addresses, a, [template |-> t, ownership |-> ownership, references |-> 1])
  /\ UNCHANGED <<templates, pools, nextBatch, nextAddresses>>

DeleteFixedAddress(n) ==
  /\ n \in DOMAIN fixed
  /\ addresses[fixed[n].address].references <= 1
  /\ addresses' = Delete(addresses, fixed[n].address)
  /\ fixed' = Delete(fixed, n)
  /\ UNCHANGED <<templates, pools, nextBatch, nextAddresses>>

CreatePool(p, t, capacity, names) ==
  /\ p \notin DOMAIN pools
  /\ t \in DOMAIN templates
  /\ \A n \in names : fixed[n].template = t
  /\ LET pinned == {fixed[n].address : n \in names} IN
     /\ Cardinality(pinned) <= capacity
     /\ \E new \in FirstFree(templates[t].prefix, capacity - Cardinality(pinned)) :
          /\ nextAddresses' \in Advanced(templates[t].prefix, new)
          /\ addresses' = Referenced(t, pinned, new)
          /\ pools' = Put(pools, p, [template |-> t, capacity |-> capacity, pinned |-> pinned,
                                     active |-> pinned \cup new, draining |-> {}])
  /\ UNCHANGED <<templates, fixed, nextBatch>>

\* Mutant: the batch gets the number of the last one.
RetiredStaleNumber(pool) ==
  IF Automatic(pool) = {} THEN {} ELSE {[id |-> nextBatch, addresses |-> Automatic(pool)]}

\* Mutant: a pool drains one batch at a time and drops what it served meanwhile.
RetiredOnce(pool) ==
  IF Automatic(pool) = {} \/ pool.draining # {} THEN {}
    ELSE {[id |-> nextBatch + 1, addresses |-> Automatic(pool)]}

\* The batch a refresh drains: what the pool served automatically, if anything.
Retired(pool) ==
  IF Automatic(pool) = {} THEN {} ELSE {[id |-> nextBatch + 1, addresses |-> Automatic(pool)]}

RefreshPool(p) ==
  /\ p \in DOMAIN pools
  /\ nextBatch < MaxBatch
  /\ LET pool == pools[p]
         x == templates[pool.template].prefix
     IN \E new \in FirstFree(x, pool.capacity - Cardinality(pool.pinned)) :
          /\ nextAddresses' \in Advanced(x, new)
          /\ addresses' = Referenced(pool.template, {}, new)
          /\ pools' = [pools EXCEPT ![p] =
                         [pool EXCEPT !.active = pool.pinned \cup new,
                                      !.draining = pool.draining \cup Retired(pool)]]
  /\ nextBatch' = IF Retired(pools[p]) = {} THEN nextBatch ELSE nextBatch + 1
  /\ UNCHANGED <<templates, fixed>>

DeletePool(p) ==
  /\ p \in DOMAIN pools
  /\ LET count == [a \in Addrs |-> Cardinality(PoolHolds(p, pools[p], a))] IN
     /\ \A a \in Addrs : count[a] > 0 =>
          a \in DOMAIN addresses /\ addresses[a].references >= count[a]
     /\ addresses' = Released(count)
  /\ pools' = Delete(pools, p)
  /\ UNCHANGED <<templates, fixed, nextBatch, nextAddresses>>

CompleteDrain(p, batch) ==
  /\ p \in DOMAIN pools
  /\ batch \in pools[p].draining
  /\ addresses' = Released([a \in Addrs |-> IF a \in batch.addresses THEN 1 ELSE 0])
  /\ pools' = [pools EXCEPT ![p].draining = @ \ {batch}]
  /\ UNCHANGED <<templates, fixed, nextBatch, nextAddresses>>

CompleteDrainedAddress(p, batch, a) ==
  /\ p \in DOMAIN pools
  /\ batch \in pools[p].draining
  /\ a \in batch.addresses
  /\ a \in DOMAIN addresses
  /\ addresses[a].references >= 1
  /\ addresses' = Released([b \in Addrs |-> IF b = a THEN 1 ELSE 0])
  /\ LET rest == [batch EXCEPT !.addresses = @ \ {a}] IN
     pools' = [pools EXCEPT ![p].draining =
                 (@ \ {batch}) \cup (IF rest.addresses = {} THEN {} ELSE {rest})]
  /\ UNCHANGED <<templates, fixed, nextBatch, nextAddresses>>

Next ==
  \/ \E t \in TemplateNames, x \in Prefixes, mode \in Modes : AddTemplate(t, x, mode)
  \/ \E t \in TemplateNames : DeleteTemplate(t)
  \/ \E n \in FixedNames, t \in TemplateNames, a \in Addrs, o \in Ownerships :
       CreateFixedAddress(n, t, a, o)
  \/ \E n \in FixedNames : DeleteFixedAddress(n)
  \/ \E p \in PoolNames, t \in TemplateNames, c \in 1 .. MaxPoolSize,
        names \in SUBSET DOMAIN fixed : CreatePool(p, t, c, names)
  \/ \E p \in PoolNames : RefreshPool(p)
  \/ \E p \in PoolNames : DeletePool(p)
  \/ \E p \in DOMAIN pools : \E batch \in pools[p].draining : CompleteDrain(p, batch)
  \/ \E p \in DOMAIN pools : \E batch \in pools[p].draining : \E a \in batch.addresses :
       CompleteDrainedAddress(p, batch, a)

Spec == Init /\ [][Next]_vars

-----------------------------------------------------------------------------
(***************************************************************************)
(* The checks buildStoreFromState makes of a persisted state, one          *)
(* conjunct per group.  Every transaction of the coordinator and every     *)
(* restart goes through them, so a store that reaches a state outside them *)
(* can neither be changed nor loaded again.                                *)
(***************************************************************************)
TemplatesLoad ==
  \A t, u \in DOMAIN templates :
    t # u => ~PrefixesOverlap(templates[t].prefix, templates[u].prefix)

AddressesLoad ==
  \A a \in DOMAIN addresses :
    /\ addresses[a].template \in DOMAIN templates
    /\ a \in InPrefix(templates[addresses[a].template].prefix)
    /\ addresses[a].ownership = OwnershipForMode(templates[addresses[a].template].mode)
    /\ addresses[a].references >= 1

FixedLoad ==
  \A n \in DOMAIN fixed :
    /\ fixed[n].address \in DOMAIN addresses
    /\ addresses[fixed[n].address].template = fixed[n].template
    /\ addresses[fixed[n].address].ownership = fixed[n].ownership
    /\ \A m \in DOMAIN fixed : fixed[m].address = fixed[n].address => m = n

FixedAddresses == {fixed[n].address : n \in DOMAIN fixed}

\* Set when address a is in the table and belongs to the pool's template.
PoolAddressLoads(pool, a) ==
  a \in DOMAIN addresses /\ addresses[a].template = pool.template

PoolLoads(pool) ==
  /\ pool.template \in DOMAIN templates
  /\ Cardinality(pool.active) = pool.capacity
  /\ pool.pinned \subseteq pool.active \cap FixedAddresses
  /\ \A a \in pool.active : PoolAddressLoads(pool, a)

DrainsLoad(pool) ==
  \A b \in pool.draining :
    /\ b.id \in 1 .. nextBatch
    /\ b.addresses # {}
    /\ b.addresses \cap pool.active = {}
    /\ \A a \in b.addresses : PoolAddressLoads(pool, a)
    /\ \A c \in pool.draining : b # c => b.addresses \cap c.addresses = {}

CursorsLoad == \A x \in DOMAIN nextAddresses : nextAddresses[x] \in InPrefix(x)

BatchIdsLoad ==
  \A p, q \in DOMAIN pools : \A b \in pools[p].draining, c \in pools[q].draining :
    b.id = c.id => p = q /\ b = c

ReferencesLoad ==
  \A a \in DOMAIN addresses : addresses[a].references = Cardinality(Holders(a))

Loadable ==
  /\ TemplatesLoad
  /\ AddressesLoad
  /\ FixedLoad
  /\ \A p \in DOMAIN pools : PoolLoads(pools[p]) /\ DrainsLoad(pools[p])
  /\ CursorsLoad
  /\ BatchIdsLoad
  /\ ReferencesLoad

(***************************************************************************)
(* An address the walk gave to a pool is that pool's alone: no fixed       *)
(* address, no other pool and no other drain batch holds it, from the      *)
(* moment it is generated until its drain completes.  Two nodes of         *)
(* different pools can therefore never be bound to one automatic address,  *)
(* and completing one drain never frees an address another pool uses.      *)
(***************************************************************************)
Exclusive ==
  \A p \in DOMAIN pools :
    \A a \in Automatic(pools[p]) \cup UNION {b.addresses : b \in pools[p].draining} :
      \A g, h \in Holders(a) : g = h

(***************************************************************************)
(* A drain batch number is handed out once: a step that adds a batch gives *)
(* it a number above every number handed out before, so a late "complete   *)
(* drain-N" can never finish another batch than the one it was sent for.   *)
(***************************************************************************)
BatchIds == {b.id : b \in UNION {pools[p].draining : p \in DOMAIN pools}}
BatchIdsFresh == [][\A i \in BatchIds' : i \in BatchIds \/ i > nextBatch]_vars
=============================================================================
