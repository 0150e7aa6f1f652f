------------------------ MODULE ResourceStoreProofs ------------------------
(***************************************************************************)
(* Theorems about ResourceStore and its refinement of AddressLifecycle,    *)
(* for every set of names and prefixes and every bound.                    *)
(***************************************************************************)
EXTENDS ResourceLifecycle, FiniteSetTheorems, TLAPS

LEMMA PutMap ==
  ASSUME NEW K, NEW V, NEW m, DOMAIN m \subseteq K, m \in [DOMAIN m -> V],
         NEW key \in K, NEW value \in V
  PROVE  /\ DOMAIN Put(m, key, value) \subseteq K
         /\ Put(m, key, value) \in [DOMAIN Put(m, key, value) -> V]
BY DEF Put

LEMMA DeleteMap ==
  ASSUME NEW K, NEW V, NEW m, DOMAIN m \subseteq K, m \in [DOMAIN m -> V], NEW key
  PROVE  /\ DOMAIN Delete(m, key) \subseteq K
         /\ Delete(m, key) \in [DOMAIN Delete(m, key) -> V]
BY DEF Delete

LEMMA AddrsType == Addrs \subseteq Nat /\ \A x \in Prefixes : InPrefix(x) \subseteq Addrs
BY PrefixAssumption DEF Addrs, InPrefix

LEMMA OwnershipType == \A mode \in Modes : OwnershipForMode(mode) \in Ownerships
BY DEF Modes, Ownerships, OwnershipForMode

LEMMA AfterType ==
  ASSUME NEW x \in Prefixes, NEW a \in InPrefix(x)
  PROVE  After(x, a) \in InPrefix(x)
BY PrefixAssumption DEF After, InPrefix

\* The cursors a walk can leave are a map from prefixes to addresses again.
LEMMA AdvancedType ==
  ASSUME TypeOK, NEW x \in Prefixes, NEW new \in SUBSET InPrefix(x),
         NEW m \in Advanced(x, new)
  PROVE  /\ DOMAIN m \subseteq Prefixes
         /\ m \in [DOMAIN m -> Addrs]
<1>1. CASE new = {}
  BY <1>1 DEF Advanced, TypeOK
<1>2. CASE new # {}
  <2>1. PICK a \in new : m = Put(nextAddresses, x, After(x, a))
    BY <1>2 DEF Advanced, Last
  <2>2. After(x, a) \in Addrs
    BY AfterType, AddrsType
  <2> QED BY <2>1, <2>2, PutMap DEF TypeOK
<1> QED BY <1>1, <1>2

\* Giving references back leaves a canonical table.
LEMMA ReleasedType ==
  ASSUME TypeOK, NEW count \in [Addrs -> Nat],
         \A a \in DOMAIN addresses : addresses[a].references >= count[a]
  PROVE  /\ DOMAIN Released(count) \subseteq DOMAIN addresses
         /\ Released(count) \in [DOMAIN Released(count) -> CanonicalAddress]
<1>1. DOMAIN Released(count) \subseteq DOMAIN addresses
  BY DEF Released
<1>2. ASSUME NEW a \in DOMAIN Released(count)
      PROVE  Released(count)[a] \in CanonicalAddress
  BY <1>2 DEF Released, TypeOK, CanonicalAddress
<1>3. Released(count) = [a \in DOMAIN Released(count) |-> Released(count)[a]]
  BY DEF Released
<1> QED BY <1>1, <1>2, <1>3

LEMMA ReferencedType ==
  ASSUME TypeOK, NEW t \in DOMAIN templates, NEW pinned, NEW new \in SUBSET Addrs
  PROVE  /\ DOMAIN Referenced(t, pinned, new) \subseteq Addrs
         /\ Referenced(t, pinned, new) \in [DOMAIN Referenced(t, pinned, new) -> CanonicalAddress]
<1>1. DOMAIN Referenced(t, pinned, new) = DOMAIN addresses \cup new
  BY DEF Referenced
<1>2. t \in TemplateNames /\ OwnershipForMode(templates[t].mode) \in Ownerships
  BY OwnershipType DEF TypeOK, Template
<1>3. ASSUME NEW a \in DOMAIN addresses \cup new
      PROVE  Referenced(t, pinned, new)[a] \in CanonicalAddress
  BY <1>2, <1>3 DEF Referenced, TypeOK, CanonicalAddress
<1> QED BY <1>1, <1>3 DEF Referenced, TypeOK

-----------------------------------------------------------------------------
(***************************************************************************)
(* Type correctness.  The reference counts stay natural numbers only       *)
(* because they count holders, so the steps that give references back need *)
(* that invariant (Loadable) besides the types; ReferencesCover is the     *)
(* part of it they use.                                                    *)
(***************************************************************************)
LEMMA TypeInit == Init => TypeOK
BY DEF Init, TypeOK

LEMMA TypeAddTemplate ==
  ASSUME TypeOK, NEW t \in TemplateNames, NEW x \in Prefixes, NEW mode \in Modes,
         AddTemplate(t, x, mode)
  PROVE  TypeOK'
<1>1. [prefix |-> x, mode |-> mode] \in Template
  BY DEF Template
<1>2. /\ DOMAIN templates' \subseteq TemplateNames
      /\ templates' \in [DOMAIN templates' -> Template]
  BY <1>1, PutMap DEF TypeOK, AddTemplate
<1> QED BY <1>2 DEF TypeOK, AddTemplate

LEMMA TypeDeleteTemplate ==
  ASSUME TypeOK, NEW t \in TemplateNames, DeleteTemplate(t)
  PROVE  TypeOK'
<1>1. /\ DOMAIN templates' \subseteq TemplateNames
      /\ templates' \in [DOMAIN templates' -> Template]
  BY DeleteMap DEF TypeOK, DeleteTemplate
<1>2. /\ DOMAIN nextAddresses' \subseteq Prefixes
      /\ nextAddresses' \in [DOMAIN nextAddresses' -> Addrs]
  BY DeleteMap DEF TypeOK, DeleteTemplate
<1> QED BY <1>1, <1>2 DEF TypeOK, DeleteTemplate

LEMMA TypeCreateFixedAddress ==
  ASSUME TypeOK, NEW n \in FixedNames, NEW t \in TemplateNames, NEW a \in Addrs,
         NEW o \in Ownerships, CreateFixedAddress(n, t, a, o)
  PROVE  TypeOK'
<1> DEFINE f == [template |-> t, address |-> a, ownership |-> o]
<1> DEFINE r == [template |-> t, ownership |-> o, references |-> 1]
<1>1. f \in FixedAddress /\ r \in CanonicalAddress
  BY DEF FixedAddress, CanonicalAddress
<1>2. fixed' = Put(fixed, n, f) /\ addresses' = Put(addresses, a, r)
  BY DEF CreateFixedAddress
<1> HIDE DEF f, r
<1>3. /\ DOMAIN fixed' \subseteq FixedNames
      /\ fixed' \in [DOMAIN fixed' -> FixedAddress]
  BY <1>1, <1>2, PutMap DEF TypeOK
<1>4. /\ DOMAIN addresses' \subseteq Addrs
      /\ addresses' \in [DOMAIN addresses' -> CanonicalAddress]
  BY <1>1, <1>2, PutMap DEF TypeOK
<1> QED BY <1>3, <1>4 DEF TypeOK, CreateFixedAddress

LEMMA TypeDeleteFixedAddress ==
  ASSUME TypeOK, NEW n \in FixedNames, DeleteFixedAddress(n)
  PROVE  TypeOK'
<1>1. /\ DOMAIN fixed' \subseteq FixedNames
      /\ fixed' \in [DOMAIN fixed' -> FixedAddress]
  BY DeleteMap DEF TypeOK, DeleteFixedAddress
<1>2. /\ DOMAIN addresses' \subseteq Addrs
      /\ addresses' \in [DOMAIN addresses' -> CanonicalAddress]
  BY DeleteMap DEF TypeOK, DeleteFixedAddress
<1> QED BY <1>1, <1>2 DEF TypeOK, DeleteFixedAddress

LEMMA FirstFreeType ==
  ASSUME TypeOK, NEW x \in Prefixes, NEW count, NEW new \in FirstFree(x, count)
  PROVE  /\ new \subseteq InPrefix(x)
         /\ new \subseteq Addrs
         /\ new \cap DOMAIN addresses = {}
         /\ Cardinality(new) = count
BY AddrsType DEF FirstFree, Free

LEMMA TypeCreatePool ==
  ASSUME TypeOK, NEW p \in PoolNames, NEW t \in TemplateNames, NEW c \in 1 .. MaxPoolSize,
         NEW names \in SUBSET DOMAIN fixed, CreatePool(p, t, c, names)
  PROVE  TypeOK'
<1> DEFINE pinned == {fixed[n].address : n \in names}
<1> DEFINE x == templates[t].prefix
<1>1. PICK new \in FirstFree(x, c - Cardinality(pinned)) :
        /\ nextAddresses' \in Advanced(x, new)
        /\ addresses' = Referenced(t, pinned, new)
        /\ pools' = Put(pools, p, [template |-> t, capacity |-> c, pinned |-> pinned,
                                   active |-> pinned \cup new, draining |-> {}])
  BY DEF CreatePool
<1> DEFINE pool == [template |-> t, capacity |-> c, pinned |-> pinned,
                    active |-> pinned \cup new, draining |-> {}]
<1>2. t \in DOMAIN templates /\ x \in Prefixes
  BY DEF CreatePool, TypeOK, Template
<1>3. pinned \subseteq Addrs
  BY DEF TypeOK, FixedAddress
<1>4. new \subseteq InPrefix(x) /\ new \subseteq Addrs
  BY <1>2, FirstFreeType
<1>5. pool \in Pool /\ pools' = Put(pools, p, pool)
  BY <1>1, <1>3, <1>4 DEF Pool
<1>6. /\ DOMAIN pools' \subseteq PoolNames
      /\ pools' \in [DOMAIN pools' -> Pool]
  <2> HIDE DEF pool
  <2> QED BY <1>5, PutMap DEF TypeOK
<1>7. /\ DOMAIN nextAddresses' \subseteq Prefixes
      /\ nextAddresses' \in [DOMAIN nextAddresses' -> Addrs]
  <2> HIDE DEF pinned, x
  <2> QED BY <1>1, <1>2, <1>4, AdvancedType
<1>8. /\ DOMAIN addresses' \subseteq Addrs
      /\ addresses' \in [DOMAIN addresses' -> CanonicalAddress]
  <2> HIDE DEF pinned, x
  <2> QED BY <1>1, <1>2, <1>4, ReferencedType
<1> QED BY <1>6, <1>7, <1>8 DEF TypeOK, CreatePool

LEMMA TypeRefreshPool ==
  ASSUME TypeOK, Loadable, NEW p \in PoolNames, RefreshPool(p)
  PROVE  TypeOK'
<1> DEFINE pool == pools[p]
<1> DEFINE x == templates[pool.template].prefix
<1>1. PICK new \in FirstFree(x, pool.capacity - Cardinality(pool.pinned)) :
        /\ nextAddresses' \in Advanced(x, new)
        /\ addresses' = Referenced(pool.template, {}, new)
        /\ pools' = [pools EXCEPT ![p] =
                       [pool EXCEPT !.active = pool.pinned \cup new,
                                    !.draining = pool.draining \cup Retired(pool)]]
  BY DEF RefreshPool
<1>2. p \in DOMAIN pools /\ pool \in Pool
  BY DEF RefreshPool, TypeOK
<1>3. pool.template \in DOMAIN templates /\ x \in Prefixes
  BY <1>2 DEF Loadable, PoolLoads, TypeOK, Template
<1>4. new \subseteq InPrefix(x) /\ new \subseteq Addrs
  BY <1>3, FirstFreeType
<1>5. pool.draining \cup Retired(pool) \subseteq DrainBatch
  BY <1>2 DEF TypeOK, DrainBatch, Pool, Automatic, Retired
<1>6. [pool EXCEPT !.active = pool.pinned \cup new,
                   !.draining = pool.draining \cup Retired(pool)] \in Pool
  BY <1>2, <1>4, <1>5 DEF Pool
<1>7. /\ DOMAIN pools' \subseteq PoolNames
      /\ pools' \in [DOMAIN pools' -> Pool]
  BY <1>1, <1>2, <1>6 DEF TypeOK
<1>8. /\ DOMAIN nextAddresses' \subseteq Prefixes
      /\ nextAddresses' \in [DOMAIN nextAddresses' -> Addrs]
  <2> HIDE DEF x
  <2> QED BY <1>1, <1>3, <1>4, AdvancedType
<1>9. /\ DOMAIN addresses' \subseteq Addrs
      /\ addresses' \in [DOMAIN addresses' -> CanonicalAddress]
  <2> HIDE DEF x
  <2> QED BY <1>1, <1>3, <1>4, ReferencedType
<1>10. nextBatch' \in Nat
  BY DEF RefreshPool, TypeOK
<1> QED BY <1>7, <1>8, <1>9, <1>10 DEF TypeOK, RefreshPool

-----------------------------------------------------------------------------
(***************************************************************************)
(* The holders of an address.                                              *)
(***************************************************************************)
LEMMA HoldersMember ==
  ASSUME NEW a, NEW h
  PROVE  h \in Holders(a) <=>
           \/ \E n \in DOMAIN fixed : fixed[n].address = a /\ h = Hold("fixed", n, 0)
           \/ \E p \in DOMAIN pools :
                \/ a \in pools[p].pinned /\ h = Hold("pinned", p, 0)
                \/ a \in Automatic(pools[p]) /\ h = Hold("automatic", p, 0)
                \/ \E b \in pools[p].draining : a \in b.addresses /\ h = Hold("draining", p, b.id)
BY DEF Holders, FixedHolds, PoolHolds

LEMMA HoldersFinite ==
  ASSUME TypeOK, Loadable, NEW a
  PROVE  IsFiniteSet(Holders(a))
<1> DEFINE Kinds == {"fixed", "pinned", "automatic", "draining"}
<1> DEFINE Names == FixedNames \cup PoolNames
<1> DEFINE Batches == 0 .. nextBatch
<1>1. Holders(a) \subseteq Kinds \X (Names \X Batches)
  <2> SUFFICES ASSUME NEW h \in Holders(a) PROVE h \in Kinds \X (Names \X Batches)
    OBVIOUS
  <2> nextBatch \in Nat
    BY DEF TypeOK
  <2>1. CASE \E n \in DOMAIN fixed : fixed[n].address = a /\ h = Hold("fixed", n, 0)
    BY <2>1 DEF TypeOK, Hold
  <2>2. ASSUME NEW p \in DOMAIN pools,
               \/ a \in pools[p].pinned /\ h = Hold("pinned", p, 0)
               \/ a \in Automatic(pools[p]) /\ h = Hold("automatic", p, 0)
        PROVE  h \in Kinds \X (Names \X Batches)
    BY <2>2 DEF TypeOK, Hold
  <2>3. ASSUME NEW p \in DOMAIN pools, NEW b \in pools[p].draining,
               h = Hold("draining", p, b.id)
        PROVE  h \in Kinds \X (Names \X Batches)
    <3>1. b.id \in Batches /\ p \in Names
      BY <2>3 DEF TypeOK, Loadable, DrainsLoad
    <3> QED BY <2>3, <3>1 DEF Hold
  <2> QED BY <2>1, <2>2, <2>3, HoldersMember
<1>2. IsFiniteSet(Names) /\ IsFiniteSet(Batches)
  <2>1. IsFiniteSet(Names)
    BY NamesAssumption, FS_Union
  <2>2. 0 \in Int /\ nextBatch \in Int
    BY DEF TypeOK
  <2> QED BY <2>1, <2>2, FS_Interval
<1>3. IsFiniteSet(Kinds)
  <2>1. IsFiniteSet({}) 
    BY FS_EmptySet
  <2>2. IsFiniteSet({"fixed"})
    BY FS_Singleton
  <2>3. IsFiniteSet({"fixed"} \cup {"pinned"})
    BY <2>2, FS_AddElement
  <2>4. IsFiniteSet({"fixed"} \cup {"pinned"} \cup {"automatic"})
    BY <2>3, FS_AddElement
  <2>5. IsFiniteSet({"fixed"} \cup {"pinned"} \cup {"automatic"} \cup {"draining"})
    BY <2>4, FS_AddElement
  <2>6. Kinds = {"fixed"} \cup {"pinned"} \cup {"automatic"} \cup {"draining"}
    OBVIOUS
  <2> QED BY <2>5, <2>6
<1>4. IsFiniteSet(Kinds \X (Names \X Batches))
  <2> HIDE DEF Kinds, Names, Batches
  <2> QED BY <1>2, <1>3, FS_Product
<1> QED BY <1>1, <1>4, FS_Subset

\* Nobody holds an address that the canonical table does not list, and a holder
\* belongs to the template the table gives for the address.
LEMMA HeldIsListed ==
  ASSUME TypeOK, Loadable, NEW a, Holders(a) # {}
  PROVE  /\ a \in DOMAIN addresses
         /\ TemplateReferenced(addresses[a].template)
<1>1. PICK h : h \in Holders(a)
  OBVIOUS
<1>2. CASE \E n \in DOMAIN fixed : fixed[n].address = a
  BY <1>2 DEF Loadable, FixedLoad, TemplateReferenced
<1>3. ASSUME NEW p \in DOMAIN pools, a \in pools[p].active
      PROVE  a \in DOMAIN addresses /\ TemplateReferenced(addresses[a].template)
  BY <1>3 DEF Loadable, PoolLoads, PoolAddressLoads, TemplateReferenced
<1>4. ASSUME NEW p \in DOMAIN pools, NEW b \in pools[p].draining, a \in b.addresses
      PROVE  a \in DOMAIN addresses /\ TemplateReferenced(addresses[a].template)
  BY <1>4 DEF Loadable, DrainsLoad, PoolAddressLoads, TemplateReferenced
<1>5. \A p \in DOMAIN pools : pools[p].pinned \subseteq pools[p].active
  BY DEF Loadable, PoolLoads
<1> QED BY <1>1, <1>2, <1>3, <1>4, <1>5, HoldersMember DEF Automatic

\* Addresses that pools serve or drain are listed.
LEMMA UsedIsListed ==
  ASSUME Loadable, NEW p \in DOMAIN pools
  PROVE  Automatic(pools[p]) \cup UNION {b.addresses : b \in pools[p].draining}
           \subseteq DOMAIN addresses
BY DEF Loadable, PoolLoads, DrainsLoad, PoolAddressLoads, Automatic

LEMMA ListedIsHeld ==
  ASSUME TypeOK, Loadable, NEW a \in DOMAIN addresses
  PROVE  Holders(a) # {}
<1>1. addresses[a].references = Cardinality(Holders(a)) /\ addresses[a].references >= 1
  BY DEF Loadable, ReferencesLoad, AddressesLoad
<1>2. Cardinality({}) = 0
  BY FS_EmptySet
<1> QED BY <1>1, <1>2

-----------------------------------------------------------------------------
(***************************************************************************)
(* Giving references back.  The three actions that do (DeletePool,         *)
(* CompleteDrain, CompleteDrainedAddress) take holders away from addresses *)
(* and subtract as many references, address by address.                    *)
(***************************************************************************)

\* What the three actions do to the pools: some pools go, the others keep everything but
\* part of what they drain.
PoolsShrink ==
  /\ DOMAIN pools' \subseteq DOMAIN pools
  /\ \A p \in DOMAIN pools' :
       /\ pools'[p].template = pools[p].template
       /\ pools'[p].capacity = pools[p].capacity
       /\ pools'[p].pinned = pools[p].pinned
       /\ pools'[p].active = pools[p].active
       /\ \A b \in pools'[p].draining :
            /\ b.addresses # {}
            /\ \E c \in pools[p].draining : c.id = b.id /\ b.addresses \subseteq c.addresses
       /\ \A b, c \in pools'[p].draining : b.id = c.id => b = c

LEMMA ShrinkHolders ==
  ASSUME UNCHANGED fixed, PoolsShrink, NEW a
  PROVE  Holders(a)' \subseteq Holders(a)
<1> SUFFICES ASSUME NEW h \in Holders(a)' PROVE h \in Holders(a)
  OBVIOUS
<1>1. \/ \E n \in DOMAIN fixed : fixed[n].address = a /\ h = Hold("fixed", n, 0)
      \/ \E p \in DOMAIN pools' :
           \/ a \in pools'[p].pinned /\ h = Hold("pinned", p, 0)
           \/ a \in Automatic(pools'[p]) /\ h = Hold("automatic", p, 0)
           \/ \E b \in pools'[p].draining : a \in b.addresses /\ h = Hold("draining", p, b.id)
  BY DEF Holders, FixedHolds, PoolHolds
<1>2. CASE \E n \in DOMAIN fixed : fixed[n].address = a /\ h = Hold("fixed", n, 0)
  BY <1>2, HoldersMember
<1>3. ASSUME NEW p \in DOMAIN pools',
             \/ a \in pools'[p].pinned /\ h = Hold("pinned", p, 0)
             \/ a \in Automatic(pools'[p]) /\ h = Hold("automatic", p, 0)
      PROVE  h \in Holders(a)
  BY <1>3, HoldersMember DEF PoolsShrink, Automatic
<1>4. ASSUME NEW p \in DOMAIN pools', NEW b \in pools'[p].draining,
             a \in b.addresses, h = Hold("draining", p, b.id)
      PROVE  h \in Holders(a)
  BY <1>4, HoldersMember DEF PoolsShrink
<1> QED BY <1>1, <1>2, <1>3, <1>4

LEMMA ReleaseCounts ==
  ASSUME TypeOK, Loadable, UNCHANGED fixed, PoolsShrink,
         NEW count \in [Addrs -> Nat], addresses' = Released(count),
         \A a \in Addrs : Cardinality(Holders(a) \ Holders(a)') = count[a]
  PROVE  /\ \A a \in DOMAIN addresses :
              /\ addresses[a].references >= count[a]
              /\ a \in DOMAIN addresses' <=> Holders(a)' # {}
         /\ \A a \in DOMAIN addresses' :
              /\ a \in DOMAIN addresses
              /\ addresses'[a].template = addresses[a].template
              /\ addresses'[a].ownership = addresses[a].ownership
              /\ addresses'[a].references = Cardinality(Holders(a)')
              /\ addresses'[a].references >= 1
<1>1. ASSUME NEW a \in DOMAIN addresses
      PROVE  /\ Cardinality(Holders(a)') \in Nat
             /\ count[a] \in Nat
             /\ addresses[a].references = Cardinality(Holders(a)') + count[a]
             /\ Cardinality(Holders(a)') = 0 <=> Holders(a)' = {}
  <2> DEFINE H == Holders(a)
  <2> DEFINE R == Holders(a) \ Holders(a)'
  <2>1. a \in Addrs /\ addresses[a].references = Cardinality(H)
    BY DEF TypeOK, Loadable, ReferencesLoad
  <2>2. Holders(a)' = H \ R /\ R \subseteq H /\ H \cap R = R
    BY ShrinkHolders
  <2>3. Cardinality(R) = count[a] /\ count[a] \in Nat
    BY <2>1
  <2>4. IsFiniteSet(H)
    BY HoldersFinite
  <2>5. /\ IsFiniteSet(H \ R)
        /\ Cardinality(H \ R) = Cardinality(H) - Cardinality(H \cap R)
    <3> HIDE DEF H, R
    <3> QED BY <2>4, FS_Difference
  <2>6. Cardinality(H) \in Nat /\ Cardinality(H \ R) \in Nat
    <3> HIDE DEF H, R
    <3> QED BY <2>4, <2>5, FS_CardinalityType
  <2>7. Cardinality(H \ R) = 0 <=> H \ R = {}
    <3> HIDE DEF H, R
    <3> QED BY <2>5, FS_EmptySet
  <2>8. Cardinality(Holders(a)') = Cardinality(H \ R) /\ (Holders(a)' = {} <=> H \ R = {})
    BY <2>2
  <2>9. Cardinality(H \ R) = Cardinality(H) - count[a]
    BY <2>2, <2>3, <2>5
  <2> HIDE DEF H, R
  <2> QED BY <2>1, <2>3, <2>6, <2>7, <2>8, <2>9
<1>2. ASSUME NEW a \in DOMAIN addresses
      PROVE  a \in DOMAIN addresses' <=> addresses[a].references # count[a]
  BY DEF Released
<1>3. ASSUME NEW a \in DOMAIN addresses'
      PROVE  /\ a \in DOMAIN addresses
             /\ addresses'[a].template = addresses[a].template
             /\ addresses'[a].ownership = addresses[a].ownership
             /\ addresses'[a].references = addresses[a].references - count[a]
  <2>1. a \in DOMAIN addresses /\ addresses[a] \in CanonicalAddress
    BY DEF Released, TypeOK
  <2> QED BY <2>1 DEF Released, CanonicalAddress
<1> QED BY <1>1, <1>2, <1>3
LEMMA ReleaseKeepsLoadable ==
  ASSUME TypeOK, Loadable, UNCHANGED <<templates, fixed, nextBatch, nextAddresses>>, PoolsShrink,
         NEW count \in [Addrs -> Nat], addresses' = Released(count),
         \A a \in Addrs : Cardinality(Holders(a) \ Holders(a)') = count[a]
  PROVE  Loadable'
<1>1. /\ \A a \in DOMAIN addresses : a \in DOMAIN addresses' <=> Holders(a)' # {}
      /\ \A a \in DOMAIN addresses' :
           /\ a \in DOMAIN addresses
           /\ addresses'[a].template = addresses[a].template
           /\ addresses'[a].ownership = addresses[a].ownership
           /\ addresses'[a].references = Cardinality(Holders(a)')
           /\ addresses'[a].references >= 1
  BY ReleaseCounts
<1>2. ASSUME NEW a, NEW h \in Holders(a)'
      PROVE  a \in DOMAIN addresses'
  <2>1. Holders(a) # {}
    BY <1>2, ShrinkHolders
  <2> QED BY <1>1, <1>2, <2>1, HeldIsListed
<1>3. ASSUME NEW a,
             \/ \E n \in DOMAIN fixed : fixed[n].address = a
             \/ \E p \in DOMAIN pools' : a \in pools'[p].active
             \/ \E p \in DOMAIN pools' : \E b \in pools'[p].draining : a \in b.addresses
      PROVE  a \in DOMAIN addresses'
  <2>1. \E h : h \in Holders(a)'
    <3>1. ASSUME NEW n \in DOMAIN fixed, fixed[n].address = a
          PROVE  Hold("fixed", n, 0) \in Holders(a)'
      BY <3>1 DEF Holders, FixedHolds
    <3>2. ASSUME NEW p \in DOMAIN pools', a \in pools'[p].active
          PROVE  Hold("pinned", p, 0) \in Holders(a)' \/ Hold("automatic", p, 0) \in Holders(a)'
      BY <3>2 DEF Holders, PoolHolds, Automatic
    <3>3. ASSUME NEW p \in DOMAIN pools', NEW b \in pools'[p].draining, a \in b.addresses
          PROVE  Hold("draining", p, b.id) \in Holders(a)'
      BY <3>3 DEF Holders, PoolHolds
    <3> QED BY <1>3, <3>1, <3>2, <3>3
  <2> QED BY <1>2, <2>1
<1>4. TemplatesLoad'
  BY DEF Loadable, TemplatesLoad
<1>5. AddressesLoad'
  BY <1>1 DEF Loadable, AddressesLoad
<1>6. FixedLoad'
  BY <1>1, <1>3 DEF Loadable, FixedLoad
<1>7. ASSUME NEW p \in DOMAIN pools'
      PROVE  PoolLoads(pools[p])'
  <2>1. p \in DOMAIN pools /\ PoolLoads(pools[p])
    BY <1>7 DEF PoolsShrink, Loadable
  <2>2. FixedAddresses' = FixedAddresses
    BY DEF FixedAddresses
  <2>3. ASSUME NEW a \in pools'[p].active
        PROVE  a \in DOMAIN addresses' /\ addresses'[a].template = pools'[p].template
    BY <1>1, <1>3, <1>7, <2>1, <2>3 DEF PoolsShrink, PoolLoads, PoolAddressLoads
  <2> QED BY <1>7, <2>1, <2>2, <2>3 DEF PoolsShrink, PoolLoads, PoolAddressLoads
<1>8. ASSUME NEW p \in DOMAIN pools'
      PROVE  DrainsLoad(pools[p])'
  <2>1. p \in DOMAIN pools /\ DrainsLoad(pools[p])
    BY <1>8 DEF PoolsShrink, Loadable
  <2>2. ASSUME NEW b \in pools'[p].draining
        PROVE  /\ b.id \in 1 .. nextBatch
               /\ b.addresses # {}
               /\ b.addresses \cap pools'[p].active = {}
    BY <1>8, <2>1, <2>2 DEF PoolsShrink, DrainsLoad
  <2>3. ASSUME NEW b \in pools'[p].draining, NEW a \in b.addresses
        PROVE  a \in DOMAIN addresses' /\ addresses'[a].template = pools'[p].template
    BY <1>1, <1>3, <1>8, <2>1, <2>3 DEF PoolsShrink, DrainsLoad, PoolAddressLoads
  <2>4. ASSUME NEW b \in pools'[p].draining, NEW c \in pools'[p].draining, b # c
        PROVE  b.addresses \cap c.addresses = {}
    <3>1. PICK d \in pools[p].draining : d.id = b.id /\ b.addresses \subseteq d.addresses
      BY <1>8, <2>4 DEF PoolsShrink
    <3>2. PICK e \in pools[p].draining : e.id = c.id /\ c.addresses \subseteq e.addresses
      BY <1>8, <2>4 DEF PoolsShrink
    <3>3. d # e
      BY <1>8, <2>4, <3>1, <3>2 DEF PoolsShrink
    <3> QED BY <2>1, <3>1, <3>2, <3>3 DEF DrainsLoad
  <2> QED BY <2>2, <2>3, <2>4 DEF DrainsLoad, PoolAddressLoads
<1>9. CursorsLoad'
  BY DEF Loadable, CursorsLoad
<1>10. BatchIdsLoad'
  <2> SUFFICES ASSUME NEW p \in DOMAIN pools', NEW q \in DOMAIN pools',
                      NEW b \in pools'[p].draining, NEW c \in pools'[q].draining, b.id = c.id
               PROVE  p = q /\ b = c
    BY DEF BatchIdsLoad
  <2>1. PICK d \in pools[p].draining : d.id = b.id
    BY DEF PoolsShrink
  <2>2. PICK e \in pools[q].draining : e.id = c.id
    BY DEF PoolsShrink
  <2>3. p = q
    BY <2>1, <2>2 DEF PoolsShrink, Loadable, BatchIdsLoad
  <2> QED BY <2>3 DEF PoolsShrink
<1>11. ReferencesLoad'
  BY <1>1 DEF ReferencesLoad
<1> QED BY <1>4, <1>5, <1>6, <1>7, <1>8, <1>9, <1>10, <1>11 DEF Loadable

LEMMA ReleaseKeepsType ==
  ASSUME TypeOK, Loadable, UNCHANGED <<templates, fixed, nextBatch, nextAddresses>>, PoolsShrink,
         DOMAIN pools' \subseteq PoolNames, pools' \in [DOMAIN pools' -> Pool],
         NEW count \in [Addrs -> Nat], addresses' = Released(count),
         \A a \in Addrs : Cardinality(Holders(a) \ Holders(a)') = count[a]
  PROVE  TypeOK'
<1>1. \A a \in DOMAIN addresses : addresses[a].references >= count[a]
  BY ReleaseCounts
<1>2. /\ DOMAIN addresses' \subseteq DOMAIN addresses
      /\ addresses' \in [DOMAIN addresses' -> CanonicalAddress]
  BY <1>1, ReleasedType
<1> QED BY <1>2 DEF TypeOK
\* Fewer holders cannot make an exclusive address shared.
LEMMA ShrinkKeepsExclusive ==
  ASSUME Exclusive, UNCHANGED fixed, PoolsShrink
  PROVE  Exclusive'
<1> SUFFICES ASSUME NEW p \in DOMAIN pools',
                    NEW a \in Automatic(pools'[p]) \cup UNION {b.addresses : b \in pools'[p].draining},
                    NEW g \in Holders(a)', NEW h \in Holders(a)'
             PROVE  g = h
  BY DEF Exclusive
<1>1. p \in DOMAIN pools
      /\ a \in Automatic(pools[p]) \cup UNION {b.addresses : b \in pools[p].draining}
  BY DEF PoolsShrink, Automatic
<1>2. g \in Holders(a) /\ h \in Holders(a)
  BY ShrinkHolders
<1> QED BY <1>1, <1>2 DEF Exclusive

LEMMA DeletePoolStep ==
  ASSUME TypeOK, Loadable, NEW p \in PoolNames, DeletePool(p)
  PROVE  TypeOK' /\ Loadable' /\ (Exclusive => Exclusive')
<1> DEFINE count == [a \in Addrs |-> Cardinality(PoolHolds(p, pools[p], a))]
<1>1. /\ p \in DOMAIN pools
      /\ addresses' = Released(count)
      /\ pools' = Delete(pools, p)
      /\ UNCHANGED <<templates, fixed, nextBatch, nextAddresses>>
  BY DEF DeletePool
<1>2. /\ DOMAIN pools' = DOMAIN pools \ {p}
      /\ \A q \in DOMAIN pools' : pools'[q] = pools[q]
  BY <1>1 DEF Delete
<1>3. PoolsShrink
  <2>1. \A q \in DOMAIN pools : \A b \in pools[q].draining : b.addresses # {}
    BY DEF Loadable, DrainsLoad
  <2>2. \A q \in DOMAIN pools : \A b, c \in pools[q].draining : b.id = c.id => b = c
    BY DEF Loadable, BatchIdsLoad
  <2> QED BY <1>2, <2>1, <2>2 DEF PoolsShrink
<1>4. /\ DOMAIN pools' \subseteq PoolNames
      /\ pools' \in [DOMAIN pools' -> Pool]
  BY <1>1, DeleteMap DEF TypeOK
<1>5. ASSUME NEW a
      PROVE  Holders(a) \ Holders(a)' = PoolHolds(p, pools[p], a)
  <2>1. PoolHolds(p, pools[p], a) \subseteq Holders(a)
    BY <1>1 DEF Holders
  <2>2. PoolHolds(p, pools[p], a) \cap Holders(a)' = {}
    <3>1. \A h \in PoolHolds(p, pools[p], a) :
            h[2][1] = p /\ h[1] \in {"pinned", "automatic", "draining"}
      BY DEF PoolHolds, Hold
    <3>2. \A h \in FixedHolds(a)' : h[1] = "fixed"
      BY DEF FixedHolds, Hold
    <3>3. \A q \in DOMAIN pools' : \A h \in PoolHolds(q, pools'[q], a) : h[2][1] = q
      BY DEF PoolHolds, Hold
    <3> QED BY <1>2, <3>1, <3>2, <3>3 DEF Holders
  <2>3. Holders(a) \subseteq Holders(a)' \cup PoolHolds(p, pools[p], a)
    <3>1. FixedHolds(a)' = FixedHolds(a)
      BY <1>1 DEF FixedHolds
    <3>2. ASSUME NEW q \in DOMAIN pools, q # p
          PROVE  PoolHolds(q, pools[q], a) \subseteq Holders(a)'
      BY <1>2, <3>2 DEF Holders
    <3> QED BY <3>1, <3>2 DEF Holders
  <2> QED BY <2>1, <2>2, <2>3
<1>6. count \in [Addrs -> Nat]
  <2> SUFFICES ASSUME NEW a \in Addrs PROVE Cardinality(PoolHolds(p, pools[p], a)) \in Nat
    OBVIOUS
  <2>1. PoolHolds(p, pools[p], a) \subseteq Holders(a)
    BY <1>5
  <2> QED BY <2>1, HoldersFinite, FS_Subset, FS_CardinalityType
<1>7. \A a \in Addrs : Cardinality(Holders(a) \ Holders(a)') = count[a]
  BY <1>5
<1> HIDE DEF count
<1> QED BY <1>1, <1>3, <1>4, <1>6, <1>7, ReleaseKeepsLoadable, ReleaseKeepsType,
            ShrinkKeepsExclusive

\* Completing one drained address, or a batch of them: the batch keeps the rest.
LEMMA DrainStep ==
  ASSUME TypeOK, Loadable, NEW p \in DOMAIN pools, NEW batch \in pools[p].draining,
         NEW done \in SUBSET batch.addresses, NEW rest \in DrainBatch,
         rest.id = batch.id, rest.addresses = batch.addresses \ done,
         UNCHANGED <<templates, fixed, nextBatch, nextAddresses>>,
         addresses' = Released([a \in Addrs |-> IF a \in done THEN 1 ELSE 0]),
         pools' = [pools EXCEPT ![p].draining =
                     (@ \ {batch}) \cup (IF rest.addresses = {} THEN {} ELSE {rest})]
  PROVE  TypeOK' /\ Loadable' /\ (Exclusive => Exclusive')
<1> DEFINE count == [a \in Addrs |-> IF a \in done THEN 1 ELSE 0]
<1> DEFINE left == (pools[p].draining \ {batch}) \cup (IF rest.addresses = {} THEN {} ELSE {rest})
<1>1. pools[p] \in Pool /\ batch \in DrainBatch
  BY DEF TypeOK, Pool
<1>2. \A b \in left : (b \in pools[p].draining /\ b # batch) \/ (b = rest /\ rest.addresses # {})
  OBVIOUS
<1>3. /\ DOMAIN pools' = DOMAIN pools
      /\ \A q \in DOMAIN pools : q # p => pools'[q] = pools[q]
      /\ pools'[p] = [pools[p] EXCEPT !.draining = left]
  OBVIOUS
<1>4. left \subseteq DrainBatch
  BY <1>1, <1>2 DEF Pool
<1>5. /\ pools'[p] \in Pool
      /\ pools'[p].template = pools[p].template
      /\ pools'[p].capacity = pools[p].capacity
      /\ pools'[p].pinned = pools[p].pinned
      /\ pools'[p].active = pools[p].active
      /\ pools'[p].draining = left
  <2> HIDE DEF left
  <2> QED BY <1>1, <1>3, <1>4 DEF Pool
<1>6. /\ DOMAIN pools' \subseteq PoolNames
      /\ pools' \in [DOMAIN pools' -> Pool]
  <2>1. \A q \in DOMAIN pools : pools'[q] \in Pool
    BY <1>3, <1>5 DEF TypeOK
  <2> QED BY <1>3, <2>1 DEF TypeOK
<1>7. \A q \in DOMAIN pools : \A b, c \in pools[q].draining :
        /\ b.addresses # {}
        /\ b.id = c.id => b = c
        /\ b # c => b.addresses \cap c.addresses = {}
  BY DEF Loadable, DrainsLoad, BatchIdsLoad
<1>8. PoolsShrink
  <2>1. \A b \in left : /\ b.addresses # {}
                        /\ \E c \in pools[p].draining : c.id = b.id /\ b.addresses \subseteq c.addresses
    BY <1>2, <1>7
  <2>2. \A b, c \in left : b.id = c.id => b = c
    <3> HIDE DEF left
    <3> QED BY <1>2, <1>7
  <2> HIDE DEF left
  <2>3. ASSUME NEW q \in DOMAIN pools', q # p
        PROVE  \A b \in pools'[q].draining :
                 b.addresses # {} /\ \E c \in pools[q].draining :
                                        c.id = b.id /\ b.addresses \subseteq c.addresses
    BY <1>3, <1>7, <2>3
  <2>4. \A q \in DOMAIN pools' : \A b, c \in pools'[q].draining : b.id = c.id => b = c
    BY <1>3, <1>5, <1>7, <2>2
  <2>5. ASSUME NEW q \in DOMAIN pools'
        PROVE  /\ pools'[q].template = pools[q].template
               /\ pools'[q].capacity = pools[q].capacity
               /\ pools'[q].pinned = pools[q].pinned
               /\ pools'[q].active = pools[q].active
    BY <1>3, <1>5, <2>5
  <2>6. \A q \in DOMAIN pools' : \A b \in pools'[q].draining :
          b.addresses # {} /\ \E c \in pools[q].draining :
                                 c.id = b.id /\ b.addresses \subseteq c.addresses
    BY <1>5, <2>1, <2>3
  <2>7. DOMAIN pools' \subseteq DOMAIN pools
    BY <1>3
  <2> QED BY <2>4, <2>5, <2>6, <2>7 DEF PoolsShrink
<1>9. ASSUME NEW a
      PROVE  Holders(a) \ Holders(a)' =
               IF a \in done THEN {Hold("draining", p, batch.id)} ELSE {}
  <2>1. FixedHolds(a)' = FixedHolds(a)
    BY DEF FixedHolds
  <2>2. \A q \in DOMAIN pools : q # p => PoolHolds(q, pools'[q], a) = PoolHolds(q, pools[q], a)
    BY <1>3
  <2>3. ASSUME NEW h \in Holders(a), h \notin Holders(a)'
        PROVE  a \in done /\ h = Hold("draining", p, batch.id)
    <3>1. h \in PoolHolds(p, pools[p], a) /\ h \notin PoolHolds(p, pools'[p], a)
      BY <1>3, <2>1, <2>2, <2>3 DEF Holders
    <3>2. PICK b \in pools[p].draining : a \in b.addresses /\ h = Hold("draining", p, b.id)
      <4> HIDE DEF left
      <4> QED BY <1>5, <3>1 DEF PoolHolds, Automatic
    <3>3. \A c \in left : a \in c.addresses => c.id # b.id
      BY <1>5, <3>1, <3>2 DEF PoolHolds
    <3>4. b = batch
      BY <3>2, <3>3
    <3> QED BY <1>2, <3>2, <3>3, <3>4
  <2>4. ASSUME a \in done
        PROVE  /\ Hold("draining", p, batch.id) \in Holders(a)
               /\ Hold("draining", p, batch.id) \notin Holders(a)'
    <3>1. Hold("draining", p, batch.id) \in Holders(a)
      BY <2>4, HoldersMember
    <3>2. ASSUME NEW q \in DOMAIN pools', NEW b \in pools'[q].draining, a \in b.addresses,
                 Hold("draining", p, batch.id) = Hold("draining", q, b.id)
          PROVE  FALSE
      <4>1. q = p /\ b.id = batch.id
        BY <3>2 DEF Hold
      <4>2. b \in left
        BY <1>5, <3>2, <4>1
      <4>3. b = rest
        BY <1>7, <4>1, <4>2
      <4> QED BY <1>2, <2>4, <3>2, <4>3
    <3>3. Hold("draining", p, batch.id) \notin FixedHolds(a)'
      BY DEF FixedHolds, Hold
    <3>4. ASSUME NEW q \in DOMAIN pools'
          PROVE  Hold("draining", p, batch.id) \notin PoolHolds(q, pools'[q], a)
      BY <3>2, <3>4 DEF PoolHolds, Hold
    <3> QED BY <3>1, <3>3, <3>4 DEF Holders
  <2> QED BY <2>3, <2>4
<1>10. \A a \in Addrs : Cardinality(Holders(a) \ Holders(a)') = count[a]
  BY <1>9, FS_EmptySet, FS_Singleton
<1>11. count \in [Addrs -> Nat]
  OBVIOUS
<1> HIDE DEF count, left
<1> QED BY <1>6, <1>8, <1>10, <1>11, ReleaseKeepsLoadable, ReleaseKeepsType,
            ShrinkKeepsExclusive DEF count

LEMMA CompleteDrainStep ==
  ASSUME TypeOK, Loadable, NEW p \in DOMAIN pools, NEW batch \in pools[p].draining,
         CompleteDrain(p, batch)
  PROVE  TypeOK' /\ Loadable' /\ (Exclusive => Exclusive')
<1> DEFINE rest == [id |-> batch.id, addresses |-> {}]
<1>1. rest \in DrainBatch
  BY DEF TypeOK, Pool, DrainBatch
<1>2. rest.id = batch.id /\ rest.addresses = batch.addresses \ batch.addresses
  OBVIOUS
<1>3. pools' = [pools EXCEPT ![p].draining =
                  (@ \ {batch}) \cup (IF rest.addresses = {} THEN {} ELSE {rest})]
  BY DEF CompleteDrain
<1>4. /\ UNCHANGED <<templates, fixed, nextBatch, nextAddresses>>
      /\ addresses' = Released([a \in Addrs |-> IF a \in batch.addresses THEN 1 ELSE 0])
  BY DEF CompleteDrain
<1> HIDE DEF rest
<1> QED BY <1>1, <1>2, <1>3, <1>4, DrainStep

LEMMA CompleteDrainedAddressStep ==
  ASSUME TypeOK, Loadable, NEW p \in DOMAIN pools, NEW batch \in pools[p].draining,
         NEW a \in batch.addresses, CompleteDrainedAddress(p, batch, a)
  PROVE  TypeOK' /\ Loadable' /\ (Exclusive => Exclusive')
<1> DEFINE rest == [batch EXCEPT !.addresses = @ \ {a}]
<1> DEFINE done == {a}
<1>1. batch \in DrainBatch
  BY DEF TypeOK, Pool
<1>2. rest \in DrainBatch /\ rest.id = batch.id /\ rest.addresses = batch.addresses \ done
  BY <1>1 DEF DrainBatch
<1>3. pools' = [pools EXCEPT ![p].draining =
                  (@ \ {batch}) \cup (IF rest.addresses = {} THEN {} ELSE {rest})]
  BY DEF CompleteDrainedAddress
<1>4. /\ UNCHANGED <<templates, fixed, nextBatch, nextAddresses>>
      /\ addresses' = Released([b \in Addrs |-> IF b \in done THEN 1 ELSE 0])
      /\ done \in SUBSET batch.addresses
  BY DEF CompleteDrainedAddress
<1> HIDE DEF rest, done
<1> QED BY <1>2, <1>3, <1>4, DrainStep

-----------------------------------------------------------------------------
(***************************************************************************)
(* Templates and fixed addresses.                                          *)
(***************************************************************************)
LEMMA AddTemplateStep ==
  ASSUME TypeOK, Loadable, NEW t \in TemplateNames, NEW x \in Prefixes, NEW mode \in Modes,
         AddTemplate(t, x, mode)
  PROVE  Loadable' /\ (Exclusive => Exclusive')
<1>1. /\ DOMAIN templates' = DOMAIN templates \cup {t}
      /\ templates'[t].prefix = x
      /\ \A u \in DOMAIN templates : templates'[u] = templates[u]
      /\ UNCHANGED <<fixed, addresses, pools, nextBatch, nextAddresses>>
  BY DEF AddTemplate, Put
<1>2. TemplatesLoad'
  BY <1>1 DEF AddTemplate, Loadable, TemplatesLoad, PrefixesOverlap
<1>3. AddressesLoad'
  BY <1>1 DEF Loadable, AddressesLoad
<1>4. ASSUME NEW p \in DOMAIN pools
      PROVE  PoolLoads(pools[p])' /\ DrainsLoad(pools[p])'
  BY <1>1, <1>4 DEF Loadable, PoolLoads, DrainsLoad, PoolAddressLoads, FixedAddresses
<1>5. ReferencesLoad'
  BY <1>1 DEF Loadable, ReferencesLoad, Holders, FixedHolds
<1>6. FixedLoad' /\ CursorsLoad' /\ BatchIdsLoad'
  BY <1>1 DEF Loadable, FixedLoad, CursorsLoad, BatchIdsLoad
<1>99. ASSUME Exclusive PROVE Exclusive'
  <2>1. \A a : Holders(a)' = Holders(a)
    BY <1>1 DEF Holders, FixedHolds
  <2>2. pools' = pools
    BY <1>1
  <2> QED BY <1>99, <2>1, <2>2 DEF Exclusive
<1> QED BY <1>99, <1>1, <1>2, <1>3, <1>4, <1>5, <1>6 DEF Loadable

\* No address of the table belongs to the template that goes: whoever holds it would
\* belong to the template too, and the template is not referenced.
LEMMA DeleteTemplateStep ==
  ASSUME TypeOK, Loadable, NEW t \in TemplateNames, DeleteTemplate(t)
  PROVE  Loadable' /\ (Exclusive => Exclusive')
<1>1. /\ DOMAIN templates' = DOMAIN templates \ {t}
      /\ \A u \in DOMAIN templates' : templates'[u] = templates[u]
      /\ UNCHANGED <<fixed, addresses, pools, nextBatch>>
      /\ ~TemplateReferenced(t)
  BY DEF DeleteTemplate, Delete
<1>2. \A a \in DOMAIN addresses : addresses[a].template # t
  BY <1>1, ListedIsHeld, HeldIsListed
<1>3. AddressesLoad'
  BY <1>1, <1>2 DEF Loadable, AddressesLoad
<1>4. TemplatesLoad'
  BY <1>1 DEF Loadable, TemplatesLoad
<1>5. ASSUME NEW p \in DOMAIN pools
      PROVE  PoolLoads(pools[p])' /\ DrainsLoad(pools[p])'
  BY <1>1, <1>5 DEF Loadable, PoolLoads, DrainsLoad, PoolAddressLoads, FixedAddresses,
                    TemplateReferenced
<1>6. ReferencesLoad'
  BY <1>1 DEF Loadable, ReferencesLoad, Holders, FixedHolds
<1>7. CursorsLoad'
  BY DEF DeleteTemplate, Delete, Loadable, CursorsLoad
<1>8. FixedLoad' /\ BatchIdsLoad'
  BY <1>1 DEF Loadable, FixedLoad, BatchIdsLoad
<1>99. ASSUME Exclusive PROVE Exclusive'
  <2>1. \A a : Holders(a)' = Holders(a)
    BY <1>1 DEF Holders, FixedHolds
  <2>2. pools' = pools
    BY <1>1
  <2> QED BY <1>99, <2>1, <2>2 DEF Exclusive
<1> QED BY <1>99, <1>1, <1>3, <1>4, <1>5, <1>6, <1>7, <1>8 DEF Loadable

LEMMA CreateFixedAddressStep ==
  ASSUME TypeOK, Loadable, NEW n \in FixedNames, NEW t \in TemplateNames, NEW a \in Addrs,
         NEW o \in Ownerships, CreateFixedAddress(n, t, a, o)
  PROVE  Loadable' /\ (Exclusive => Exclusive')
<1>1. /\ DOMAIN fixed' = DOMAIN fixed \cup {n} /\ n \notin DOMAIN fixed
      /\ fixed'[n] = [template |-> t, address |-> a, ownership |-> o]
      /\ \A m \in DOMAIN fixed : fixed'[m] = fixed[m]
  BY DEF CreateFixedAddress, Put
<1>2. /\ DOMAIN addresses' = DOMAIN addresses \cup {a} /\ a \notin DOMAIN addresses
      /\ addresses'[a] = [template |-> t, ownership |-> o, references |-> 1]
      /\ \A b \in DOMAIN addresses : addresses'[b] = addresses[b]
  BY DEF CreateFixedAddress, Put
<1>3. /\ UNCHANGED <<templates, pools, nextBatch, nextAddresses>>
      /\ t \in DOMAIN templates /\ a \in InPrefix(templates[t].prefix)
      /\ o = OwnershipForMode(templates[t].mode)
  BY DEF CreateFixedAddress
<1>4. Holders(a) = {}
  BY <1>2, HeldIsListed
<1>5. Holders(a)' = {Hold("fixed", n, 0)}
  <2>1. FixedHolds(a)' = {Hold("fixed", n, 0)}
    BY <1>1, <1>4 DEF Holders, FixedHolds
  <2>2. \A p \in DOMAIN pools : PoolHolds(p, pools[p], a) = {}
    BY <1>4 DEF Holders
  <2> QED BY <1>3, <2>1, <2>2 DEF Holders
<1>6. ASSUME NEW b \in DOMAIN addresses
      PROVE  Holders(b)' = Holders(b)
  <2>1. FixedHolds(b)' = FixedHolds(b)
    BY <1>1, <1>2, <1>6 DEF FixedHolds
  <2> QED BY <1>3, <2>1 DEF Holders
<1>7. ReferencesLoad'
  <2>1. Cardinality(Holders(a)') = 1
    BY <1>5, FS_Singleton
  <2>2. \A b \in DOMAIN addresses : addresses'[b].references = Cardinality(Holders(b)')
    BY <1>2, <1>6 DEF Loadable, ReferencesLoad
  <2> QED BY <1>2, <2>1, <2>2 DEF ReferencesLoad
<1>8. AddressesLoad'
  BY <1>2, <1>3 DEF Loadable, AddressesLoad
<1>9. FixedLoad'
  BY <1>1, <1>2 DEF Loadable, FixedLoad
<1>10. ASSUME NEW p \in DOMAIN pools
       PROVE  PoolLoads(pools[p])' /\ DrainsLoad(pools[p])'
  <2>1. FixedAddresses \subseteq FixedAddresses'
    BY <1>1 DEF FixedAddresses
  <2>2. PoolLoads(pools[p]) /\ DrainsLoad(pools[p])
    BY <1>10 DEF Loadable
  <2>3. PoolLoads(pools[p])'
    BY <1>2, <1>3, <2>1, <2>2 DEF PoolLoads, PoolAddressLoads
  <2>4. DrainsLoad(pools[p])'
    BY <1>2, <1>3, <2>2 DEF DrainsLoad, PoolAddressLoads
  <2> QED BY <2>3, <2>4
<1>11. TemplatesLoad' /\ CursorsLoad' /\ BatchIdsLoad'
  BY <1>3 DEF Loadable, TemplatesLoad, CursorsLoad, BatchIdsLoad
<1>99. ASSUME Exclusive PROVE Exclusive'
  BY <1>3, <1>6, <1>99, UsedIsListed DEF Exclusive
<1> QED BY <1>99, <1>3, <1>7, <1>8, <1>9, <1>10, <1>11 DEF Loadable

\* At most one reference means that the name itself is the only holder.
LEMMA DeleteFixedAddressStep ==
  ASSUME TypeOK, Loadable, NEW n \in FixedNames, DeleteFixedAddress(n)
  PROVE  Loadable' /\ (Exclusive => Exclusive')
<1> DEFINE a == fixed[n].address
<1>1. /\ DOMAIN fixed' = DOMAIN fixed \ {n} /\ n \in DOMAIN fixed
      /\ \A m \in DOMAIN fixed' : fixed'[m] = fixed[m]
  BY DEF DeleteFixedAddress, Delete
<1>2. /\ DOMAIN addresses' = DOMAIN addresses \ {a} /\ a \in DOMAIN addresses
      /\ \A b \in DOMAIN addresses' : addresses'[b] = addresses[b]
      /\ addresses[a].references <= 1
  BY DEF DeleteFixedAddress, Delete, Loadable, FixedLoad
<1>3. UNCHANGED <<templates, pools, nextBatch, nextAddresses>>
  BY DEF DeleteFixedAddress
<1>4. Holders(a) = {Hold("fixed", n, 0)}
  <2>1. Hold("fixed", n, 0) \in Holders(a)
    BY <1>1, HoldersMember
  <2>2. addresses[a].references = Cardinality(Holders(a)) /\ addresses[a].references >= 1
    BY <1>2 DEF Loadable, ReferencesLoad, AddressesLoad
  <2>3. Cardinality(Holders(a)) = 1
    BY <1>2, <2>2 DEF TypeOK, CanonicalAddress
  <2>4. \E h : Holders(a) = {h}
    BY <2>3, HoldersFinite, FS_Singleton
  <2> QED BY <2>1, <2>4
<1>5. ASSUME NEW p \in DOMAIN pools, a \in pools[p].active
      PROVE  FALSE
  <2>1. Hold("pinned", p, 0) \in Holders(a) \/ Hold("automatic", p, 0) \in Holders(a)
    BY <1>5, HoldersMember DEF Automatic
  <2> QED BY <1>4, <2>1 DEF Hold
<1>6. ASSUME NEW p \in DOMAIN pools, NEW b \in pools[p].draining, a \in b.addresses
      PROVE  FALSE
  <2>1. Hold("draining", p, b.id) \in Holders(a)
    BY <1>6, HoldersMember
  <2> QED BY <1>4, <2>1 DEF Hold
<1>7. \A m \in DOMAIN fixed' : fixed[m].address # a
  BY <1>1 DEF Loadable, FixedLoad
<1>8. ASSUME NEW b \in DOMAIN addresses'
      PROVE  Holders(b)' = Holders(b)
  <2>1. FixedHolds(b)' = FixedHolds(b)
    BY <1>1, <1>2, <1>8 DEF FixedHolds
  <2> QED BY <1>3, <2>1 DEF Holders
<1> HIDE DEF a
<1>9. ReferencesLoad'
  BY <1>2, <1>8 DEF Loadable, ReferencesLoad
<1>10. AddressesLoad'
  BY <1>2, <1>3 DEF Loadable, AddressesLoad
<1>11. FixedLoad'
  BY <1>1, <1>2, <1>7 DEF Loadable, FixedLoad
<1>12. ASSUME NEW p \in DOMAIN pools
       PROVE  PoolLoads(pools[p])' /\ DrainsLoad(pools[p])'
  <2>1. FixedAddresses \ {a} \subseteq FixedAddresses'
    BY <1>1 DEF FixedAddresses, a
  <2>2. PoolLoads(pools[p]) /\ DrainsLoad(pools[p])
    BY <1>12 DEF Loadable
  <2>3. PoolLoads(pools[p])'
    BY <1>2, <1>3, <1>5, <1>12, <2>1, <2>2 DEF PoolLoads, PoolAddressLoads
  <2>4. DrainsLoad(pools[p])'
    BY <1>2, <1>3, <1>6, <1>12, <2>2 DEF DrainsLoad, PoolAddressLoads
  <2> QED BY <2>3, <2>4
<1>13. TemplatesLoad' /\ CursorsLoad' /\ BatchIdsLoad'
  BY <1>3 DEF Loadable, TemplatesLoad, CursorsLoad, BatchIdsLoad
<1>99. ASSUME Exclusive PROVE Exclusive'
  <2>1. ASSUME NEW p \in DOMAIN pools,
               NEW b \in Automatic(pools[p]) \cup UNION {c.addresses : c \in pools[p].draining}
        PROVE  Holders(b)' = Holders(b)
    BY <1>2, <1>5, <1>6, <1>8, <2>1, UsedIsListed DEF Automatic
  <2> QED BY <1>3, <1>99, <2>1 DEF Exclusive
<1> QED BY <1>99, <1>3, <1>9, <1>10, <1>11, <1>12, <1>13 DEF Loadable

-----------------------------------------------------------------------------
(***************************************************************************)
(* Pools that take addresses.                                              *)
(***************************************************************************)
LEMMA ReferencedTable ==
  ASSUME TypeOK, NEW t \in DOMAIN templates, NEW pinned, NEW new \in SUBSET Addrs,
         new \cap DOMAIN addresses = {}, addresses' = Referenced(t, pinned, new)
  PROVE  /\ DOMAIN addresses' = DOMAIN addresses \cup new
         /\ \A a \in new :
              /\ addresses'[a].template = t
              /\ addresses'[a].ownership = OwnershipForMode(templates[t].mode)
              /\ addresses'[a].references = 1
         /\ \A a \in DOMAIN addresses :
              /\ addresses'[a].template = addresses[a].template
              /\ addresses'[a].ownership = addresses[a].ownership
              /\ addresses'[a].references =
                   IF a \in pinned THEN addresses[a].references + 1 ELSE addresses[a].references
<1>1. DOMAIN addresses' = DOMAIN addresses \cup new
  BY DEF Referenced
<1>2. ASSUME NEW a \in new
      PROVE  addresses'[a] = [template |-> t, ownership |-> OwnershipForMode(templates[t].mode),
                              references |-> 1]
  BY DEF Referenced
<1>3. ASSUME NEW a \in DOMAIN addresses
      PROVE  /\ addresses'[a].template = addresses[a].template
             /\ addresses'[a].ownership = addresses[a].ownership
             /\ addresses'[a].references =
                  IF a \in pinned THEN addresses[a].references + 1 ELSE addresses[a].references
  <2>1. addresses[a] \in CanonicalAddress /\ a \notin new
    BY DEF TypeOK
  <2> QED BY <2>1 DEF Referenced, CanonicalAddress
<1> QED BY <1>1, <1>2, <1>3

LEMMA AdvancedLoads ==
  ASSUME TypeOK, Loadable, NEW x \in Prefixes, NEW count, NEW new \in FirstFree(x, count),
         nextAddresses' \in Advanced(x, new)
  PROVE  CursorsLoad'
<1>1. CASE new = {}
  BY <1>1 DEF Advanced, Loadable, CursorsLoad
<1>2. CASE new # {}
  <2>1. PICK a \in new : nextAddresses' = Put(nextAddresses, x, After(x, a))
    BY <1>2 DEF Advanced, Last
  <2>2. a \in InPrefix(x)
    BY FirstFreeType
  <2>3. After(x, a) \in InPrefix(x)
    BY <2>2, AfterType
  <2>4. \A y \in DOMAIN nextAddresses' :
          \/ nextAddresses'[y] = After(x, a) /\ y = x
          \/ y \in DOMAIN nextAddresses /\ nextAddresses'[y] = nextAddresses[y]
    BY <2>1 DEF Put
  <2> QED BY <2>3, <2>4 DEF Loadable, CursorsLoad
<1> QED BY <1>1, <1>2

\* The pinned addresses and the new ones are disjoint and finitely many.
LEMMA ActiveSize ==
  ASSUME TypeOK, Loadable, NEW x \in Prefixes, NEW capacity \in Nat, NEW pinned,
         IsFiniteSet(pinned), pinned \subseteq DOMAIN addresses,
         NEW new \in FirstFree(x, capacity - Cardinality(pinned))
  PROVE  Cardinality(pinned \cup new) = capacity
<1>1. new \subseteq InPrefix(x) /\ pinned \cap new = {}
      /\ Cardinality(new) = capacity - Cardinality(pinned)
  BY FirstFreeType
<1>2. x.lo \in Int /\ x.hi \in Int
  BY PrefixAssumption
<1>3. IsFiniteSet(InPrefix(x))
  BY <1>2, FS_Interval DEF InPrefix
<1>4. IsFiniteSet(new)
  BY <1>1, <1>3, FS_Subset
<1>5. /\ Cardinality(pinned \cup new) =
           Cardinality(pinned) + Cardinality(new) - Cardinality(pinned \cap new)
      /\ Cardinality(pinned) \in Nat
  BY <1>4, FS_Union, FS_CardinalityType
<1>6. Cardinality(pinned \cap new) = 0
  BY <1>1, FS_EmptySet
<1> QED BY <1>1, <1>5, <1>6

LEMMA PinnedFinite ==
  ASSUME TypeOK, NEW names \in SUBSET DOMAIN fixed
  PROVE  IsFiniteSet({fixed[n].address : n \in names})
<1> DEFINE S == {fixed[n].address : n \in names}
<1> DEFINE f == [n \in names |-> fixed[n].address]
<1>1. IsFiniteSet(names)
  BY NamesAssumption, FS_Subset DEF TypeOK
<1>2. f \in Surjection(names, S)
  BY DEF Surjection
<1> HIDE DEF S, f
<1>3. IsFiniteSet(S)
  BY <1>1, <1>2, FS_Surjection
<1> QED BY <1>3 DEF S

LEMMA CreatePoolStep ==
  ASSUME TypeOK, Loadable, NEW p \in PoolNames, NEW t \in TemplateNames,
         NEW c \in 1 .. MaxPoolSize, NEW names \in SUBSET DOMAIN fixed,
         CreatePool(p, t, c, names)
  PROVE  Loadable' /\ (Exclusive => Exclusive')
<1> DEFINE pinned == {fixed[n].address : n \in names}
<1> DEFINE x == templates[t].prefix
<1>1. PICK new \in FirstFree(x, c - Cardinality(pinned)) :
        /\ nextAddresses' \in Advanced(x, new)
        /\ addresses' = Referenced(t, pinned, new)
        /\ pools' = Put(pools, p, [template |-> t, capacity |-> c, pinned |-> pinned,
                                   active |-> pinned \cup new, draining |-> {}])
  BY DEF CreatePool
<1>2. /\ t \in DOMAIN templates /\ x \in Prefixes /\ p \notin DOMAIN pools
      /\ \A n \in names : fixed[n].template = t
      /\ UNCHANGED <<templates, fixed, nextBatch>>
  BY DEF CreatePool, TypeOK, Template
<1>3. /\ pinned \subseteq DOMAIN addresses \cap FixedAddresses
      /\ \A a \in pinned : addresses[a].template = t
  BY <1>2 DEF Loadable, FixedLoad, FixedAddresses
<1>4. IsFiniteSet(pinned)
  BY PinnedFinite
<1> HIDE DEF pinned
<1>5. c \in Nat
  BY BoundAssumption
<1>6. Cardinality(pinned \cup new) = c
  BY <1>2, <1>3, <1>4, <1>5, ActiveSize
<1>7. new \subseteq InPrefix(x) /\ new \subseteq Addrs /\ new \cap DOMAIN addresses = {}
  BY <1>2, FirstFreeType
<1>8. /\ DOMAIN pools' = DOMAIN pools \cup {p}
      /\ pools'[p] = [template |-> t, capacity |-> c, pinned |-> pinned,
                      active |-> pinned \cup new, draining |-> {}]
      /\ \A q \in DOMAIN pools : pools'[q] = pools[q]
  BY <1>1, <1>2 DEF Put
<1>9. /\ DOMAIN addresses' = DOMAIN addresses \cup new
      /\ \A a \in new :
           /\ addresses'[a].template = t
           /\ addresses'[a].ownership = OwnershipForMode(templates[t].mode)
           /\ addresses'[a].references = 1
      /\ \A a \in DOMAIN addresses :
           /\ addresses'[a].template = addresses[a].template
           /\ addresses'[a].ownership = addresses[a].ownership
           /\ addresses'[a].references =
                IF a \in pinned THEN addresses[a].references + 1 ELSE addresses[a].references
  <2>1. new \in SUBSET Addrs /\ new \cap DOMAIN addresses = {} /\ t \in DOMAIN templates
    BY <1>2, <1>7
  <2>2. addresses' = Referenced(t, pinned, new)
    BY <1>1
  <2> HIDE DEF x
  <2> QED BY <2>1, <2>2, ReferencedTable
<1>10. ASSUME NEW a
       PROVE  Holders(a)' = Holders(a) \cup
                (IF a \in pinned THEN {Hold("pinned", p, 0)}
                 ELSE IF a \in new THEN {Hold("automatic", p, 0)} ELSE {})
  <2>1. FixedHolds(a)' = FixedHolds(a)
    BY <1>2 DEF FixedHolds
  <2>2. PoolHolds(p, pools'[p], a) =
          IF a \in pinned THEN {Hold("pinned", p, 0)}
          ELSE IF a \in new THEN {Hold("automatic", p, 0)} ELSE {}
    BY <1>8 DEF PoolHolds, Automatic
  <2> QED BY <1>8, <2>1, <2>2 DEF Holders
<1>11. ReferencesLoad'
  <2>1. ASSUME NEW a \in new
        PROVE  Cardinality(Holders(a)') = 1
    <3>1. Holders(a) = {} /\ a \notin pinned
      BY <1>3, <1>7, HeldIsListed
    <3>2. Holders(a)' = {Hold("automatic", p, 0)}
      BY <1>10, <3>1
    <3> QED BY <3>2, FS_Singleton
  <2>2. ASSUME NEW a \in DOMAIN addresses, a \in pinned
        PROVE  Cardinality(Holders(a)') = Cardinality(Holders(a)) + 1
    <3>1. Holders(a)' = Holders(a) \cup {Hold("pinned", p, 0)}
      BY <1>10, <2>2
    <3>2. Hold("pinned", p, 0) \notin Holders(a)
      BY <1>2, HoldersMember DEF Hold
    <3> QED BY <3>1, <3>2, HoldersFinite, FS_AddElement
  <2>3. ASSUME NEW a \in DOMAIN addresses, a \notin pinned
        PROVE  Holders(a)' = Holders(a)
    BY <1>7, <1>10, <2>3
  <2>4. \A a \in DOMAIN addresses : addresses[a].references = Cardinality(Holders(a))
    BY DEF Loadable, ReferencesLoad
  <2>5. ASSUME NEW a \in DOMAIN addresses'
        PROVE  addresses'[a].references = Cardinality(Holders(a)')
    <3>1. CASE a \in new
      BY <1>9, <2>1, <3>1
    <3>2. CASE a \in DOMAIN addresses /\ a \in pinned
      BY <1>9, <2>2, <2>4, <3>2
    <3>3. CASE a \in DOMAIN addresses /\ a \notin pinned
      BY <1>9, <2>3, <2>4, <3>3
    <3> QED BY <1>9, <2>5, <3>1, <3>2, <3>3
  <2> QED BY <2>5 DEF ReferencesLoad
<1>12. AddressesLoad'
  <2>1. ASSUME NEW a \in DOMAIN addresses
        PROVE  /\ addresses[a].references \in Nat /\ addresses[a].references >= 1
               /\ addresses[a].template \in DOMAIN templates
               /\ a \in InPrefix(templates[addresses[a].template].prefix)
               /\ addresses[a].ownership = OwnershipForMode(templates[addresses[a].template].mode)
    BY DEF TypeOK, CanonicalAddress, Loadable, AddressesLoad
  <2>2. \A a \in DOMAIN addresses : addresses'[a].references >= 1
    BY <1>9, <2>1
  <2> QED BY <1>2, <1>7, <1>9, <2>1, <2>2 DEF AddressesLoad
<1>13. FixedLoad'
  BY <1>2, <1>9 DEF Loadable, FixedLoad
<1>14. ASSUME NEW q \in DOMAIN pools'
       PROVE  PoolLoads(pools[q])' /\ DrainsLoad(pools[q])'
  <2>1. CASE q = p
    <3>1. FixedAddresses' = FixedAddresses
      BY <1>2 DEF FixedAddresses
    <3>2. \A a \in pinned \cup new : a \in DOMAIN addresses' /\ addresses'[a].template = t
      BY <1>3, <1>9
    <3>3. PoolLoads(pools[p])'
      BY <1>2, <1>3, <1>6, <1>8, <3>1, <3>2 DEF PoolLoads, PoolAddressLoads
    <3>4. DrainsLoad(pools[p])'
      BY <1>8 DEF DrainsLoad
    <3> QED BY <2>1, <3>3, <3>4
  <2>2. CASE q # p
    <3>1. q \in DOMAIN pools /\ pools'[q] = pools[q] /\ PoolLoads(pools[q]) /\ DrainsLoad(pools[q])
      BY <1>8, <1>14, <2>2 DEF Loadable
    <3>2. PoolLoads(pools[q])'
      BY <1>2, <1>9, <3>1 DEF PoolLoads, PoolAddressLoads, FixedAddresses
    <3>3. DrainsLoad(pools[q])'
      BY <1>2, <1>9, <3>1 DEF DrainsLoad, PoolAddressLoads
    <3> QED BY <3>2, <3>3
  <2> QED BY <2>1, <2>2
<1>15. BatchIdsLoad'
  <2>1. pools'[p].draining = {}
    BY <1>8
  <2> QED BY <1>8, <2>1 DEF Loadable, BatchIdsLoad
<1>16. TemplatesLoad' /\ CursorsLoad'
  BY <1>1, <1>2, AdvancedLoads DEF Loadable, TemplatesLoad
<1>99. ASSUME Exclusive PROVE Exclusive'
  <2>1. ASSUME NEW q \in DOMAIN pools,
               NEW a \in Automatic(pools[q]) \cup UNION {b.addresses : b \in pools[q].draining}
        PROVE  Holders(a)' = Holders(a)
    <3>1. \E h \in Holders(a) : h[1] \in {"automatic", "draining"}
      <4>1. CASE a \in Automatic(pools[q])
        <5>1. Hold("automatic", q, 0) \in Holders(a)
          BY <4>1, HoldersMember
        <5> QED BY <5>1 DEF Hold
      <4>2. CASE \E b \in pools[q].draining : a \in b.addresses
        <5>1. PICK b \in pools[q].draining : a \in b.addresses
          BY <4>2
        <5>2. Hold("draining", q, b.id) \in Holders(a)
          BY <5>1, HoldersMember
        <5> QED BY <5>2 DEF Hold
      <4> QED BY <2>1, <4>1, <4>2
    <3>2. a \notin FixedAddresses
      <4>1. SUFFICES ASSUME NEW n \in DOMAIN fixed, fixed[n].address = a PROVE FALSE
        BY DEF FixedAddresses
      <4>2. Hold("fixed", n, 0) \in Holders(a) /\ Hold("fixed", n, 0)[1] = "fixed"
        BY <4>1, HoldersMember DEF Hold
      <4> QED BY <1>99, <2>1, <3>1, <4>2 DEF Exclusive
    <3>3. a \in DOMAIN addresses
      BY <2>1, UsedIsListed
    <3> QED BY <1>3, <1>7, <1>10, <3>2, <3>3
  <2>2. ASSUME NEW a \in Automatic(pools'[p])
        PROVE  Holders(a)' = {Hold("automatic", p, 0)}
    <3>1. a \in new /\ a \notin pinned
      BY <1>8, <2>2 DEF Automatic
    <3>2. Holders(a) = {}
      BY <1>7, <3>1, HeldIsListed
    <3> QED BY <1>10, <3>1, <3>2
  <2>3. pools'[p].draining = {}
    BY <1>8
  <2>4. \A q \in DOMAIN pools : pools'[q] = pools[q]
    BY <1>8
  <2>5. SUFFICES ASSUME NEW q \in DOMAIN pools',
                        NEW a \in Automatic(pools'[q])
                                    \cup UNION {b.addresses : b \in pools'[q].draining},
                        NEW g \in Holders(a)', NEW h \in Holders(a)'
                 PROVE  g = h
    BY DEF Exclusive, Automatic
  <2>6. CASE q = p
    BY <2>2, <2>3, <2>5, <2>6
  <2>7. CASE q # p
    <3>1. q \in DOMAIN pools /\ pools'[q] = pools[q]
      BY <1>8, <2>4, <2>7
    <3>2. Holders(a)' = Holders(a)
      BY <2>1, <3>1
    <3> QED BY <1>99, <3>1, <3>2 DEF Exclusive
  <2> QED BY <2>6, <2>7
<1> QED BY <1>99, <1>11, <1>12, <1>13, <1>14, <1>15, <1>16 DEF Loadable
\* Facts of a refresh, with the addresses it generated.
LEMMA RefreshFacts ==
  ASSUME TypeOK, Loadable, NEW p \in PoolNames, RefreshPool(p)
  PROVE  LET pool == pools[p]
             x == templates[pool.template].prefix
         IN /\ p \in DOMAIN pools /\ pool \in Pool /\ x \in Prefixes
            /\ pool.template \in DOMAIN templates
            /\ nextBatch \in Nat
            /\ nextBatch' = IF Retired(pool) = {} THEN nextBatch ELSE nextBatch + 1
            /\ UNCHANGED <<templates, fixed>>
            /\ \E new \in FirstFree(x, pool.capacity - Cardinality(pool.pinned)) :
                 /\ nextAddresses' \in Advanced(x, new)
                 /\ addresses' = Referenced(pool.template, {}, new)
                 /\ DOMAIN pools' = DOMAIN pools
                 /\ \A q \in DOMAIN pools : q # p => pools'[q] = pools[q]
                 /\ pools'[p].template = pool.template
                 /\ pools'[p].capacity = pool.capacity
                 /\ pools'[p].pinned = pool.pinned
                 /\ pools'[p].active = pool.pinned \cup new
                 /\ pools'[p].draining = pool.draining \cup Retired(pool)
<1> DEFINE pool == pools[p]
<1> DEFINE x == templates[pool.template].prefix
<1>1. PICK new \in FirstFree(x, pool.capacity - Cardinality(pool.pinned)) :
        /\ nextAddresses' \in Advanced(x, new)
        /\ addresses' = Referenced(pool.template, {}, new)
        /\ pools' = [pools EXCEPT ![p] =
                       [pool EXCEPT !.active = pool.pinned \cup new,
                                    !.draining = pool.draining \cup Retired(pool)]]
  BY DEF RefreshPool
<1>2. p \in DOMAIN pools /\ pool \in Pool /\ nextBatch \in Nat
  BY DEF RefreshPool, TypeOK
<1>3. pool.template \in DOMAIN templates /\ x \in Prefixes
  BY <1>2 DEF Loadable, PoolLoads, TypeOK, Template
<1>4. pools'[p] = [pool EXCEPT !.active = pool.pinned \cup new,
                               !.draining = pool.draining \cup Retired(pool)]
  BY <1>1, <1>2
<1>5. /\ pools'[p].template = pool.template
      /\ pools'[p].capacity = pool.capacity
      /\ pools'[p].pinned = pool.pinned
      /\ pools'[p].active = pool.pinned \cup new
      /\ pools'[p].draining = pool.draining \cup Retired(pool)
  BY <1>2, <1>4 DEF Pool
<1>6. DOMAIN pools' = DOMAIN pools /\ \A q \in DOMAIN pools : q # p => pools'[q] = pools[q]
  BY <1>1
<1>7. /\ nextBatch' = IF Retired(pool) = {} THEN nextBatch ELSE nextBatch + 1
      /\ UNCHANGED <<templates, fixed>>
  BY DEF RefreshPool
<1> QED BY <1>1, <1>2, <1>3, <1>5, <1>6, <1>7

LEMMA RefreshPoolStep ==
  ASSUME TypeOK, Loadable, NEW p \in PoolNames, RefreshPool(p)
  PROVE  Loadable' /\ (Exclusive => Exclusive')
<1> DEFINE pool == pools[p]
<1> DEFINE x == templates[pool.template].prefix
<1> DEFINE old == Automatic(pool)
<1> DEFINE batch == [id |-> nextBatch + 1, addresses |-> old]
<1>1. PICK new \in FirstFree(x, pool.capacity - Cardinality(pool.pinned)) :
        /\ nextAddresses' \in Advanced(x, new)
        /\ addresses' = Referenced(pool.template, {}, new)
        /\ DOMAIN pools' = DOMAIN pools
        /\ \A q \in DOMAIN pools : q # p => pools'[q] = pools[q]
        /\ pools'[p].template = pool.template
        /\ pools'[p].capacity = pool.capacity
        /\ pools'[p].pinned = pool.pinned
        /\ pools'[p].active = pool.pinned \cup new
        /\ pools'[p].draining = pool.draining \cup Retired(pool)
  BY RefreshFacts
<1>2. /\ p \in DOMAIN pools /\ pool \in Pool /\ x \in Prefixes
      /\ pool.template \in DOMAIN templates
      /\ nextBatch \in Nat
      /\ nextBatch' = IF Retired(pool) = {} THEN nextBatch ELSE nextBatch + 1
      /\ UNCHANGED <<templates, fixed>>
  BY RefreshFacts
<1>3. Retired(pool) = IF old = {} THEN {} ELSE {batch}
  BY DEF Retired
<1>4. PoolLoads(pool) /\ DrainsLoad(pool)
  BY <1>2 DEF Loadable
<1>5. /\ pool.pinned \subseteq pool.active /\ old = pool.active \ pool.pinned
      /\ pool.active \subseteq DOMAIN addresses /\ pool.pinned \subseteq FixedAddresses
      /\ \A a \in pool.active : addresses[a].template = pool.template
  BY <1>4 DEF PoolLoads, PoolAddressLoads, Automatic
<1>6. new \subseteq InPrefix(x) /\ new \subseteq Addrs /\ new \cap DOMAIN addresses = {}
  BY <1>2, FirstFreeType
<1>7. Cardinality(pool.pinned \cup new) = pool.capacity
  <2>1. FixedAddresses = {fixed[n].address : n \in DOMAIN fixed}
    BY DEF FixedAddresses
  <2>2. IsFiniteSet(FixedAddresses)
    BY <2>1, PinnedFinite
  <2>3. IsFiniteSet(pool.pinned)
    BY <1>5, <2>2, FS_Subset
  <2>4. pool.capacity \in Nat
    BY <1>2, BoundAssumption DEF Pool
  <2>5. pool.pinned \subseteq DOMAIN addresses
    BY <1>5
  <2> HIDE DEF pool, x
  <2> QED BY <1>1, <1>2, <2>3, <2>4, <2>5, ActiveSize
<1>8. /\ DOMAIN addresses' = DOMAIN addresses \cup new
      /\ \A a \in new :
           /\ addresses'[a].template = pool.template
           /\ addresses'[a].ownership = OwnershipForMode(templates[pool.template].mode)
           /\ addresses'[a].references = 1
      /\ \A a \in DOMAIN addresses :
           /\ addresses'[a].template = addresses[a].template
           /\ addresses'[a].ownership = addresses[a].ownership
           /\ addresses'[a].references = addresses[a].references
  <2>1. new \in SUBSET Addrs /\ addresses' = Referenced(pool.template, {}, new)
    BY <1>1, <1>6
  <2>2. pool.template \in DOMAIN templates /\ new \cap DOMAIN addresses = {}
    BY <1>2, <1>6
  <2> DEFINE t == pool.template
  <2> DEFINE none == {}
  <2> HIDE DEF pool, x, t, none
  <2>3. t \in DOMAIN templates /\ addresses' = Referenced(t, none, new)
    BY <2>1, <2>2 DEF t, none
  <2>4. /\ DOMAIN addresses' = DOMAIN addresses \cup new
        /\ \A a \in new :
             /\ addresses'[a].template = t
             /\ addresses'[a].ownership = OwnershipForMode(templates[t].mode)
             /\ addresses'[a].references = 1
        /\ \A a \in DOMAIN addresses :
             /\ addresses'[a].template = addresses[a].template
             /\ addresses'[a].ownership = addresses[a].ownership
             /\ addresses'[a].references =
                  IF a \in none THEN addresses[a].references + 1 ELSE addresses[a].references
    BY <2>1, <2>2, <2>3, ReferencedTable
  <2> QED BY <2>4 DEF t, none
<1>9. \A q \in DOMAIN pools : \A b \in pools[q].draining : b.id \in 1 .. nextBatch
  BY DEF Loadable, DrainsLoad
<1>10. ASSUME NEW a
       PROVE  Holders(a)' = (Holders(a) \ (IF a \in old THEN {Hold("automatic", p, 0)} ELSE {}))
                \cup (IF a \in new THEN {Hold("automatic", p, 0)} ELSE {})
                \cup (IF a \in old THEN {Hold("draining", p, batch.id)} ELSE {})
  <2> DEFINE others == FixedHolds(a) \cup
                         UNION {PoolHolds(q, pools[q], a) : q \in DOMAIN pools \ {p}}
  <2>1. FixedHolds(a)' = FixedHolds(a)
    BY <1>2 DEF FixedHolds
  <2>2. Holders(a) = others \cup PoolHolds(p, pool, a)
    BY <1>2 DEF Holders
  <2>3. Holders(a)' = others \cup PoolHolds(p, pools'[p], a)
    BY <1>1, <1>2, <2>1 DEF Holders
  <2>4. Hold("automatic", p, 0) \notin others
    <3>1. \A h \in FixedHolds(a) : h[1] = "fixed"
      BY DEF FixedHolds, Hold
    <3>2. \A q \in DOMAIN pools \ {p} : \A h \in PoolHolds(q, pools[q], a) : h[2][1] = q
      BY DEF PoolHolds, Hold
    <3>3. Hold("automatic", p, 0)[1] = "automatic" /\ Hold("automatic", p, 0)[2][1] = p
      BY DEF Hold
    <3> QED BY <3>1, <3>2, <3>3
  <2>5. new \cap old = {} /\ new \cap pool.pinned = {}
    BY <1>5, <1>6
  <2>6. Automatic(pools'[p]) = new
    BY <1>1, <2>5 DEF Automatic
  <2> DEFINE pinnedHold == IF a \in pool.pinned THEN {Hold("pinned", p, 0)} ELSE {}
  <2> DEFINE drains == {Hold("draining", p, b.id) : b \in {c \in pool.draining : a \in c.addresses}}
  <2>7. PoolHolds(p, pool, a) =
          pinnedHold \cup (IF a \in old THEN {Hold("automatic", p, 0)} ELSE {}) \cup drains
    BY DEF PoolHolds
  <2>8. {Hold("draining", p, b.id) : b \in {c \in pools'[p].draining : a \in c.addresses}} =
          drains \cup (IF a \in old THEN {Hold("draining", p, batch.id)} ELSE {})
    <3>1. batch.addresses = old
      OBVIOUS
    <3>2. {c \in pools'[p].draining : a \in c.addresses} =
            {c \in pool.draining : a \in c.addresses} \cup (IF a \in old THEN {batch} ELSE {})
      <4> HIDE DEF pool, old, batch
      <4> QED BY <1>1, <1>3, <3>1
    <3> HIDE DEF pool, old, batch
    <3> QED BY <3>2
  <2>9. PoolHolds(p, pools'[p], a) =
          pinnedHold \cup (IF a \in new THEN {Hold("automatic", p, 0)} ELSE {})
            \cup drains \cup (IF a \in old THEN {Hold("draining", p, batch.id)} ELSE {})
    BY <1>1, <2>6, <2>8 DEF PoolHolds
  <2>10. Hold("automatic", p, 0) \notin pinnedHold \cup drains
    BY DEF Hold
  <2> HIDE DEF others, pinnedHold, drains, old, batch
  <2> QED BY <2>2, <2>3, <2>4, <2>7, <2>9, <2>10
<1>11. ASSUME NEW a \in new
       PROVE  Cardinality(Holders(a)') = 1
  <2>1. Holders(a) = {} /\ a \notin old
    BY <1>5, <1>6, HeldIsListed
  <2>2. Holders(a)' = {Hold("automatic", p, 0)}
    BY <1>10, <1>11, <2>1
  <2> QED BY <2>2, FS_Singleton
<1>12. ASSUME NEW a \in DOMAIN addresses
       PROVE  Cardinality(Holders(a)') = Cardinality(Holders(a))
  <2>1. a \notin new
    BY <1>6, <1>12
  <2>2. CASE a \notin old
    BY <1>10, <2>1, <2>2
  <2>3. CASE a \in old
    <3> DEFINE H == Holders(a)
    <3> DEFINE auto == Hold("automatic", p, 0)
    <3> DEFINE drain == Hold("draining", p, batch.id)
    <3>1. Holders(a)' = (H \ {auto}) \cup {drain}
      BY <1>10, <2>1, <2>3
    <3>2. auto \in H
      BY <1>2, <2>3, HoldersMember
    <3>3. drain \notin H
      BY <1>2, <1>9, HoldersMember DEF Hold
    <3>4. IsFiniteSet(H)
      BY HoldersFinite
    <3> HIDE DEF H, auto, drain
    <3>5. /\ IsFiniteSet(H \ {auto})
          /\ Cardinality(H \ {auto}) = Cardinality(H) - 1
          /\ Cardinality(H) \in Nat
      BY <3>2, <3>4, FS_RemoveElement, FS_CardinalityType
    <3>6. Cardinality((H \ {auto}) \cup {drain}) = Cardinality(H \ {auto}) + 1
      BY <3>3, <3>5, FS_AddElement
    <3> QED BY <3>1, <3>5, <3>6 DEF H
  <2> QED BY <2>2, <2>3
<1> HIDE DEF pool, x, old, batch
<1>13. ReferencesLoad'
  BY <1>8, <1>11, <1>12 DEF Loadable, ReferencesLoad
<1>14. AddressesLoad'
  <2>1. \A a \in new : a \in InPrefix(templates[pool.template].prefix)
    BY <1>6 DEF x
  <2> QED BY <1>2, <1>8, <2>1 DEF Loadable, AddressesLoad
<1>15. FixedLoad'
  BY <1>2, <1>8 DEF Loadable, FixedLoad
<1>16. FixedAddresses' = FixedAddresses
  BY <1>2 DEF FixedAddresses
<1>17. ASSUME NEW q \in DOMAIN pools, q # p
       PROVE  PoolLoads(pools[q])' /\ DrainsLoad(pools[q])'
  <2>1. pools'[q] = pools[q] /\ PoolLoads(pools[q]) /\ DrainsLoad(pools[q])
    BY <1>1, <1>17 DEF Loadable
  <2>2. PoolLoads(pools[q])'
    BY <1>2, <1>8, <1>16, <2>1 DEF PoolLoads, PoolAddressLoads
  <2>3. \A i \in 1 .. nextBatch : i \in 1 .. nextBatch'
    BY <1>2
  <2>4. DrainsLoad(pools[q])'
    BY <1>8, <2>1, <2>3 DEF DrainsLoad, PoolAddressLoads
  <2> QED BY <2>2, <2>4
<1>18. PoolLoads(pools[p])'
  BY <1>1, <1>2, <1>4, <1>5, <1>7, <1>8, <1>16 DEF PoolLoads, PoolAddressLoads
<1>19. DrainsLoad(pools[p])'
  <2>1. \A b \in pools'[p].draining : b \in pool.draining \/ (b = batch /\ old # {})
    BY <1>1, <1>3
  <2>2. batch.id = nextBatch + 1 /\ batch.addresses = old
    BY DEF batch
  <2>3. old # {} => nextBatch' = nextBatch + 1
    BY <1>2, <1>3
  <2>4. \A i \in 1 .. nextBatch : i \in 1 .. nextBatch'
    BY <1>2
  <2>5. \A b \in pool.draining :
          /\ b.id \in 1 .. nextBatch
          /\ b.addresses # {} /\ b.addresses \cap pool.active = {}
          /\ \A a \in b.addresses : a \in DOMAIN addresses /\ addresses[a].template = pool.template
          /\ \A c \in pool.draining : b # c => b.addresses \cap c.addresses = {}
    BY <1>4 DEF DrainsLoad, PoolAddressLoads
  <2>6. ASSUME NEW b \in pools'[p].draining
        PROVE  /\ b.id \in 1 .. nextBatch'
               /\ b.addresses # {}
               /\ b.addresses \subseteq DOMAIN addresses
               /\ \A a \in b.addresses : addresses[a].template = pool.template
               /\ b.addresses \cap pool.pinned = {}
    BY <1>2, <1>5, <2>1, <2>2, <2>3, <2>4, <2>5
  <2>7. \A b \in pools'[p].draining : b.addresses \cap pools'[p].active = {}
    BY <1>1, <1>6, <2>6
  <2>8. \A b, c \in pools'[p].draining : b # c => b.addresses \cap c.addresses = {}
    BY <1>5, <2>1, <2>2, <2>5
  <2>9. \A b \in pools'[p].draining : \A a \in b.addresses :
          a \in DOMAIN addresses' /\ addresses'[a].template = pools'[p].template
    BY <1>1, <1>8, <2>6
  <2> QED BY <2>6, <2>7, <2>8, <2>9 DEF DrainsLoad, PoolAddressLoads
<1>20. BatchIdsLoad'
  <2> SUFFICES ASSUME NEW q \in DOMAIN pools, NEW r \in DOMAIN pools,
                      NEW b \in pools'[q].draining, NEW c \in pools'[r].draining, b.id = c.id
               PROVE  q = r /\ b = c
    BY <1>1 DEF BatchIdsLoad
  <2>1. b \in pools[q].draining \/ (q = p /\ b = batch)
    BY <1>1, <1>3 DEF pool
  <2>2. c \in pools[r].draining \/ (r = p /\ c = batch)
    BY <1>1, <1>3 DEF pool
  <2>3. batch.id = nextBatch + 1
    BY DEF batch
  <2>4. \A i \in 1 .. nextBatch : i # nextBatch + 1
    BY <1>2
  <2> QED BY <1>9, <2>1, <2>2, <2>3, <2>4 DEF Loadable, BatchIdsLoad
<1>21. TemplatesLoad' /\ CursorsLoad'
  BY <1>1, <1>2, AdvancedLoads DEF Loadable, TemplatesLoad
<1>99. ASSUME Exclusive PROVE Exclusive'
  <2> SUFFICES ASSUME NEW q \in DOMAIN pools,
                      NEW a \in Automatic(pools'[q]) \cup UNION {b.addresses : b \in pools'[q].draining},
                      NEW g \in Holders(a)', NEW h \in Holders(a)'
               PROVE  g = h
    BY <1>1 DEF Exclusive
  <2>1. CASE a \in new
    <3>1. Holders(a) = {} /\ a \notin old
      BY <1>5, <1>6, <2>1, HeldIsListed
    <3> QED BY <1>10, <2>1, <3>1
  <2>2. CASE a \notin new
    <3>1. a \in Automatic(pools[q]) \cup UNION {b.addresses : b \in pools[q].draining}
      <4>1. CASE q # p
        BY <1>1, <4>1
      <4>2. CASE q = p
        BY <1>1, <1>3, <1>5, <2>2, <4>2 DEF Automatic, pool, batch, old
      <4> QED BY <4>1, <4>2
    <3>2. \A i, j \in Holders(a) : i = j
      BY <1>99, <3>1 DEF Exclusive
    <3>3. CASE a \notin old
      BY <1>10, <2>2, <3>2, <3>3
    <3>4. CASE a \in old
      <4>1. Hold("automatic", p, 0) \in Holders(a)
        BY <1>2, <3>4, HoldersMember DEF old, pool
      <4> QED BY <1>10, <2>2, <3>2, <3>4, <4>1
    <3> QED BY <3>3, <3>4
  <2> QED BY <2>1, <2>2
<1> QED BY <1>99, <1>1, <1>13, <1>14, <1>15, <1>17, <1>18, <1>19, <1>20, <1>21 DEF Loadable

-----------------------------------------------------------------------------
(***************************************************************************)
(* The inductive invariant.                                                *)
(***************************************************************************)
IInv == TypeOK /\ Loadable /\ Exclusive

LEMMA InitIInv == Init => IInv
<1> SUFFICES ASSUME Init PROVE IInv
  OBVIOUS
<1>1. TypeOK
  BY TypeInit
<1>2. /\ DOMAIN templates = {} /\ DOMAIN fixed = {} /\ DOMAIN addresses = {}
      /\ DOMAIN pools = {} /\ DOMAIN nextAddresses = {}
  BY DEF Init
<1>3. Loadable
  BY <1>2 DEF Loadable, TemplatesLoad, AddressesLoad, FixedLoad, CursorsLoad, BatchIdsLoad,
              ReferencesLoad
<1>4. Exclusive
  BY <1>2 DEF Exclusive
<1> QED BY <1>1, <1>3, <1>4 DEF IInv

LEMMA NextIInv == IInv /\ [Next]_vars => IInv'
<1> SUFFICES ASSUME IInv, [Next]_vars PROVE IInv'
  OBVIOUS
<1> USE DEF IInv
<1>1. ASSUME NEW t \in TemplateNames, NEW x \in Prefixes, NEW mode \in Modes,
             AddTemplate(t, x, mode)
      PROVE  IInv'
  BY <1>1, TypeAddTemplate, AddTemplateStep
<1>2. ASSUME NEW t \in TemplateNames, DeleteTemplate(t)
      PROVE  IInv'
  BY <1>2, TypeDeleteTemplate, DeleteTemplateStep
<1>3. ASSUME NEW n \in FixedNames, NEW t \in TemplateNames, NEW a \in Addrs, NEW o \in Ownerships,
             CreateFixedAddress(n, t, a, o)
      PROVE  IInv'
  BY <1>3, TypeCreateFixedAddress, CreateFixedAddressStep
<1>4. ASSUME NEW n \in FixedNames, DeleteFixedAddress(n)
      PROVE  IInv'
  BY <1>4, TypeDeleteFixedAddress, DeleteFixedAddressStep
<1>5. ASSUME NEW p \in PoolNames, NEW t \in TemplateNames, NEW c \in 1 .. MaxPoolSize,
             NEW names \in SUBSET DOMAIN fixed, CreatePool(p, t, c, names)
      PROVE  IInv'
  BY <1>5, TypeCreatePool, CreatePoolStep
<1>6. ASSUME NEW p \in PoolNames, RefreshPool(p)
      PROVE  IInv'
  BY <1>6, TypeRefreshPool, RefreshPoolStep
<1>7. ASSUME NEW p \in PoolNames, DeletePool(p)
      PROVE  IInv'
  BY <1>7, DeletePoolStep
<1>8. ASSUME NEW p \in DOMAIN pools, NEW batch \in pools[p].draining, CompleteDrain(p, batch)
      PROVE  IInv'
  BY <1>8, CompleteDrainStep
<1>9. ASSUME NEW p \in DOMAIN pools, NEW batch \in pools[p].draining, NEW a \in batch.addresses,
             CompleteDrainedAddress(p, batch, a)
      PROVE  IInv'
  BY <1>9, CompleteDrainedAddressStep
<1>10. CASE UNCHANGED vars
  <2>1. TypeOK'
    BY <1>10 DEF vars, TypeOK
  <2>2. Exclusive'
    BY <1>10 DEF vars, Exclusive, Holders, FixedHolds
  <2>3. Loadable'
    BY <1>10 DEF vars, Loadable, TemplatesLoad, AddressesLoad, FixedLoad, PoolLoads, DrainsLoad,
                 PoolAddressLoads, FixedAddresses, CursorsLoad, BatchIdsLoad, ReferencesLoad,
                 Holders, FixedHolds
  <2> QED BY <2>1, <2>2, <2>3
<1> QED
  BY <1>1, <1>2, <1>3, <1>4, <1>5, <1>6, <1>7, <1>8, <1>9, <1>10 DEF Next

(***************************************************************************)
(* Whatever is asked of the store, it keeps nothing but addresses of the   *)
(* prefixes, under names it was given.                                     *)
(***************************************************************************)
THEOREM TypeCorrect == Spec => []TypeOK
<1>1. IInv => TypeOK
  BY DEF IInv
<1> QED BY InitIInv, NextIInv, <1>1, PTL DEF Spec

(***************************************************************************)
(* Every state the store can reach passes the checks of its own loader, so *)
(* it can be cloned for the next transaction and reloaded after a restart. *)
(***************************************************************************)
THEOREM AlwaysLoadable == Spec => []Loadable
<1>1. IInv => Loadable
  BY DEF IInv
<1> QED BY InitIInv, NextIInv, <1>1, PTL DEF Spec

(***************************************************************************)
(* Nobody but one pool ever holds an address the walk generated.           *)
(***************************************************************************)
THEOREM AlwaysExclusive == Spec => []Exclusive
<1>1. IInv => Exclusive
  BY DEF IInv
<1> QED BY InitIInv, NextIInv, <1>1, PTL DEF Spec

-----------------------------------------------------------------------------
(***************************************************************************)
(* Drain batch numbers.  Only a refresh adds a batch, and it numbers it    *)
(* above the counter; the other operations drop batches or shrink them     *)
(* under their number.                                                     *)
(***************************************************************************)
LEMMA NextBatchIds ==
  ASSUME IInv, Next
  PROVE  \A i \in BatchIds' : i \in BatchIds \/ i > nextBatch
<1> USE DEF IInv
<1>1. ASSUME NEW t \in TemplateNames, NEW x \in Prefixes, NEW mode \in Modes,
             AddTemplate(t, x, mode)
      PROVE  BatchIds' = BatchIds
  BY <1>1 DEF AddTemplate, BatchIds
<1>2. ASSUME NEW t \in TemplateNames, DeleteTemplate(t)
      PROVE  BatchIds' = BatchIds
  BY <1>2 DEF DeleteTemplate, BatchIds
<1>3. ASSUME NEW n \in FixedNames, NEW t \in TemplateNames, NEW a \in Addrs, NEW o \in Ownerships,
             CreateFixedAddress(n, t, a, o)
      PROVE  BatchIds' = BatchIds
  BY <1>3 DEF CreateFixedAddress, BatchIds
<1>4. ASSUME NEW n \in FixedNames, DeleteFixedAddress(n)
      PROVE  BatchIds' = BatchIds
  BY <1>4 DEF DeleteFixedAddress, BatchIds
<1>5. ASSUME NEW p \in PoolNames, NEW t \in TemplateNames, NEW c \in 1 .. MaxPoolSize,
             NEW names \in SUBSET DOMAIN fixed, CreatePool(p, t, c, names)
      PROVE  BatchIds' = BatchIds
  <2>1. /\ DOMAIN pools' = DOMAIN pools \cup {p}
        /\ \A q \in DOMAIN pools : pools'[q] = pools[q]
        /\ pools'[p].draining = {}
    BY <1>5 DEF CreatePool, Put
  <2> QED BY <2>1 DEF BatchIds
<1>6. ASSUME NEW p \in PoolNames, RefreshPool(p)
      PROVE  \A i \in BatchIds' : i \in BatchIds \/ i > nextBatch
  <2>1. /\ p \in DOMAIN pools /\ nextBatch \in Nat
        /\ DOMAIN pools' = DOMAIN pools
        /\ \A q \in DOMAIN pools : q # p => pools'[q] = pools[q]
        /\ pools'[p].draining = pools[p].draining \cup Retired(pools[p])
    BY <1>6, RefreshFacts
  <2>2. \A b \in Retired(pools[p]) : b.id = nextBatch + 1
    BY DEF Retired
  <2> QED BY <2>1, <2>2 DEF BatchIds
<1>7. ASSUME NEW p \in PoolNames, DeletePool(p)
      PROVE  BatchIds' \subseteq BatchIds
  BY <1>7 DEF DeletePool, Delete, BatchIds
<1>8. ASSUME NEW p \in DOMAIN pools, NEW batch \in pools[p].draining, CompleteDrain(p, batch)
      PROVE  BatchIds' \subseteq BatchIds
  <2>1. /\ DOMAIN pools' = DOMAIN pools
        /\ \A q \in DOMAIN pools : q # p => pools'[q] = pools[q]
        /\ pools'[p].draining \subseteq pools[p].draining
    BY <1>8 DEF CompleteDrain, TypeOK, Pool
  <2> QED BY <2>1 DEF BatchIds
<1>9. ASSUME NEW p \in DOMAIN pools, NEW batch \in pools[p].draining, NEW a \in batch.addresses,
             CompleteDrainedAddress(p, batch, a)
      PROVE  BatchIds' \subseteq BatchIds
  <2>1. batch \in DrainBatch
    BY DEF TypeOK, Pool
  <2>2. [batch EXCEPT !.addresses = @ \ {a}].id = batch.id
    BY <2>1 DEF DrainBatch
  <2>3. /\ DOMAIN pools' = DOMAIN pools
        /\ \A q \in DOMAIN pools : q # p => pools'[q] = pools[q]
        /\ \A b \in pools'[p].draining : b \in pools[p].draining \/ b.id = batch.id
    BY <1>9, <2>2 DEF CompleteDrainedAddress, TypeOK, Pool
  <2> QED BY <2>3 DEF BatchIds
<1> QED
  BY <1>1, <1>2, <1>3, <1>4, <1>5, <1>6, <1>7, <1>8, <1>9 DEF Next

(***************************************************************************)
(* A drain batch never gets the number of an earlier one, alive or gone:   *)
(* its number is above the counter, which never goes back.                 *)
(***************************************************************************)
THEOREM NumbersAreFresh == Spec => BatchIdsFresh
<1>1. IInv /\ [Next]_vars => [\A i \in BatchIds' : i \in BatchIds \/ i > nextBatch]_vars
  BY NextBatchIds
<1> QED BY InitIInv, NextIInv, <1>1, PTL DEF Spec, BatchIdsFresh

-----------------------------------------------------------------------------
(***************************************************************************)
(* The refinement.  In a state of the invariant an address has one place   *)
(* in the life cycle, which the four predicates name; so the step of an    *)
(* operation is known from what it does to the predicates.                 *)
(***************************************************************************)
IsServed(p, a) == p \in DOMAIN pools /\ a \in Automatic(pools[p])
IsDraining(p, a) == p \in DOMAIN pools /\ \E b \in pools[p].draining : a \in b.addresses
IsFixed(a) == a \in FixedAddresses
IsFree(a) == ~IsFixed(a) /\ \A p \in PoolNames : ~IsServed(p, a) /\ ~IsDraining(p, a)

OnePlace ==
  \A a \in Addrs :
    /\ Status[a] = Lifecycle!Fixed <=> IsFixed(a)
    /\ Status[a] = Lifecycle!Free <=> IsFree(a)
    /\ \A p \in PoolNames :
         /\ Status[a] = Lifecycle!Served(p) <=> IsServed(p, a)
         /\ Status[a] = Lifecycle!Draining(p) <=> IsDraining(p, a)

LEMMA PlacesDiffer ==
  /\ Lifecycle!Free # Lifecycle!Fixed
  /\ \A p : /\ Lifecycle!Served(p) \notin {Lifecycle!Free, Lifecycle!Fixed}
            /\ Lifecycle!Draining(p) \notin {Lifecycle!Free, Lifecycle!Fixed}
  /\ \A p, q : /\ Lifecycle!Served(p) # Lifecycle!Draining(q)
               /\ Lifecycle!Served(p) = Lifecycle!Served(q) => p = q
               /\ Lifecycle!Draining(p) = Lifecycle!Draining(q) => p = q
BY DEF Lifecycle!Free, Lifecycle!Fixed, Lifecycle!Served, Lifecycle!Draining

\* The holders of an address that a pool serves or drains are one.
LEMMA OneHolder ==
  ASSUME IInv, NEW a, NEW p, IsServed(p, a) \/ IsDraining(p, a)
  PROVE  /\ ~IsFixed(a)
         /\ \A q : IsServed(q, a) \/ IsDraining(q, a) => q = p
         /\ ~(IsServed(p, a) /\ IsDraining(p, a))
<1>1. \A g, h \in Holders(a) : g = h
  BY DEF IInv, Exclusive, IsServed, IsDraining
<1>2. \A q : IsServed(q, a) => Hold("automatic", q, 0) \in Holders(a)
  BY HoldersMember DEF IsServed
<1>3. \A q : IsDraining(q, a) => \E i : Hold("draining", q, i) \in Holders(a)
  BY HoldersMember DEF IsDraining
<1>4. IsFixed(a) => \E n : Hold("fixed", n, 0) \in Holders(a)
  BY HoldersMember DEF IsFixed, FixedAddresses
<1>5. \A k, l, n, m, i, j : Hold(k, n, i) = Hold(l, m, j) => k = l /\ n = m
  BY DEF Hold
<1>6. "fixed" # "automatic" /\ "fixed" # "draining" /\ "automatic" # "draining"
  OBVIOUS
<1>7. ~IsFixed(a)
  BY <1>1, <1>2, <1>3, <1>4, <1>5, <1>6
<1>8. \A q : IsServed(q, a) \/ IsDraining(q, a) => q = p
  BY <1>1, <1>2, <1>3, <1>5
<1>9. ~(IsServed(p, a) /\ IsDraining(p, a))
  BY <1>1, <1>2, <1>3, <1>5, <1>6
<1> QED BY <1>7, <1>8, <1>9

LEMMA PlacesAreOne == IInv => OnePlace
<1> SUFFICES ASSUME IInv, NEW a \in Addrs
             PROVE  /\ Status[a] = Lifecycle!Fixed <=> IsFixed(a)
                    /\ Status[a] = Lifecycle!Free <=> IsFree(a)
                    /\ \A p \in PoolNames :
                         /\ Status[a] = Lifecycle!Served(p) <=> IsServed(p, a)
                         /\ Status[a] = Lifecycle!Draining(p) <=> IsDraining(p, a)
  BY DEF OnePlace
<1>1. DOMAIN pools \subseteq PoolNames
  BY DEF IInv, TypeOK
<1>2. /\ \A p : p \in ServingPools(a) <=> IsServed(p, a)
      /\ \A p : p \in DrainingPools(a) <=> IsDraining(p, a)
  BY DEF ServingPools, DrainingPools, IsServed, IsDraining
<1>3. Status[a] = IF IsFixed(a) THEN Lifecycle!Fixed
                  ELSE IF ServingPools(a) # {}
                    THEN Lifecycle!Served(CHOOSE p \in ServingPools(a) : TRUE)
                  ELSE IF DrainingPools(a) # {}
                    THEN Lifecycle!Draining(CHOOSE p \in DrainingPools(a) : TRUE)
                  ELSE Lifecycle!Free
  BY DEF Status, IsFixed, Lifecycle!Free, Lifecycle!Fixed, Lifecycle!Served, Lifecycle!Draining
<1>4. CASE IsFixed(a)
  BY <1>3, <1>4, OneHolder, PlacesDiffer DEF IsFree
<1>5. ASSUME NEW p \in PoolNames, IsServed(p, a)
      PROVE  /\ Status[a] = Lifecycle!Served(p) /\ ~IsFixed(a) /\ ~IsFree(a)
             /\ \A q : (IsServed(q, a) => q = p) /\ ~IsDraining(q, a)
  <2>1. ~IsFixed(a) /\ \A q : (IsServed(q, a) => q = p) /\ ~IsDraining(q, a)
    BY <1>5, OneHolder
  <2>2. ServingPools(a) = {p}
    BY <1>2, <1>5, <2>1
  <2> QED BY <1>3, <1>5, <2>1, <2>2 DEF IsFree
<1>6. ASSUME NEW p \in PoolNames, IsDraining(p, a)
      PROVE  /\ Status[a] = Lifecycle!Draining(p) /\ ~IsFixed(a) /\ ~IsFree(a)
             /\ \A q : (IsDraining(q, a) => q = p) /\ ~IsServed(q, a)
  <2>1. ~IsFixed(a) /\ \A q : (IsDraining(q, a) => q = p) /\ ~IsServed(q, a)
    BY <1>6, OneHolder
  <2>2. DrainingPools(a) = {p} /\ ServingPools(a) = {}
    BY <1>2, <1>6, <2>1
  <2> QED BY <1>3, <1>6, <2>1, <2>2 DEF IsFree
<1>7. CASE IsFree(a)
  <2>1. ServingPools(a) = {} /\ DrainingPools(a) = {} /\ ~IsFixed(a)
    BY <1>1, <1>2, <1>7 DEF IsFree, IsServed, IsDraining
  <2>2. Status[a] = Lifecycle!Free
    BY <1>3, <2>1
  <2> QED BY <1>7, <2>2, PlacesDiffer DEF IsFree
<1>8. CASE \E p \in PoolNames : IsServed(p, a)
  BY <1>5, <1>8, PlacesDiffer
<1>9. CASE \E p \in PoolNames : IsDraining(p, a)
  BY <1>6, <1>9, PlacesDiffer
<1> QED BY <1>4, <1>7, <1>8, <1>9 DEF IsFree

LEMMA PlacesAreOneNext == IInv' => OnePlace'
BY PlacesAreOne, PTL

\* An address whose place no predicate changes keeps its status.
LEMMA PlaceKept ==
  ASSUME OnePlace, OnePlace', NEW a \in Addrs,
         IsFixed(a)' <=> IsFixed(a),
         \A p \in PoolNames :
           (IsServed(p, a)' <=> IsServed(p, a)) /\ (IsDraining(p, a)' <=> IsDraining(p, a))
  PROVE  Status'[a] = Status[a]
<1>1. CASE IsFixed(a)
  BY <1>1 DEF OnePlace
<1>2. CASE \E p \in PoolNames : IsServed(p, a) \/ IsDraining(p, a)
  BY <1>2 DEF OnePlace
<1>3. CASE IsFree(a)
  <2>1. IsFree(a)'
    BY <1>3 DEF IsFree
  <2> QED BY <1>3, <2>1 DEF OnePlace
<1> QED BY <1>1, <1>2, <1>3 DEF IsFree

LEMMA UnlistedIsFree ==
  ASSUME IInv, NEW a, a \notin DOMAIN addresses
  PROVE  IsFree(a)
<1>1. Holders(a) = {}
  BY HeldIsListed DEF IInv
<1> QED BY <1>1, HoldersMember DEF IsFree, IsFixed, FixedAddresses, IsServed, IsDraining

LEMMA StatusFunction == Status' = [a \in Addrs |-> Status'[a]]
BY DEF Status

LEMMA ReserveStep ==
  ASSUME IInv, IInv', NEW n \in FixedNames, NEW t \in TemplateNames, NEW a \in Addrs,
         NEW o \in Ownerships, CreateFixedAddress(n, t, a, o)
  PROVE  Lifecycle!Reserve(a)
<1>0. OnePlace /\ OnePlace'
  BY PlacesAreOne, PlacesAreOneNext
<1>1. pools' = pools /\ a \notin DOMAIN addresses
  BY DEF CreateFixedAddress
<1>2. FixedAddresses' = FixedAddresses \cup {a}
  <2>1. /\ DOMAIN fixed' = DOMAIN fixed \cup {n} /\ n \notin DOMAIN fixed
        /\ fixed'[n].address = a
        /\ \A m \in DOMAIN fixed : fixed'[m] = fixed[m]
    BY DEF CreateFixedAddress, Put
  <2> QED BY <2>1 DEF FixedAddresses
<1>3. Status[a] = Lifecycle!Free
  BY <1>0, <1>1, UnlistedIsFree DEF OnePlace
<1>4. Status'[a] = Lifecycle!Fixed
  BY <1>0, <1>2 DEF OnePlace, IsFixed
<1>5. ASSUME NEW b \in Addrs, b # a
      PROVE  Status'[b] = Status[b]
  BY <1>0, <1>1, <1>2, <1>5, PlaceKept DEF IsFixed, IsServed, IsDraining
<1> QED
  BY <1>3, <1>4, <1>5, StatusFunction DEF Lifecycle!Reserve, Lifecycle!Become

LEMMA UnreserveStep ==
  ASSUME IInv, IInv', NEW n \in FixedNames, DeleteFixedAddress(n)
  PROVE  \E a \in Addrs : Lifecycle!Unreserve(a)
<1>. PICK a \in Addrs : a = fixed[n].address
  BY DEF DeleteFixedAddress, IInv, TypeOK, FixedAddress
<1>0. OnePlace /\ OnePlace'
  BY PlacesAreOne, PlacesAreOneNext
<1>1. pools' = pools /\ n \in DOMAIN fixed /\ IsFixed(a)
  BY DEF DeleteFixedAddress, IsFixed, FixedAddresses
<1>2. FixedAddresses' = FixedAddresses \ {a}
  <2>1. /\ DOMAIN fixed' = DOMAIN fixed \ {n}
        /\ \A m \in DOMAIN fixed \ {n} : fixed'[m] = fixed[m]
    BY DEF DeleteFixedAddress, Delete
  <2>2. \A m \in DOMAIN fixed : fixed[m].address = a => m = n
    BY <1>1 DEF IInv, Loadable, FixedLoad
  <2> QED BY <2>1, <2>2 DEF FixedAddresses
<1>3. Status[a] = Lifecycle!Fixed
  BY <1>0, <1>1 DEF OnePlace
<1>4. Status'[a] = Lifecycle!Free
  <2>1. \A p \in PoolNames : ~IsServed(p, a) /\ ~IsDraining(p, a)
    BY <1>1, OneHolder
  <2>2. IsFree(a)'
    BY <1>1, <1>2, <2>1 DEF IsFree, IsFixed, IsServed, IsDraining
  <2> QED BY <1>0, <1>1, <2>2 DEF OnePlace
<1>5. ASSUME NEW b \in Addrs, b # a
      PROVE  Status'[b] = Status[b]
  BY <1>0, <1>1, <1>2, <1>5, PlaceKept DEF IsFixed, IsServed, IsDraining
<1> QED
  BY <1>1, <1>3, <1>4, <1>5, StatusFunction DEF Lifecycle!Unreserve, Lifecycle!Become

\* A new pool and a refreshed pool both serve addresses that nobody held.
LEMMA ServeStep ==
  ASSUME IInv, IInv', NEW p \in PoolNames, NEW new \in SUBSET Addrs,
         new \cap DOMAIN addresses = {}, UNCHANGED fixed,
         \A q \in PoolNames \ {p}, a \in Addrs :
           (IsServed(q, a)' <=> IsServed(q, a)) /\ (IsDraining(q, a)' <=> IsDraining(q, a)),
         \A a \in Addrs :
           /\ IsServed(p, a)' <=> a \in new
           /\ IsDraining(p, a)' <=> IsDraining(p, a) \/ IsServed(p, a)
  PROVE  Lifecycle!Serve(p, new)
<1>0. OnePlace /\ OnePlace'
  BY PlacesAreOne, PlacesAreOneNext
<1>1. \A a \in new : IsFree(a) /\ Status[a] = Lifecycle!Free
  BY <1>0, UnlistedIsFree DEF OnePlace
<1>2. \A a \in new : Status'[a] = Lifecycle!Served(p)
  BY <1>0 DEF OnePlace
<1>3. \A a \in Addrs : Status[a] = Lifecycle!Served(p) => Status'[a] = Lifecycle!Draining(p)
  BY <1>0 DEF OnePlace
<1>4. ASSUME NEW a \in Addrs, a \notin new, Status[a] # Lifecycle!Served(p)
      PROVE  Status'[a] = Status[a]
  <2>1. ~IsServed(p, a) /\ ~IsServed(p, a)' /\ (IsDraining(p, a)' <=> IsDraining(p, a))
    BY <1>0, <1>4 DEF OnePlace
  <2>2. IsFixed(a)' <=> IsFixed(a)
    BY DEF IsFixed, FixedAddresses
  <2> QED BY <1>0, <2>1, <2>2, PlaceKept
<1> QED
  BY <1>1, <1>2, <1>3, <1>4, StatusFunction DEF Lifecycle!Serve

LEMMA CreatePoolServes ==
  ASSUME IInv, IInv', NEW p \in PoolNames, NEW t \in TemplateNames, NEW c \in 1 .. MaxPoolSize,
         NEW names \in SUBSET DOMAIN fixed, CreatePool(p, t, c, names)
  PROVE  \E S \in SUBSET Addrs : Lifecycle!Serve(p, S)
<1> DEFINE pinned == {fixed[n].address : n \in names}
<1>1. PICK new \in FirstFree(templates[t].prefix, c - Cardinality(pinned)) :
        pools' = Put(pools, p, [template |-> t, capacity |-> c, pinned |-> pinned,
                                active |-> pinned \cup new, draining |-> {}])
  BY DEF CreatePool
<1>2. templates[t].prefix \in Prefixes /\ p \notin DOMAIN pools /\ UNCHANGED fixed
  BY DEF CreatePool, IInv, TypeOK, Template
<1>3. new \subseteq Addrs /\ new \cap DOMAIN addresses = {}
  <2> HIDE DEF pinned
  <2> QED BY <1>2, FirstFreeType DEF IInv
<1>4. pinned \subseteq DOMAIN addresses
  BY DEF IInv, Loadable, FixedLoad
<1> HIDE DEF pinned
<1>5. /\ DOMAIN pools' = DOMAIN pools \cup {p}
      /\ \A q \in DOMAIN pools : pools'[q] = pools[q]
      /\ pools'[p].pinned = pinned /\ pools'[p].active = pinned \cup new
      /\ pools'[p].draining = {}
  BY <1>1, <1>2 DEF Put
<1>6. \A q \in PoolNames \ {p}, a \in Addrs :
        (IsServed(q, a)' <=> IsServed(q, a)) /\ (IsDraining(q, a)' <=> IsDraining(q, a))
  BY <1>5 DEF IsServed, IsDraining, Automatic
<1>7. \A a \in Addrs : /\ IsServed(p, a)' <=> a \in new
                       /\ IsDraining(p, a)' <=> IsDraining(p, a) \/ IsServed(p, a)
  BY <1>2, <1>3, <1>4, <1>5 DEF IsServed, IsDraining, Automatic
<1> QED BY <1>2, <1>3, <1>6, <1>7, ServeStep

LEMMA RefreshPoolServes ==
  ASSUME IInv, IInv', NEW p \in PoolNames, RefreshPool(p)
  PROVE  \E S \in SUBSET Addrs : Lifecycle!Serve(p, S)
<1> DEFINE x == templates[pools[p].template].prefix
<1> DEFINE count == pools[p].capacity - Cardinality(pools[p].pinned)
<1>0. TypeOK /\ Loadable
  BY DEF IInv
<1>1. p \in DOMAIN pools /\ x \in Prefixes /\ UNCHANGED fixed
  BY <1>0, RefreshFacts
<1>2. PICK new \in FirstFree(x, count) :
        /\ DOMAIN pools' = DOMAIN pools
        /\ \A q \in DOMAIN pools : q # p => pools'[q] = pools[q]
        /\ pools'[p].pinned = pools[p].pinned
        /\ pools'[p].active = pools[p].pinned \cup new
        /\ pools'[p].draining = pools[p].draining \cup Retired(pools[p])
  BY <1>0, RefreshFacts
<1>3. new \subseteq Addrs /\ new \cap DOMAIN addresses = {}
  <2> HIDE DEF x, count
  <2> QED BY <1>0, <1>1, FirstFreeType
<1>4. pools[p].pinned \subseteq DOMAIN addresses
  BY <1>0, <1>1 DEF Loadable, PoolLoads, PoolAddressLoads
<1> HIDE DEF x, count
<1>5. \A q \in PoolNames \ {p}, a \in Addrs :
        (IsServed(q, a)' <=> IsServed(q, a)) /\ (IsDraining(q, a)' <=> IsDraining(q, a))
  BY <1>2 DEF IsServed, IsDraining, Automatic
<1>6. \A a \in Addrs : IsServed(p, a)' <=> a \in new
  BY <1>1, <1>2, <1>3, <1>4 DEF IsServed, Automatic
<1>7. ASSUME NEW a \in Addrs
      PROVE  IsDraining(p, a)' <=> IsDraining(p, a) \/ IsServed(p, a)
  <2>1. (\E b \in Retired(pools[p]) : a \in b.addresses) <=> a \in Automatic(pools[p])
    <3>1. CASE Automatic(pools[p]) = {}
      BY <3>1 DEF Retired
    <3>2. CASE Automatic(pools[p]) # {}
      <4>1. Retired(pools[p]) = {[id |-> nextBatch + 1, addresses |-> Automatic(pools[p])]}
        BY <3>2 DEF Retired
      <4> QED BY <4>1
    <3> QED BY <3>1, <3>2
  <2> QED BY <1>1, <1>2, <2>1 DEF IsServed, IsDraining
<1> QED BY <1>1, <1>3, <1>5, <1>6, <1>7, ServeStep

LEMMA DisposeStep ==
  ASSUME IInv, IInv', NEW p \in PoolNames, DeletePool(p)
  PROVE  Lifecycle!Dispose(p)
<1> DEFINE gone == {a \in Addrs : Status[a] \in {Lifecycle!Served(p), Lifecycle!Draining(p)}}
<1>0. OnePlace /\ OnePlace'
  BY PlacesAreOne, PlacesAreOneNext
<1>1. /\ DOMAIN pools' = DOMAIN pools \ {p} /\ UNCHANGED fixed
      /\ \A q \in DOMAIN pools \ {p} : pools'[q] = pools[q]
  BY DEF DeletePool, Delete
<1>2. \A a \in Addrs : a \in gone <=> IsServed(p, a) \/ IsDraining(p, a)
  BY <1>0 DEF OnePlace
<1>3. \A a \in Addrs : /\ IsFixed(a)' <=> IsFixed(a)
                       /\ ~IsServed(p, a)' /\ ~IsDraining(p, a)'
  BY <1>1 DEF IsFixed, FixedAddresses, IsServed, IsDraining
<1>4. \A q \in PoolNames \ {p}, a \in Addrs :
        (IsServed(q, a)' <=> IsServed(q, a)) /\ (IsDraining(q, a)' <=> IsDraining(q, a))
  BY <1>1 DEF IsServed, IsDraining
<1> HIDE DEF gone
<1>5. ASSUME NEW a \in Addrs, a \in gone
      PROVE  Status'[a] = Lifecycle!Free
  <2>1. ~IsFixed(a) /\ \A q \in PoolNames \ {p} : ~IsServed(q, a) /\ ~IsDraining(q, a)
    BY <1>2, <1>5, OneHolder
  <2>2. IsFree(a)'
    BY <1>3, <1>4, <2>1 DEF IsFree
  <2> QED BY <1>0, <2>2 DEF OnePlace
<1>6. ASSUME NEW a \in Addrs, a \notin gone
      PROVE  Status'[a] = Status[a]
  BY <1>0, <1>2, <1>3, <1>4, <1>6, PlaceKept
<1> QED
  BY <1>5, <1>6, StatusFunction DEF Lifecycle!Dispose, Lifecycle!Become, gone

\* A completion frees the addresses of a pool's drain that it takes out of it.
LEMMA DrainedStep ==
  ASSUME IInv, IInv', NEW p \in PoolNames, NEW S \in SUBSET Addrs, UNCHANGED fixed,
         \A a \in S : IsDraining(p, a),
         \A a \in Addrs : IsDraining(p, a)' <=> IsDraining(p, a) /\ a \notin S,
         \A a \in Addrs : IsServed(p, a)' <=> IsServed(p, a),
         \A q \in PoolNames \ {p}, a \in Addrs :
           (IsServed(q, a)' <=> IsServed(q, a)) /\ (IsDraining(q, a)' <=> IsDraining(q, a))
  PROVE  Lifecycle!Drained(p, S)
<1>0. OnePlace /\ OnePlace'
  BY PlacesAreOne, PlacesAreOneNext
<1>1. \A a \in S : Status[a] = Lifecycle!Draining(p)
  BY <1>0 DEF OnePlace
<1>2. \A a \in Addrs : IsFixed(a)' <=> IsFixed(a)
  BY DEF IsFixed, FixedAddresses
<1>3. ASSUME NEW a \in S
      PROVE  Status'[a] = Lifecycle!Free
  <2>1. /\ ~IsFixed(a) /\ ~IsServed(p, a)
        /\ \A q \in PoolNames \ {p} : ~IsServed(q, a) /\ ~IsDraining(q, a)
    BY OneHolder
  <2>2. IsFree(a)'
    BY <1>2, <2>1 DEF IsFree
  <2> QED BY <1>0, <2>2 DEF OnePlace
<1>4. ASSUME NEW a \in Addrs, a \notin S
      PROVE  Status'[a] = Status[a]
  BY <1>0, <1>2, <1>4, PlaceKept
<1> QED
  BY <1>1, <1>3, <1>4, StatusFunction DEF Lifecycle!Drained, Lifecycle!Become

\* Two batches of a pool share no address.
LEMMA BatchesDiffer ==
  ASSUME IInv, NEW p \in DOMAIN pools, NEW b \in pools[p].draining,
         NEW c \in pools[p].draining, b # c
  PROVE  b.addresses \cap c.addresses = {}
BY DEF IInv, Loadable, DrainsLoad

LEMMA CompleteDrainDrains ==
  ASSUME IInv, IInv', NEW p \in DOMAIN pools, NEW batch \in pools[p].draining,
         CompleteDrain(p, batch)
  PROVE  \E S \in SUBSET Addrs : Lifecycle!Drained(p, S)
<1>1. /\ pools[p] \in Pool /\ batch \in DrainBatch /\ p \in PoolNames
      /\ batch.addresses \in SUBSET Addrs
  BY DEF IInv, TypeOK, Pool, DrainBatch
<1>2. /\ DOMAIN pools' = DOMAIN pools /\ UNCHANGED fixed
      /\ \A q \in DOMAIN pools : q # p => pools'[q] = pools[q]
      /\ pools'[p].pinned = pools[p].pinned /\ pools'[p].active = pools[p].active
      /\ pools'[p].draining = pools[p].draining \ {batch}
  BY <1>1 DEF CompleteDrain, Pool
<1>3. \A a \in batch.addresses : IsDraining(p, a)
  BY DEF IsDraining
<1>4. \A a \in Addrs : IsDraining(p, a)' <=> IsDraining(p, a) /\ a \notin batch.addresses
  BY <1>2, BatchesDiffer DEF IsDraining
<1>5. \A a \in Addrs : IsServed(p, a)' <=> IsServed(p, a)
  BY <1>2 DEF IsServed, Automatic
<1>6. \A q \in PoolNames \ {p}, a \in Addrs :
        (IsServed(q, a)' <=> IsServed(q, a)) /\ (IsDraining(q, a)' <=> IsDraining(q, a))
  BY <1>2 DEF IsServed, IsDraining
<1>7. Lifecycle!Drained(p, batch.addresses)
  BY <1>1, <1>2, <1>3, <1>4, <1>5, <1>6, DrainedStep
<1> QED BY <1>1, <1>7

LEMMA CompleteAddressDrains ==
  ASSUME IInv, IInv', NEW p \in DOMAIN pools, NEW batch \in pools[p].draining,
         NEW a \in batch.addresses, CompleteDrainedAddress(p, batch, a)
  PROVE  \E S \in SUBSET Addrs : Lifecycle!Drained(p, S)
<1> DEFINE rest == [batch EXCEPT !.addresses = @ \ {a}]
<1>1. /\ pools[p] \in Pool /\ batch \in DrainBatch /\ p \in PoolNames
      /\ a \in Addrs /\ rest.addresses = batch.addresses \ {a}
  BY DEF IInv, TypeOK, Pool, DrainBatch
<1>2. /\ DOMAIN pools' = DOMAIN pools /\ UNCHANGED fixed
      /\ \A q \in DOMAIN pools : q # p => pools'[q] = pools[q]
      /\ pools'[p].pinned = pools[p].pinned /\ pools'[p].active = pools[p].active
      /\ pools'[p].draining = (pools[p].draining \ {batch})
                                \cup (IF rest.addresses = {} THEN {} ELSE {rest})
  BY <1>1 DEF CompleteDrainedAddress, Pool
<1> HIDE DEF rest
<1>3. IsDraining(p, a)
  BY DEF IsDraining
<1>4. ASSUME NEW b \in Addrs
      PROVE  IsDraining(p, b)' <=> IsDraining(p, b) /\ b \notin {a}
  <2>1. IsDraining(p, b)' <=> \/ \E c \in pools[p].draining \ {batch} : b \in c.addresses
                              \/ b \in rest.addresses
    BY <1>2 DEF IsDraining
  <2>2. IsDraining(p, b) <=> \/ \E c \in pools[p].draining \ {batch} : b \in c.addresses
                             \/ b \in batch.addresses
    BY DEF IsDraining
  <2>3. \A c \in pools[p].draining \ {batch} : a \notin c.addresses
    BY BatchesDiffer
  <2> QED BY <1>1, <2>1, <2>2, <2>3
<1>5. \A b \in Addrs : IsServed(p, b)' <=> IsServed(p, b)
  BY <1>2 DEF IsServed, Automatic
<1>6. \A q \in PoolNames \ {p}, b \in Addrs :
        (IsServed(q, b)' <=> IsServed(q, b)) /\ (IsDraining(q, b)' <=> IsDraining(q, b))
  BY <1>2 DEF IsServed, IsDraining
<1>7. Lifecycle!Drained(p, {a})
  BY <1>1, <1>2, <1>3, <1>4, <1>5, <1>6, DrainedStep
<1> QED BY <1>1, <1>7

LEMMA StatusStutters ==
  ASSUME UNCHANGED <<fixed, pools>>
  PROVE  UNCHANGED Status
BY DEF Status, FixedAddresses, ServingPools, DrainingPools

LEMMA InitLifecycle == Init => Lifecycle!Init
<1> SUFFICES ASSUME Init, NEW a \in Addrs PROVE Status[a] = Lifecycle!Free
  BY DEF Lifecycle!Init, Status
<1>1. FixedAddresses = {} /\ ServingPools(a) = {} /\ DrainingPools(a) = {}
  BY DEF Init, FixedAddresses, ServingPools, DrainingPools
<1> QED BY <1>1 DEF Status, Lifecycle!Free

LEMMA NextLifecycle == IInv /\ IInv' /\ [Next]_vars => [Lifecycle!Next]_Status
<1> SUFFICES ASSUME IInv, IInv', [Next]_vars PROVE Lifecycle!Next \/ UNCHANGED Status
  OBVIOUS
<1>1. ASSUME NEW t \in TemplateNames, NEW x \in Prefixes, NEW mode \in Modes,
             AddTemplate(t, x, mode)
      PROVE  UNCHANGED Status
  BY <1>1, StatusStutters DEF AddTemplate
<1>2. ASSUME NEW t \in TemplateNames, DeleteTemplate(t)
      PROVE  UNCHANGED Status
  BY <1>2, StatusStutters DEF DeleteTemplate
<1>3. ASSUME NEW n \in FixedNames, NEW t \in TemplateNames, NEW a \in Addrs, NEW o \in Ownerships,
             CreateFixedAddress(n, t, a, o)
      PROVE  Lifecycle!Next
  BY <1>3, ReserveStep DEF Lifecycle!Next
<1>4. ASSUME NEW n \in FixedNames, DeleteFixedAddress(n)
      PROVE  Lifecycle!Next
  BY <1>4, UnreserveStep DEF Lifecycle!Next
<1>5. ASSUME NEW p \in PoolNames, NEW t \in TemplateNames, NEW c \in 1 .. MaxPoolSize,
             NEW names \in SUBSET DOMAIN fixed, CreatePool(p, t, c, names)
      PROVE  Lifecycle!Next
  BY <1>5, CreatePoolServes DEF Lifecycle!Next
<1>6. ASSUME NEW p \in PoolNames, RefreshPool(p)
      PROVE  Lifecycle!Next
  BY <1>6, RefreshPoolServes DEF Lifecycle!Next
<1>7. ASSUME NEW p \in PoolNames, DeletePool(p)
      PROVE  Lifecycle!Next
  BY <1>7, DisposeStep DEF Lifecycle!Next
<1>8. DOMAIN pools \subseteq PoolNames
  BY DEF IInv, TypeOK
<1>9. ASSUME NEW p \in DOMAIN pools, NEW batch \in pools[p].draining, CompleteDrain(p, batch)
      PROVE  Lifecycle!Next
  BY <1>8, <1>9, CompleteDrainDrains DEF Lifecycle!Next
<1>10. ASSUME NEW p \in DOMAIN pools, NEW batch \in pools[p].draining, NEW a \in batch.addresses,
              CompleteDrainedAddress(p, batch, a)
       PROVE  Lifecycle!Next
  BY <1>8, <1>10, CompleteAddressDrains DEF Lifecycle!Next
<1>11. CASE UNCHANGED vars
  BY <1>11, StatusStutters DEF vars
<1> QED
  BY <1>1, <1>2, <1>3, <1>4, <1>5, <1>6, <1>7, <1>9, <1>10, <1>11 DEF Next

(***************************************************************************)
(* The store implements the life cycle of addresses: whatever it is asked, *)
(* an address a pool served is free again only after that pool drained or  *)
(* lost it, and a draining address is served by nobody before it is free.  *)
(***************************************************************************)
THEOREM ImplementsLifecycle == Spec => LifecycleSpec
<1> QED
  BY InitIInv, NextIInv, InitLifecycle, NextLifecycle, PTL DEF Spec, LifecycleSpec, Lifecycle!Spec
=============================================================================
