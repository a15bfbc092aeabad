-------------------------- MODULE SlugCache_proofs --------------------------
(***************************************************************************)
(* Proofs about SlugCache for any slugs, requests, TTLs and size limit.    *)
(***************************************************************************)
EXTENDS SlugCache, FiniteSetTheorems, TLAPS

(* What the operations of a cache leave of it: the entry of another slug   *)
(* is kept or dropped, never changed or made.                              *)
LEMMA SetResult ==
  ASSUME NEW ttl \in Nat, NEW cache, IsCache(cache, ttl), NEW s \in Slugs,
         NEW new \in Set(cache, s, ttl)
  PROVE  /\ IsCache(new, ttl)
         /\ DOMAIN new \subseteq DOMAIN cache \cup {s}
         /\ \A q \in DOMAIN new : q # s => q \in DOMAIN cache /\ new[q] = cache[q]
<1>1. PICK rest \in Shrunk(cache, s) :
        new = [q \in DOMAIN rest \cup {s} |-> IF q = s THEN ttl ELSE rest[q]]
  BY DEF Set
<1>2. /\ DOMAIN rest \subseteq DOMAIN cache
      /\ \A q \in DOMAIN rest : rest[q] = cache[q]
  BY <1>1 DEF Shrunk, Delete, Restrict, Oldest
<1>3. /\ DOMAIN cache \subseteq Slugs
      /\ \A q \in DOMAIN cache : cache[q] \in 0..ttl
  BY DEF IsCache
<1>4. ttl \in 0..ttl
  OBVIOUS
<1>5. DOMAIN new = DOMAIN rest \cup {s}
  BY <1>1
<1>6. \A q \in DOMAIN new : new[q] = IF q = s THEN ttl ELSE rest[q]
  BY <1>1
<1>7. \A q \in DOMAIN new : new[q] \in 0..ttl
  BY <1>2, <1>3, <1>4, <1>5, <1>6
<1>8. new = [q \in DOMAIN new |-> new[q]]
  BY <1>1
<1>9. IsCache(new, ttl)
  BY <1>2, <1>3, <1>5, <1>7, <1>8 DEF IsCache
<1>10. QED
  BY <1>2, <1>5, <1>6, <1>9

LEMMA DeleteResult ==
  ASSUME NEW ttl \in Nat, NEW cache, IsCache(cache, ttl), NEW s
  PROVE  /\ IsCache(Delete(cache, s), ttl)
         /\ DOMAIN Delete(cache, s) = DOMAIN cache \ {s}
         /\ \A q \in DOMAIN cache \ {s} : Delete(cache, s)[q] = cache[q]
  BY DEF IsCache, Delete, Restrict

LEMMA RemoveExpiredResult ==
  ASSUME NEW ttl \in Nat, NEW cache, IsCache(cache, ttl)
  PROVE  /\ IsCache(RemoveExpired(cache), ttl)
         /\ DOMAIN RemoveExpired(cache) \subseteq DOMAIN cache
         /\ \A q \in DOMAIN RemoveExpired(cache) : RemoveExpired(cache)[q] = cache[q]
  BY DEF IsCache, RemoveExpired, Restrict

LEMMA AgedResult ==
  ASSUME NEW ttl \in Nat, NEW cache, IsCache(cache, ttl)
  PROVE  /\ IsCache(Aged(cache), ttl)
         /\ DOMAIN Aged(cache) = DOMAIN cache
         /\ \A q \in DOMAIN cache : Aged(cache)[q] > 0 => cache[q] > 0
<1>1. \A q \in DOMAIN cache : cache[q] \in 0..ttl
  BY DEF IsCache
<1>2. \A q \in DOMAIN cache : /\ Aged(cache)[q] \in 0..ttl
                              /\ Aged(cache)[q] > 0 => cache[q] > 0
  BY <1>1 DEF Aged
<1>3. DOMAIN Aged(cache) = DOMAIN cache
  BY DEF Aged
<1>4. Aged(cache) = [q \in DOMAIN cache |-> Aged(cache)[q]]
  BY DEF Aged
<1>5. IsCache(Aged(cache), ttl)
  BY <1>2, <1>3, <1>4 DEF IsCache
<1>6. QED
  BY <1>2, <1>3, <1>5

-----------------------------------------------------------------------------
LEMMA TypeInit == Init => TypeOK
  BY TTLAssumption DEF Init, TypeOK, IsCache, Empty, Labels

LEMMA TypeStep == TypeOK /\ [Next]_vars => TypeOK'
<1> SUFFICES ASSUME TypeOK, [Next]_vars PROVE TypeOK'
  OBVIOUS
<1> USE TTLAssumption
<1>0. FoundTTL \in Nat /\ MissingTTL \in Nat
  OBVIOUS
<1>1. ASSUME NEW r \in Requests, Begin(r) PROVE TypeOK'
  BY <1>1 DEF TypeOK, Begin, Goto, Labels
<1>2. ASSUME NEW r \in Requests, LookupFound(r) PROVE TypeOK'
  BY <1>2 DEF TypeOK, LookupFound, Goto, Labels
<1>3. ASSUME NEW r \in Requests, LookupMissing(r) PROVE TypeOK'
  BY <1>3 DEF TypeOK, LookupMissing, Goto, Labels
<1>4. ASSUME NEW r \in Requests, LoadDocument(r) \/ LoadFails(r) PROVE TypeOK'
  BY <1>4 DEF TypeOK, LoadDocument, LoadFails, Goto, Labels
<1>5. ASSUME NEW r \in Requests, SetExists(r) PROVE TypeOK'
  <2>1. IsCache(found, FoundTTL)' /\ IsCache(missing, MissingTTL)'
    <3>1. slug[r] \in Slugs
      BY DEF TypeOK
    <3>2. CASE missing' = Delete(missing, slug[r]) /\ found' = found
      BY <3>2, <1>0, DeleteResult DEF TypeOK
    <3>3. CASE found' \in Set(found, slug[r], FoundTTL) /\ missing' = missing
      BY <3>1, <3>3, <1>0, SetResult DEF TypeOK
    <3>4. QED
      BY <1>5, <3>2, <3>3 DEF SetExists
  <2>2. QED
    BY <1>5, <2>1 DEF TypeOK, SetExists, Goto, Labels
<1>6. ASSUME NEW r \in Requests, SetMissing(r) PROVE TypeOK'
  <2>1. IsCache(found, FoundTTL)' /\ IsCache(missing, MissingTTL)'
    <3>1. slug[r] \in Slugs
      BY DEF TypeOK
    <3>2. CASE found' = Delete(found, slug[r]) /\ missing' = missing
      BY <3>2, <1>0, DeleteResult DEF TypeOK
    <3>3. CASE missing' \in Set(missing, slug[r], MissingTTL) /\ found' = found
      BY <3>1, <3>3, <1>0, SetResult DEF TypeOK
    <3>4. QED
      BY <1>6, <3>2, <3>3 DEF SetMissing
  <2>2. QED
    BY <1>6, <2>1 DEF TypeOK, SetMissing, Goto, Labels
<1>7. CASE CreateDocument
  BY <1>7 DEF TypeOK, CreateDocument
<1>8. CASE Tick
  BY <1>0, <1>8, AgedResult DEF TypeOK, Tick
<1>9. CASE Sweep
  BY <1>0, <1>9, RemoveExpiredResult DEF TypeOK, Sweep
<1>10. CASE Close
  BY <1>10 DEF TypeOK, Close
<1>11. CASE UNCHANGED vars
  BY <1>11 DEF TypeOK, vars
<1>12. QED
  BY <1>1, <1>2, <1>3, <1>4, <1>5, <1>6, <1>7, <1>8, <1>9, <1>10, <1>11
     DEF Next, Step

(* The caches hold slugs with no more time left than their TTL, and every  *)
(* handler is at one of its steps (cache.go, handleEditorPage,             *)
(* GetOrCreateRoom).                                                       *)
THEOREM CacheTypes == Spec => []TypeOK
  BY TypeInit, TypeStep, PTL DEF Spec

-----------------------------------------------------------------------------
LEMMA FoundStep == TypeOK /\ FoundExists /\ [Next]_vars => FoundExists'
<1> SUFFICES ASSUME TypeOK, FoundExists, [Next]_vars PROVE FoundExists'
  OBVIOUS
<1>0. FoundTTL \in Nat /\ IsCache(found, FoundTTL) /\ pc \in [Requests -> Labels]
  BY TTLAssumption DEF TypeOK
<1>1. ASSUME NEW r \in Requests, Begin(r) PROVE FoundExists'
  BY <1>0, <1>1 DEF FoundExists, Begin, Goto
<1>2. ASSUME NEW r \in Requests, LookupFound(r) \/ LookupMissing(r)
      PROVE  FoundExists'
  BY <1>0, <1>2 DEF FoundExists, LookupFound, LookupMissing, Goto
<1>3. ASSUME NEW r \in Requests, LoadDocument(r) \/ LoadFails(r)
      PROVE  FoundExists'
  BY <1>0, <1>3 DEF FoundExists, LoadDocument, LoadFails, Goto
<1>4. ASSUME NEW r \in Requests, SetExists(r) PROVE FoundExists'
  <2>1. slug[r] \in documents /\ slug[r] \in Slugs
    BY <1>4 DEF SetExists, FoundExists, TypeOK
  <2>2. DOMAIN found' \subseteq DOMAIN found \cup {slug[r]}
    BY <1>0, <1>4, <2>1, SetResult DEF SetExists
  <2>3. QED
    BY <1>0, <1>4, <2>1, <2>2 DEF FoundExists, SetExists, Goto
<1>5. ASSUME NEW r \in Requests, SetMissing(r) PROVE FoundExists'
  <2>1. DOMAIN found' \subseteq DOMAIN found
    BY <1>5 DEF SetMissing, Delete, Restrict
  <2>2. QED
    BY <1>0, <1>5, <2>1 DEF FoundExists, SetMissing, Goto
<1>6. CASE CreateDocument
  BY <1>6 DEF FoundExists, CreateDocument
<1>7. CASE Tick
  BY <1>0, <1>7, AgedResult DEF FoundExists, Tick
<1>8. CASE Sweep
  BY <1>0, <1>8, RemoveExpiredResult DEF FoundExists, Sweep
<1>9. CASE Close \/ UNCHANGED vars
  BY <1>9 DEF FoundExists, Close, vars
<1>10. QED
  BY <1>1, <1>2, <1>3, <1>4, <1>5, <1>6, <1>7, <1>8, <1>9 DEF Next, Step

(* A positive entry is about a document that exists, also when the entry   *)
(* is written by handlers that interleave with creations and evictions     *)
(* (SetExists after LoadDocument).                                         *)
THEOREM PositiveEntriesExist == Spec => []FoundExists
<1>1. Init => FoundExists
  BY DEF Init, FoundExists, Empty
<1>2. QED
  BY <1>1, FoundStep, CacheTypes, PTL DEF Spec
-----------------------------------------------------------------------------
(* Nothing but a stale handler puts a live negative entry of a document    *)
(* into the cache.                                                         *)
LEMMA SettledStep == TypeOK /\ [Next]_vars =>
                       \A s \in Slugs : Settled(s) => Settled(s)'
<1> SUFFICES ASSUME TypeOK, [Next]_vars, NEW s \in Slugs, Settled(s)
             PROVE  Settled(s)'
  OBVIOUS
<1>0. /\ MissingTTL \in Nat /\ IsCache(missing, MissingTTL)
      /\ pc \in [Requests -> Labels] /\ slug \in [Requests -> Slugs]
  BY TTLAssumption DEF TypeOK
<1>1. ASSUME NEW r \in Requests, Begin(r) PROVE Settled(s)'
  BY <1>0, <1>1 DEF Settled, StaleLoad, Live, Begin, Goto
<1>2. ASSUME NEW r \in Requests, LookupFound(r) \/ LookupMissing(r)
      PROVE  Settled(s)'
  BY <1>0, <1>2 DEF Settled, StaleLoad, Live, LookupFound, LookupMissing, Goto
<1>3. ASSUME NEW r \in Requests, LoadDocument(r) \/ LoadFails(r)
      PROVE  Settled(s)'
  BY <1>0, <1>3 DEF Settled, StaleLoad, Live, LoadDocument, LoadFails, Goto
<1>4. ASSUME NEW r \in Requests, SetExists(r) PROVE Settled(s)'
  <2>1. ~Live(missing', s)
    BY <1>4 DEF Settled, Live, SetExists, Delete, Restrict
  <2>2. QED
    BY <1>0, <1>4, <2>1 DEF Settled, StaleLoad, SetExists, Goto
<1>5. ASSUME NEW r \in Requests, SetMissing(r) PROVE Settled(s)'
  <2>1. slug[r] # s /\ slug[r] \in Slugs
    BY <1>0, <1>5 DEF Settled, StaleLoad, SetMissing
  <2>2. ~Live(missing', s)
    BY <1>0, <1>5, <2>1, SetResult DEF Settled, Live, SetMissing
  <2>3. QED
    BY <1>0, <1>5, <2>1, <2>2 DEF Settled, StaleLoad, SetMissing, Goto
<1>6. CASE CreateDocument
  BY <1>6 DEF Settled, StaleLoad, Live, CreateDocument
<1>7. CASE Tick
  BY <1>0, <1>7, AgedResult DEF Settled, StaleLoad, Live, Tick
<1>8. CASE Sweep
  <2>1. ~Live(missing', s)
    BY <1>0, <1>8, RemoveExpiredResult DEF Settled, Live, Sweep
  <2>2. QED
    BY <1>8, <2>1 DEF Settled, StaleLoad, Sweep
<1>9. CASE Close \/ UNCHANGED vars
  BY <1>9 DEF Settled, StaleLoad, Live, Close, vars
<1>10. QED
  BY <1>1, <1>2, <1>3, <1>4, <1>5, <1>6, <1>7, <1>8, <1>9 DEF Next, Step

(* A document whose negative entry is gone and that no handler from before *)
(* its creation can hide any more stays visible: neither expiry, eviction, *)
(* a failed load nor another slug's entry hides it (SetMissing, Set).      *)
THEOREM SettledForGood == Spec => StaysSettled
<1>1. TypeOK /\ [Next]_vars => [\A s \in Slugs : Settled(s) => Settled(s)']_vars
  BY SettledStep
<1>2. QED
  BY <1>1, CacheTypes, PTL DEF Spec, StaysSettled
-----------------------------------------------------------------------------
(* The strengthening of Bounded: the caches are finite. *)
Fits(cache) == /\ IsFiniteSet(DOMAIN cache)
               /\ Cardinality(DOMAIN cache) <= MaxEntries

(* Set evicts one entry when it would exceed the limit. *)
LEMMA SetFits ==
  ASSUME NEW cache, Fits(cache), NEW s, NEW ttl, NEW new \in Set(cache, s, ttl)
  PROVE  Fits(new)
<1>0. MaxEntries \in Nat \ {0}
  BY TTLAssumption
<1>1. PICK rest \in Shrunk(cache, s) :
        new = [q \in DOMAIN rest \cup {s} |-> IF q = s THEN ttl ELSE rest[q]]
  BY DEF Set
<1>2. DOMAIN new = DOMAIN rest \cup {s}
  BY <1>1
<1>3. IsFiniteSet(DOMAIN cache) /\ Cardinality(DOMAIN cache) \in Nat
  BY FS_CardinalityType DEF Fits
<1>4. CASE s \in DOMAIN cache
  <2>1. rest = cache
    BY <1>1, <1>4 DEF Shrunk
  <2>2. DOMAIN new = DOMAIN cache
    BY <1>2, <1>4, <2>1
  <2>3. QED
    BY <2>2 DEF Fits
<1>5. CASE s \notin DOMAIN cache /\ Cardinality(DOMAIN cache) < MaxEntries
  <2>1. rest = cache
    BY <1>1, <1>5 DEF Shrunk
  <2>2. /\ IsFiniteSet(DOMAIN cache \cup {s})
        /\ Cardinality(DOMAIN cache \cup {s}) = Cardinality(DOMAIN cache) + 1
    BY <1>3, <1>5, FS_AddElement
  <2>3. QED
    BY <1>0, <1>2, <1>3, <1>5, <2>1, <2>2 DEF Fits
<1>6. CASE s \notin DOMAIN cache /\ ~(Cardinality(DOMAIN cache) < MaxEntries)
  <2>1. PICK oldest \in DOMAIN cache : DOMAIN rest = DOMAIN cache \ {oldest}
    BY <1>1, <1>6 DEF Shrunk, Oldest, Delete, Restrict
  <2>2. /\ IsFiniteSet(DOMAIN rest)
        /\ Cardinality(DOMAIN rest) = Cardinality(DOMAIN cache) - 1
    BY <1>3, <2>1, FS_RemoveElement
  <2>3. /\ IsFiniteSet(DOMAIN rest \cup {s})
        /\ Cardinality(DOMAIN rest \cup {s}) = Cardinality(DOMAIN rest) + 1
    BY <1>6, <2>1, <2>2, FS_AddElement
  <2>4. Cardinality(DOMAIN cache) <= MaxEntries
    BY DEF Fits
  <2>5. Cardinality(DOMAIN new) <= MaxEntries
    BY <1>0, <1>2, <1>3, <2>2, <2>3, <2>4
  <2>6. QED
    BY <1>2, <2>3, <2>5 DEF Fits
<1>7. QED
  BY <1>4, <1>5, <1>6

LEMMA SmallerFits ==
  ASSUME NEW cache, Fits(cache), NEW new, DOMAIN new \subseteq DOMAIN cache
  PROVE  Fits(new)
<1>0. MaxEntries \in Nat
  BY TTLAssumption
<1>1. /\ IsFiniteSet(DOMAIN new)
      /\ Cardinality(DOMAIN new) <= Cardinality(DOMAIN cache)
  BY FS_Subset DEF Fits
<1>2. Cardinality(DOMAIN new) \in Nat /\ Cardinality(DOMAIN cache) \in Nat
  BY <1>1, FS_CardinalityType DEF Fits
<1>3. QED
  BY <1>0, <1>1, <1>2 DEF Fits

(* Neither cache ever holds more than maxEntries entries, live or expired, *)
(* whichever handlers insert at the same time (Set).                       *)
THEOREM SizeLimit == Spec => []Bounded
<1> DEFINE Inv == Fits(found) /\ Fits(missing)
<1>1. Init => Inv
  BY FS_EmptySet, TTLAssumption DEF Init, Fits, Empty
<1>2. Inv /\ [Next]_vars => Inv'
  <2> SUFFICES ASSUME Inv, [Next]_vars PROVE Inv'
    OBVIOUS
  <2>1. ASSUME NEW r \in Requests, Begin(r) \/ LookupFound(r) \/ LookupMissing(r)
               \/ LoadDocument(r) \/ LoadFails(r)
        PROVE  Inv'
    BY <2>1 DEF Begin, LookupFound, LookupMissing, LoadDocument, LoadFails
  <2>2. ASSUME NEW r \in Requests, SetExists(r) PROVE Inv'
    <3>1. CASE missing' = Delete(missing, slug[r]) /\ found' = found
      <4>1. DOMAIN missing' \subseteq DOMAIN missing
        BY <3>1 DEF Delete, Restrict
      <4>2. QED
        BY <3>1, <4>1, SmallerFits
    <3>2. CASE found' \in Set(found, slug[r], FoundTTL) /\ missing' = missing
      BY <3>2, SetFits
    <3>3. QED
      BY <2>2, <3>1, <3>2 DEF SetExists
  <2>3. ASSUME NEW r \in Requests, SetMissing(r) PROVE Inv'
    <3>1. CASE found' = Delete(found, slug[r]) /\ missing' = missing
      <4>1. DOMAIN found' \subseteq DOMAIN found
        BY <3>1 DEF Delete, Restrict
      <4>2. QED
        BY <3>1, <4>1, SmallerFits
    <3>2. CASE missing' \in Set(missing, slug[r], MissingTTL) /\ found' = found
      BY <3>2, SetFits
    <3>3. QED
      BY <2>3, <3>1, <3>2 DEF SetMissing
  <2>4. CASE Tick
    <3>1. DOMAIN found' \subseteq DOMAIN found /\ DOMAIN missing' \subseteq DOMAIN missing
      BY <2>4 DEF Tick, Aged
    <3>2. QED
      BY <3>1, SmallerFits
  <2>5. CASE Sweep
    <3>1. DOMAIN found' \subseteq DOMAIN found /\ DOMAIN missing' \subseteq DOMAIN missing
      BY <2>5 DEF Sweep, RemoveExpired, Restrict
    <3>2. QED
      BY <3>1, SmallerFits
  <2>6. CASE CreateDocument \/ Close \/ UNCHANGED vars
    BY <2>6 DEF CreateDocument, Close, vars
  <2>7. QED
    BY <2>1, <2>2, <2>3, <2>4, <2>5, <2>6 DEF Next, Step
<1>3. Inv => Bounded
  BY DEF Fits, Bounded
<1>4. QED
  BY <1>1, <1>2, <1>3, PTL DEF Spec
=============================================================================
