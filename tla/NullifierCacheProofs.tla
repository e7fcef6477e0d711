-------------------------- MODULE NullifierCacheProofs --------------------------
(***************************************************************************)
(* The guarantees of one NullifierCache, for every set of nullifiers (it   *)
(* may be infinite), every capacity and every timeout.                     *)
(***************************************************************************)
EXTENDS NullifierCache, NullifierCacheOpsProofs, FiniteSetTheorems

Record == [age : Age, confirmed : BOOLEAN, marked : BOOLEAN]

LEMMA RecordFacts ==
    /\ \A a \in Age, b \in BOOLEAN, m \in BOOLEAN :
          [age |-> a, confirmed |-> b, marked |-> m] \in Record
    /\ \A r \in Record : r.age \in Age /\ r.confirmed \in BOOLEAN /\ r.marked \in BOOLEAN
    /\ Unmarked \in Record /\ ~Unmarked.marked
    /\ Marked \in Record /\ Marked.age = 0 /\ ~Marked.confirmed /\ Marked.marked
BY CacheAssumption DEF Record, Unmarked, Marked, Age

LEMMA FreshFields == FreshEntry.age = 0 /\ ~FreshEntry.confirmed
BY DEF FreshEntry

\* The members of the cache are as many as the Map is long.
LEMMA SizeFacts ==
    ASSUME NEW c, Coherent(c)
    PROVE  /\ IsFiniteSet(DOMAIN c.entry)
           /\ Cardinality(DOMAIN c.entry) = Len(c.order)
<1>1. /\ c.order \in Seq(Nullifier)
      /\ DOMAIN c.order = 1 .. Len(c.order)
      /\ Len(c.order) \in Nat
      /\ DOMAIN c.entry = {c.order[i] : i \in 1 .. Len(c.order)}
  BY CoherentFacts
<1>2. c.order \in [1 .. Len(c.order) -> DOMAIN c.entry]
  BY <1>1
<1>3. \A i, j \in 1 .. Len(c.order) : c.order[i] = c.order[j] => i = j
  BY <1>1 DEF Coherent
<1>4. \A n \in DOMAIN c.entry : \E i \in 1 .. Len(c.order) : c.order[i] = n
  BY <1>1
<1>5. c.order \in Bijection(1 .. Len(c.order), DOMAIN c.entry)
  BY <1>2, <1>3, <1>4 DEF Bijection, Injection, Surjection, IsInjective
<1>6. ExistsBijection(1 .. Len(c.order), DOMAIN c.entry)
  BY <1>5 DEF ExistsBijection
<1>7. IsFiniteSet(1 .. Len(c.order))
  BY <1>1, FS_Interval
<1> QED BY <1>1, <1>6, <1>7, FS_Bijection, FS_CountingElements

-----------------------------------------------------------------------------
\* What the cache holds is what the registry says of it.
Agreement ==
    \A n \in DOMAIN cache.entry :
        /\ registry[n].marked
        /\ registry[n].age = cache.entry[n].age
        /\ registry[n].confirmed <=> cache.entry[n].confirmed

CacheInv == TypeOK /\ Agreement

LEMMA AgreementDecides ==
    ASSUME CacheInv, NEW n \in Nullifier, Has(cache, n)
    PROVE  IsUsed(cache, n) <=> Known(n)
<1>1. /\ registry[n].marked
      /\ registry[n].age = cache.entry[n].age
      /\ registry[n].confirmed <=> cache.entry[n].confirmed
  BY DEF CacheInv, Agreement, Has
<1>2. cache.entry[n].age \in Age /\ cache.entry[n].confirmed \in BOOLEAN
  BY CoherentFacts, EntryFacts DEF CacheInv, TypeOK, WellFormed, Has
<1>3. cache.entry[n].age > TimeoutMs <=> ~(cache.entry[n].age <= TimeoutMs)
  BY <1>2, CacheAssumption DEF Age
<1> QED BY <1>1, <1>2, <1>3 DEF IsUsed, Known, Stale

LEMMA CacheInit == Init => CacheInv
BY EmptyCacheFacts, RecordFacts DEF Init, CacheInv, TypeOK, Agreement, Record

LEMMA CacheStep == CacheInv /\ [Next]_vars => CacheInv'
<1> SUFFICES ASSUME CacheInv, [Next]_vars PROVE CacheInv'
  OBVIOUS
<1>1. /\ WellFormed(cache) /\ Coherent(cache)
      /\ registry \in [Nullifier -> Record]
      /\ since \in [Nullifier -> SUBSET Nullifier]
      /\ DOMAIN cache.entry \subseteq Nullifier
  BY CoherentFacts DEF CacheInv, TypeOK, WellFormed, Record
<1>2. \A n \in DOMAIN cache.entry :
          /\ registry[n].marked
          /\ registry[n].age = cache.entry[n].age
          /\ registry[n].confirmed <=> cache.entry[n].confirmed
  BY DEF CacheInv, Agreement
<1>3. ASSUME NEW n \in Nullifier, Touch(n)
      PROVE  since' \in [Nullifier -> SUBSET Nullifier]
  BY <1>1, <1>3 DEF Touch
<1>4. ASSUME NEW n \in Nullifier, NEW r \in Record, SetRegistry(n, r)
      PROVE  /\ registry' \in [Nullifier -> Record]
             /\ registry'[n] = r
             /\ \A m \in Nullifier \ {n} : registry'[m] = registry[m]
  BY <1>1, <1>4 DEF SetRegistry
<1>5. ASSUME NEW n \in Nullifier, AskUsed(n) PROVE CacheInv'
  <2> DEFINE d == AfterIsUsed(cache, n)
  <2>1. /\ Coherent(cache')
        /\ Len(cache'.order) <= Len(cache.order)
        /\ DOMAIN cache'.entry = IF IsUsed(cache, n) THEN DOMAIN cache.entry
                                                 ELSE DOMAIN cache.entry \ {n}
        /\ \A m \in DOMAIN cache'.entry : cache'.entry[m] = cache.entry[m]
    <3>1. /\ Coherent(d)
          /\ Len(d.order) <= Len(cache.order)
          /\ DOMAIN d.entry = IF IsUsed(cache, n) THEN DOMAIN cache.entry
                                                 ELSE DOMAIN cache.entry \ {n}
          /\ \A m \in DOMAIN d.entry : d.entry[m] = cache.entry[m]
      BY <1>1, AfterIsUsedFacts
    <3> HIDE DEF d
    <3>2. cache' = d
      BY <1>5 DEF AskUsed, d
    <3> QED BY <3>1, <3>2
  <2> HIDE DEF d
  <2>2. Len(cache'.order) \in Nat /\ Len(cache.order) \in Nat /\ MaxSize \in Nat
    BY <1>1, <2>1, CoherentFacts, CacheAssumption
  <2>3. WellFormed(cache')
    BY <1>1, <2>1, <2>2 DEF WellFormed
  <2>4. since' \in [Nullifier -> SUBSET Nullifier]
    BY <1>1, <1>3, <1>5 DEF AskUsed
  <2>5. CASE Known(n)
    <3>1. registry' = registry
      BY <1>5, <2>5 DEF AskUsed
    <3> QED BY <1>1, <1>2, <2>1, <2>3, <2>4, <3>1 DEF CacheInv, TypeOK, Agreement, Record
  <2>6. CASE ~Known(n)
    <3>1. /\ registry' \in [Nullifier -> Record]
          /\ \A m \in Nullifier \ {n} : registry'[m] = registry[m]
      BY <1>4, <1>5, <2>6, RecordFacts DEF AskUsed
    <3>2. ~IsUsed(cache, n)
      BY <2>6, AgreementDecides DEF IsUsed
    <3>3. DOMAIN cache'.entry \subseteq Nullifier \ {n}
      BY <1>1, <2>1, <3>2
    <3> QED BY <1>1, <1>2, <2>1, <2>3, <2>4, <3>1, <3>2, <3>3
            DEF CacheInv, TypeOK, Agreement, Record
  <2> QED BY <2>5, <2>6
<1>6. ASSUME NEW n \in Nullifier, TryMark(n) PROVE CacheInv'
  <2>1. /\ WellFormed(cache')
        /\ cache'.entry[n] = IF IsUsed(cache, n) THEN cache.entry[n] ELSE FreshEntry
        /\ \A m \in DOMAIN cache'.entry \ {n} :
              m \in DOMAIN cache.entry /\ cache'.entry[m] = cache.entry[m]
    BY <1>1, <1>6, TryMarkUsedFacts DEF TryMark
  <2>2. since' \in [Nullifier -> SUBSET Nullifier]
    BY <1>3, <1>6 DEF TryMark
  <2>3. CASE IsUsed(cache, n)
    <3>1. registry' = registry
      BY <1>6, <2>3 DEF TryMark
    <3>2. n \in DOMAIN cache.entry
      BY <2>3 DEF IsUsed, Has
    <3> QED BY <1>1, <1>2, <2>1, <2>2, <2>3, <3>1, <3>2
            DEF CacheInv, TypeOK, Agreement, Record
  <2>4. CASE ~IsUsed(cache, n)
    <3>1. /\ registry' \in [Nullifier -> Record]
          /\ registry'[n] = Marked
          /\ \A m \in Nullifier \ {n} : registry'[m] = registry[m]
      BY <1>4, <1>6, <2>4, RecordFacts DEF TryMark
    <3>2. \A m \in DOMAIN cache'.entry \ {n} : m \in Nullifier \ {n}
      BY <1>1, <2>1
    <3>3. cache'.entry[n] = FreshEntry
      BY <2>1, <2>4
    <3>4. Agreement'
      BY <1>2, <2>1, <3>1, <3>2, <3>3, RecordFacts, FreshFields DEF Agreement
    <3> QED BY <2>1, <2>2, <3>1, <3>4 DEF CacheInv, TypeOK, Record
  <2> QED BY <2>3, <2>4
<1>7. ASSUME NEW n \in Nullifier, Mark(n) PROVE CacheInv'
  <2>1. /\ WellFormed(cache')
        /\ cache'.entry[n] = FreshEntry
        /\ \A m \in DOMAIN cache'.entry \ {n} :
              m \in DOMAIN cache.entry /\ cache'.entry[m] = cache.entry[m]
    BY <1>1, <1>7, MarkUsedFacts DEF Mark
  <2>2. since' \in [Nullifier -> SUBSET Nullifier]
    BY <1>3, <1>7 DEF Mark
  <2>3. /\ registry' \in [Nullifier -> Record]
        /\ registry'[n] = Marked
        /\ \A m \in Nullifier \ {n} : registry'[m] = registry[m]
    BY <1>4, <1>7, RecordFacts DEF Mark
  <2>4. \A m \in DOMAIN cache'.entry \ {n} : m \in Nullifier \ {n}
    BY <1>1, <2>1
  <2>5. Agreement'
    BY <1>2, <2>1, <2>3, <2>4, RecordFacts, FreshFields DEF Agreement
  <2> QED BY <2>1, <2>2, <2>3, <2>5 DEF CacheInv, TypeOK, Record
<1>8. ASSUME NEW n \in Nullifier, Confirm(n) PROVE CacheInv'
  <2>1. /\ WellFormed(cache')
        /\ DOMAIN cache'.entry = DOMAIN cache.entry
        /\ \A m \in DOMAIN cache.entry \ {n} : cache'.entry[m] = cache.entry[m]
        /\ Has(cache, n)
             => cache'.entry[n] = [age |-> cache.entry[n].age, confirmed |-> TRUE]
    BY <1>1, <1>8, ConfirmUsedFacts DEF Confirm
  <2>2. since' = since
    BY <1>8 DEF Confirm
  <2>3. CASE registry[n].marked
    <3> DEFINE r == Confirmed(registry[n])
    <3>1. r = [age |-> registry[n].age, confirmed |-> TRUE, marked |-> registry[n].marked]
      BY DEF Confirmed
    <3> HIDE DEF r
    <3>2. r \in Record
      BY <3>1, <1>1, RecordFacts
    <3>3. SetRegistry(n, r)
      BY <1>8, <2>3 DEF Confirm, r
    <3>4. /\ registry' \in [Nullifier -> Record]
          /\ registry'[n] = r
          /\ \A m \in Nullifier \ {n} : registry'[m] = registry[m]
      BY <3>2, <3>3, <1>4
    <3>5. ASSUME NEW m \in DOMAIN cache'.entry
          PROVE  /\ registry'[m].marked
                 /\ registry'[m].age = cache'.entry[m].age
                 /\ registry'[m].confirmed <=> cache'.entry[m].confirmed
      <4>1. m \in DOMAIN cache.entry /\ m \in Nullifier
        BY <2>1, <1>1
      <4>2. CASE m = n
        <5>1. registry[n].age = cache.entry[n].age /\ registry[n].marked
          BY <4>1, <4>2, <1>2
        <5>2. /\ cache'.entry[n].age = cache.entry[n].age
              /\ cache'.entry[n].confirmed
          BY <4>1, <4>2, <2>1 DEF Has
        <5> QED BY <4>2, <5>1, <5>2, <3>1, <3>4
      <4>3. CASE m # n
        BY <4>1, <4>3, <1>2, <2>1, <3>4
      <4> QED BY <4>2, <4>3
    <3> QED BY <1>1, <2>1, <2>2, <3>4, <3>5 DEF CacheInv, TypeOK, Agreement, Record
  <2>4. CASE ~registry[n].marked
    <3>1. registry' = registry
      BY <1>8, <2>4 DEF Confirm
    <3>2. n \notin DOMAIN cache.entry
      BY <1>2, <2>4
    <3> QED BY <1>1, <1>2, <2>1, <2>2, <3>1, <3>2 DEF CacheInv, TypeOK, Agreement, Record
  <2> QED BY <2>3, <2>4
<1>9. ASSUME NEW n \in Nullifier, Forget(n) PROVE CacheInv'
  <2>1. /\ Coherent(cache')
        /\ DOMAIN cache'.entry = DOMAIN cache.entry \ {n}
        /\ \A m \in DOMAIN cache.entry \ {n} : cache'.entry[m] = cache.entry[m]
        /\ Len(cache'.order) =
             IF Has(cache, n) THEN Len(cache.order) - 1 ELSE Len(cache.order)
    BY <1>1, <1>9, DeleteFacts DEF Forget, Remove
  <2>2. Len(cache.order) \in Nat /\ MaxSize \in Nat
    BY <1>1, CoherentFacts, CacheAssumption
  <2>3. WellFormed(cache')
    BY <1>1, <2>1, <2>2 DEF WellFormed
  <2>4. /\ registry' \in [Nullifier -> Record]
        /\ \A m \in Nullifier \ {n} : registry'[m] = registry[m]
    BY <1>4, <1>9, RecordFacts DEF Forget
  <2>5. since' = since
    BY <1>9 DEF Forget
  <2> QED BY <1>1, <1>2, <2>1, <2>3, <2>4, <2>5 DEF CacheInv, TypeOK, Agreement, Record
<1>10. CASE Clear
  BY <1>1, <1>10, EmptyCacheFacts, RecordFacts
     DEF Clear, CacheInv, TypeOK, Agreement, Record
<1>11. CASE Tick
  <2>1. /\ WellFormed(cache')
        /\ DOMAIN cache'.entry = DOMAIN cache.entry
        /\ \A m \in DOMAIN cache.entry :
              cache'.entry[m] = [age |-> Older(cache.entry[m].age),
                                 confirmed |-> cache.entry[m].confirmed]
    BY <1>1, <1>11, ElapseFacts DEF Tick
  <2>2. ASSUME NEW n \in Nullifier
        PROVE  /\ registry'[n] = IF registry[n].marked
                                 THEN [age |-> Older(registry[n].age),
                                       confirmed |-> registry[n].confirmed,
                                       marked |-> registry[n].marked]
                                 ELSE registry[n]
               /\ registry'[n] \in Record
    <3>2. registry'[n] = IF registry[n].marked
                         THEN Aged(registry[n]) ELSE registry[n]
      BY <1>11 DEF Tick
    <3>3. Aged(registry[n]) = [age |-> Older(registry[n].age),
                               confirmed |-> registry[n].confirmed,
                               marked |-> registry[n].marked]
      BY DEF Aged
    <3>4. /\ Older(registry[n].age) \in Age
          /\ registry[n].confirmed \in BOOLEAN
          /\ registry[n].marked \in BOOLEAN
          /\ registry[n] \in Record
      BY <1>1, RecordFacts, OlderType
    <3>5. Aged(registry[n]) \in Record
      BY <3>3, <3>4, RecordFacts
    <3> QED BY <3>2, <3>3, <3>4, <3>5
  <2>3. registry' \in [Nullifier -> Record]
    <3>1. registry' = [n \in Nullifier |-> registry'[n]]
      BY <1>11 DEF Tick
    <3> QED BY <3>1, <2>2
  <2>4. ASSUME NEW m \in DOMAIN cache'.entry
        PROVE  /\ registry'[m].marked
               /\ registry'[m].age = cache'.entry[m].age
               /\ registry'[m].confirmed <=> cache'.entry[m].confirmed
    <3>1. m \in DOMAIN cache.entry /\ m \in Nullifier
      BY <1>1, <2>1
    <3>2. /\ registry[m].age = cache.entry[m].age
          /\ registry[m].confirmed <=> cache.entry[m].confirmed
          /\ registry[m].marked
      BY <3>1, <1>2
    <3>3. /\ cache'.entry[m].age = Older(cache.entry[m].age)
          /\ cache'.entry[m].confirmed <=> cache.entry[m].confirmed
      <4>1. cache'.entry[m] = [age |-> Older(cache.entry[m].age),
                               confirmed |-> cache.entry[m].confirmed]
        BY <3>1, <2>1
      <4> QED BY <4>1
    <3>4. registry'[m] = [age |-> Older(registry[m].age),
                          confirmed |-> registry[m].confirmed,
                          marked |-> registry[m].marked]
      BY <3>1, <3>2, <2>2
    <3> QED BY <3>2, <3>3, <3>4
  <2>5. since' = since
    BY <1>11 DEF Tick
  <2> QED BY <1>1, <2>1, <2>3, <2>4, <2>5 DEF CacheInv, TypeOK, Agreement, Record
<1>12. CASE UNCHANGED vars
  BY <1>12 DEF vars, CacheInv, TypeOK, Agreement
<1> QED BY <1>5, <1>6, <1>7, <1>8, <1>9, <1>10, <1>11, <1>12 DEF Next

(***************************************************************************)
(* The Map keeps its two views of one content and never exceeds maxSize.   *)
(***************************************************************************)
THEOREM CacheTypeCorrect == Spec => []TypeOK
<1>1. CacheInv => TypeOK
  BY DEF CacheInv
<1> QED BY <1>1, CacheInit, CacheStep, PTL DEF Spec

(***************************************************************************)
(* isUsed never answers true for an abandoned mark that is older than the  *)
(* timeout, whatever the sequence of calls.                                *)
(***************************************************************************)
THEOREM CacheNeverOverblocks == Spec => []NeverOverblocks
<1>1. CacheInv => NeverOverblocks
  BY AgreementDecides DEF NeverOverblocks, IsUsed
<1> QED BY <1>1, CacheInit, CacheStep, PTL DEF Spec

-----------------------------------------------------------------------------
(***************************************************************************)
(* The order of the Map is the order of use, and a marked nullifier is     *)
(* missing from the cache only after MaxSize others were used.  (Known in  *)
(* place of marked would not be inductive: a late confirmUsed of a mark    *)
(* that was evicted and has expired makes it known again.)                 *)
(***************************************************************************)
Recency    == \A a, b : Before(cache, a, b) => b \in since[a]
SinceFinite == \A n \in Nullifier : IsFiniteSet(since[n])
Pressure   == \A n \in Nullifier :
                 registry[n].marked /\ ~Has(cache, n) => Cardinality(since[n]) >= MaxSize

PressureInv == Recency /\ SinceFinite /\ Pressure

LEMMA PressureInit == Init => PressureInv
BY FS_EmptySet DEF Init, PressureInv, Recency, SinceFinite, Pressure, Before,
                   EmptyCache, Unmarked

\* Using n adds it to every other nullifier's history and empties its own.
LEMMA TouchFacts ==
    ASSUME CacheInv, PressureInv, NEW n \in Nullifier, Touch(n)
    PROVE  /\ since'[n] = {}
           /\ \A m \in Nullifier \ {n} : since'[m] = since[m] \cup {n}
           /\ SinceFinite'
           /\ \A m \in Nullifier \ {n} : Cardinality(since'[m]) >= Cardinality(since[m])
           /\ \A m \in Nullifier : Cardinality(since[m]) \in Nat
<1>1. since'[n] = {} /\ \A m \in Nullifier \ {n} : since'[m] = since[m] \cup {n}
  BY DEF Touch
<1>2. ASSUME NEW m \in Nullifier
      PROVE  IsFiniteSet(since[m]) /\ Cardinality(since[m]) \in Nat
  BY FS_CardinalityType DEF PressureInv, SinceFinite
<1>3. ASSUME NEW m \in Nullifier \ {n}
      PROVE  /\ IsFiniteSet(since'[m])
             /\ Cardinality(since'[m]) >= Cardinality(since[m])
  <2>1. IsFiniteSet(since[m]) /\ Cardinality(since[m]) \in Nat
    BY <1>2
  <2>2. /\ IsFiniteSet(since[m] \cup {n})
        /\ Cardinality(since[m] \cup {n}) =
             IF n \in since[m] THEN Cardinality(since[m]) ELSE Cardinality(since[m]) + 1
    BY <2>1, FS_AddElement
  <2> QED BY <1>1, <2>1, <2>2
<1>4. SinceFinite'
  BY <1>1, <1>3, FS_EmptySet DEF SinceFinite
<1> QED BY <1>1, <1>2, <1>3, <1>4

\* An evicted nullifier m: all but one of a full cache's members, and the
\* nullifier n that took its place, were used after it.
LEMMA EvictionPressure ==
    ASSUME CacheInv, PressureInv, NEW n \in Nullifier, Touch(n),
           NEW p, Coherent(p), ~Has(p, n), Len(p.order) = MaxSize,
           NEW m \in DOMAIN p.entry, m \in Nullifier,
           \A b \in DOMAIN p.entry \ {m} : Before(cache, m, b)
    PROVE  Cardinality(since'[m]) >= MaxSize
<1> DEFINE others == DOMAIN p.entry \ {m}
<1>1. m # n
  BY DEF Has
<1>2. since'[m] = since[m] \cup {n} /\ IsFiniteSet(since'[m])
  BY <1>1, TouchFacts DEF SinceFinite
<1>3. IsFiniteSet(DOMAIN p.entry) /\ Cardinality(DOMAIN p.entry) = MaxSize
  BY SizeFacts
<1>4. IsFiniteSet(others) /\ Cardinality(others) = MaxSize - 1
  BY <1>3, FS_RemoveElement
<1>5. n \notin others
  BY DEF Has
<1>6. others \subseteq since[m]
  BY DEF PressureInv, Recency
<1> HIDE DEF others
<1>7. IsFiniteSet(others \cup {n}) /\ Cardinality(others \cup {n}) = MaxSize
  <2>1. /\ IsFiniteSet(others \cup {n})
        /\ Cardinality(others \cup {n}) = Cardinality(others) + 1
    BY <1>4, <1>5, FS_AddElement
  <2> QED BY <2>1, <1>4, CacheAssumption
<1>8. others \cup {n} \in SUBSET since'[m]
  BY <1>2, <1>6
<1>9. Cardinality(others \cup {n}) <= Cardinality(since'[m])
  BY <1>2, <1>8, FS_Subset
<1>10. Cardinality(since'[m]) \in Nat
  BY <1>2, FS_CardinalityType
<1> QED BY <1>7, <1>9, <1>10, CacheAssumption

LEMMA PressureStep == CacheInv /\ PressureInv /\ [Next]_vars => PressureInv'
<1> SUFFICES ASSUME CacheInv, PressureInv, [Next]_vars PROVE PressureInv'
  OBVIOUS
<1>1. /\ WellFormed(cache) /\ Coherent(cache)
      /\ registry \in [Nullifier -> Record]
      /\ DOMAIN cache.entry \subseteq Nullifier
  BY CoherentFacts DEF CacheInv, TypeOK, WellFormed, Record
<1>2. /\ \A a, b : Before(cache, a, b) => b \in since[a]
      /\ \A m \in Nullifier :
            registry[m].marked /\ ~Has(cache, m) => Cardinality(since[m]) >= MaxSize
  BY DEF PressureInv, Recency, Pressure
<1>3. \A m \in Nullifier : Cardinality(since[m]) \in Nat
  BY FS_CardinalityType DEF PressureInv, SinceFinite
<1>4. MaxSize \in Nat
  BY CacheAssumption
\* A use of n that keeps the order of the others.
<1>5. ASSUME NEW n \in Nullifier, Touch(n), NEW c,
             \A a, b : Before(c, a, b)
                => a # n /\ Has(cache, a) /\ (Before(cache, a, b) \/ b = n)
      PROVE  \A a, b : Before(c, a, b) => b \in since'[a]
  <2> SUFFICES ASSUME NEW a, NEW b, Before(c, a, b) PROVE b \in since'[a]
    OBVIOUS
  <2>1. a \in Nullifier \ {n} /\ (Before(cache, a, b) \/ b = n)
    BY <1>1, <1>5 DEF Has
  <2>2. since'[a] = since[a] \cup {n}
    BY <1>5, <2>1, TouchFacts
  <2> QED BY <1>2, <2>1, <2>2
<1>6. ASSUME NEW n \in Nullifier, NEW r, SetRegistry(n, r)
      PROVE  registry'[n] = r /\ \A m \in Nullifier \ {n} : registry'[m] = registry[m]
  BY <1>1, <1>6 DEF SetRegistry
<1>7. ASSUME NEW n \in Nullifier, AskUsed(n) PROVE PressureInv'
  <2> DEFINE d == AfterIsUsed(cache, n)
  <2>1. /\ DOMAIN d.entry = IF IsUsed(cache, n) THEN DOMAIN cache.entry
                                               ELSE DOMAIN cache.entry \ {n}
        /\ \A a, b : Before(d, a, b)
              => IF IsUsed(cache, n)
                 THEN a # n /\ Has(cache, a) /\ (Before(cache, a, b) \/ b = n)
                 ELSE Before(cache, a, b)
    BY <1>1, AfterIsUsedFacts
  <2> HIDE DEF d
  <2>2. cache' = d
    BY <1>7 DEF AskUsed, d
  <2>3. CASE IsUsed(cache, n)
    <3>1. Touch(n)
      BY <1>7, <2>3 DEF AskUsed
    <3>2. Known(n)
      BY <2>3, AgreementDecides DEF IsUsed
    <3>3. registry' = registry
      BY <1>7, <3>2 DEF AskUsed
    <3>4. Recency'
      BY <1>5, <2>1, <2>2, <2>3, <3>1 DEF Recency
    <3>5. ASSUME NEW m \in Nullifier, registry'[m].marked, ~Has(cache', m)
          PROVE  Cardinality(since'[m]) >= MaxSize
      <4>1. ~Has(cache, m) /\ Has(cache, n) /\ registry[m].marked
        BY <2>1, <2>2, <2>3, <3>3, <3>5 DEF Has, IsUsed
      <4>2. m # n
        BY <4>1
      <4>3. /\ Cardinality(since'[m]) >= Cardinality(since[m])
            /\ IsFiniteSet(since'[m])
        BY <3>1, <4>2, TouchFacts DEF SinceFinite
      <4>4. Cardinality(since'[m]) \in Nat
        BY <4>3, FS_CardinalityType
      <4> QED BY <1>2, <1>3, <1>4, <4>1, <4>3, <4>4
    <3>6. SinceFinite'
      BY <3>1, TouchFacts
    <3> QED BY <3>4, <3>5, <3>6 DEF PressureInv, Pressure
  <2>4. CASE ~IsUsed(cache, n)
    <3>1. since' = since
      BY <1>7, <2>4 DEF AskUsed
    <3>2. Recency'
      BY <1>2, <2>1, <2>2, <2>4, <3>1 DEF Recency
    <3>3. ASSUME NEW m \in Nullifier, registry'[m].marked, ~Has(cache', m)
          PROVE  registry[m].marked /\ ~Has(cache, m)
      <4>1. CASE Known(n)
        <5>1. registry' = registry
          BY <1>7, <4>1 DEF AskUsed
        <5>2. ~Has(cache, n)
          BY <4>1, <2>4, AgreementDecides
        <5> QED BY <3>3, <5>1, <5>2, <2>1, <2>2, <2>4 DEF Has
      <4>2. CASE ~Known(n)
        <5>1. /\ registry'[n] = Unmarked
              /\ \A k \in Nullifier \ {n} : registry'[k] = registry[k]
          BY <1>6, <1>7, <4>2 DEF AskUsed
        <5>2. ~registry'[n].marked
          BY <5>1, RecordFacts
        <5> QED BY <3>3, <5>1, <5>2, <2>1, <2>2, <2>4 DEF Has
      <4> QED BY <4>1, <4>2
    <3> QED BY <1>2, <3>1, <3>2, <3>3 DEF PressureInv, SinceFinite, Pressure
  <2> QED BY <2>3, <2>4
<1>8. ASSUME NEW n \in Nullifier, TryMark(n) PROVE PressureInv'
  <2> DEFINE c == TryMarkUsed(cache, n)
             p == AfterIsUsed(cache, n)
  <2>1. /\ Has(c, n)
        /\ \A m \in (DOMAIN cache.entry \ {n}) \ DOMAIN c.entry :
              /\ Len(AfterIsUsed(cache, n).order) = MaxSize
              /\ \A b \in DOMAIN cache.entry \ {m, n} : Before(cache, m, b)
        /\ \A a, b : Before(c, a, b)
              => a # n /\ Has(cache, a) /\ (Before(cache, a, b) \/ b = n)
    BY <1>1, TryMarkUsedFacts
  <2>2. IsUsed(cache, n) => DOMAIN c.entry = DOMAIN cache.entry
    BY <1>1, AfterIsUsedFacts DEF TryMarkUsed
  <2>3. /\ Coherent(p)
        /\ DOMAIN p.entry = IF IsUsed(cache, n) THEN DOMAIN cache.entry
                                               ELSE DOMAIN cache.entry \ {n}
    BY <1>1, AfterIsUsedFacts
  <2> HIDE DEF c, p
  <2>4. cache' = c /\ Touch(n)
    BY <1>8 DEF TryMark, c
  <2>5. Recency' /\ SinceFinite'
    BY <1>5, <2>1, <2>4, TouchFacts DEF Recency
  <2>6. ASSUME NEW m \in Nullifier, registry'[m].marked, ~Has(cache', m)
        PROVE  Cardinality(since'[m]) >= MaxSize
    <3>1. m # n
      BY <2>1, <2>4, <2>6
    <3>2. registry[m].marked
      <4>1. CASE IsUsed(cache, n)
        BY <1>8, <2>6, <4>1 DEF TryMark
      <4>2. CASE ~IsUsed(cache, n)
        <5>1. SetRegistry(n, Marked)
          BY <1>8, <4>2 DEF TryMark
        <5> QED BY <1>6, <2>6, <3>1, <5>1
      <4> QED BY <4>1, <4>2
    <3>3. CASE ~Has(cache, m)
      <4>1. /\ Cardinality(since'[m]) >= Cardinality(since[m])
            /\ IsFiniteSet(since'[m])
        BY <2>4, <3>1, TouchFacts DEF SinceFinite
      <4>2. Cardinality(since'[m]) \in Nat
        BY <4>1, FS_CardinalityType
      <4> QED BY <1>2, <1>3, <1>4, <3>2, <3>3, <4>1, <4>2
    <3>4. CASE Has(cache, m)
      <4>1. m \in (DOMAIN cache.entry \ {n}) \ DOMAIN c.entry
        BY <2>4, <2>6, <3>1, <3>4 DEF Has
      <4>2. ~IsUsed(cache, n)
        BY <2>2, <4>1
      <4>3. /\ ~Has(p, n) /\ m \in DOMAIN p.entry
            /\ Len(p.order) = MaxSize
            /\ \A b \in DOMAIN p.entry \ {m} : Before(cache, m, b)
        BY <2>1, <2>3, <4>1, <4>2 DEF Has, p
      <4> QED BY <2>3, <2>4, <4>3, EvictionPressure
    <3> QED BY <3>3, <3>4
  <2> QED BY <2>5, <2>6 DEF PressureInv, Pressure
<1>9. ASSUME NEW n \in Nullifier, Mark(n) PROVE PressureInv'
  <2> DEFINE c == MarkUsed(cache, n)
  <2>1. /\ Has(c, n)
        /\ \A m \in DOMAIN cache.entry \ DOMAIN c.entry :
              /\ Len(cache.order) = MaxSize
              /\ ~Has(cache, n)
              /\ \A b \in DOMAIN cache.entry \ {m} : Before(cache, m, b)
        /\ \A a, b : Before(c, a, b)
              => a # n /\ Has(cache, a) /\ (Before(cache, a, b) \/ b = n)
    BY <1>1, MarkUsedFacts
  <2> HIDE DEF c
  <2>2. cache' = c /\ Touch(n) /\ SetRegistry(n, Marked)
    BY <1>9 DEF Mark, c
  <2>3. Recency' /\ SinceFinite'
    BY <1>5, <2>1, <2>2, TouchFacts DEF Recency
  <2>4. ASSUME NEW m \in Nullifier, registry'[m].marked, ~Has(cache', m)
        PROVE  Cardinality(since'[m]) >= MaxSize
    <3>1. m # n
      BY <2>1, <2>2, <2>4
    <3>2. registry[m].marked
      BY <1>6, <2>2, <2>4, <3>1
    <3>3. CASE ~Has(cache, m)
      <4>1. /\ Cardinality(since'[m]) >= Cardinality(since[m])
            /\ IsFiniteSet(since'[m])
        BY <2>2, <3>1, TouchFacts DEF SinceFinite
      <4>2. Cardinality(since'[m]) \in Nat
        BY <4>1, FS_CardinalityType
      <4> QED BY <1>2, <1>3, <1>4, <3>2, <3>3, <4>1, <4>2
    <3>4. CASE Has(cache, m)
      <4>1. m \in DOMAIN cache.entry \ DOMAIN c.entry
        BY <2>2, <2>4, <3>4 DEF Has
      <4> QED BY <1>1, <2>1, <2>2, <4>1, EvictionPressure
    <3> QED BY <3>3, <3>4
  <2> QED BY <2>3, <2>4 DEF PressureInv, Pressure
<1>10. ASSUME NEW n \in Nullifier, Confirm(n) PROVE PressureInv'
  <2>1. cache'.order = cache.order /\ DOMAIN cache'.entry = DOMAIN cache.entry
    BY <1>1, <1>10, ConfirmUsedFacts DEF Confirm
  <2>2. since' = since
    BY <1>10 DEF Confirm
  <2>3. ASSUME NEW m \in Nullifier, registry'[m].marked
        PROVE  registry[m].marked
    <3>1. CASE registry[n].marked
      <4>1. SetRegistry(n, Confirmed(registry[n]))
        BY <1>10, <3>1 DEF Confirm
      <4>2. m # n => registry'[m] = registry[m]
        BY <1>6, <4>1
      <4> QED BY <2>3, <3>1, <4>2
    <3>2. CASE ~registry[n].marked
      BY <1>10, <2>3, <3>2 DEF Confirm
    <3> QED BY <3>1, <3>2
  <2> QED BY <1>2, <2>1, <2>2, <2>3
          DEF PressureInv, Recency, SinceFinite, Pressure, Before, Has
<1>11. ASSUME NEW n \in Nullifier, Forget(n) PROVE PressureInv'
  <2> DEFINE d == Delete(cache, n)
  <2>1. /\ DOMAIN d.entry = DOMAIN cache.entry \ {n}
        /\ \A a, b : Before(d, a, b) => Before(cache, a, b)
    BY <1>1, DeleteFacts
  <2> HIDE DEF d
  <2>2. cache' = d /\ since' = since /\ SetRegistry(n, Unmarked)
    BY <1>11 DEF Forget, Remove, d
  <2>3. ~registry'[n].marked
    BY <1>6, <2>2, RecordFacts
  <2>4. \A m \in Nullifier \ {n} : registry'[m] = registry[m]
    BY <1>6, <2>2
  <2> QED BY <1>2, <2>1, <2>2, <2>3, <2>4
          DEF PressureInv, Recency, SinceFinite, Pressure, Has
<1>12. CASE Clear
  <2>1. \A m \in Nullifier : ~registry'[m].marked
    BY <1>12, RecordFacts DEF Clear
  <2>2. cache'.order = << >> /\ since' = since
    BY <1>12 DEF Clear, EmptyCache
  <2> QED BY <2>1, <2>2 DEF PressureInv, Recency, SinceFinite, Pressure, Before
<1>13. CASE Tick
  <2>1. cache'.order = cache.order /\ DOMAIN cache'.entry = DOMAIN cache.entry
    BY <1>1, <1>13, ElapseFacts DEF Tick
  <2>2. since' = since
    BY <1>13 DEF Tick
  <2>3. ASSUME NEW m \in Nullifier, registry'[m].marked
        PROVE  registry[m].marked
    BY <1>13, <2>3 DEF Tick
  <2> QED BY <1>2, <2>1, <2>2, <2>3
          DEF PressureInv, Recency, SinceFinite, Pressure, Before, Has
<1>14. CASE UNCHANGED vars
  BY <1>14 DEF vars, PressureInv, Recency, SinceFinite, Pressure, Before, Has
<1> QED BY <1>7, <1>8, <1>9, <1>10, <1>11, <1>12, <1>13, <1>14 DEF Next

(***************************************************************************)
(* The least-recently-used guarantee: isUsed lets a nullifier through that *)
(* it should block only when at least maxSize others were used after it.   *)
(***************************************************************************)
THEOREM CacheForgetsOnlyUnderPressure == Spec => []ForgetsOnlyUnderPressure
<1>1. CacheInv /\ PressureInv => ForgetsOnlyUnderPressure
  <2> SUFFICES ASSUME CacheInv, PressureInv, NEW n \in Nullifier,
                      Known(n), ~IsUsed(cache, n)
               PROVE  Cardinality(since[n]) >= MaxSize
    BY DEF ForgetsOnlyUnderPressure
  <2>1. ~Has(cache, n)
    BY AgreementDecides
  <2> QED BY <2>1 DEF PressureInv, Pressure, Known
<1> QED BY <1>1, CacheInit, CacheStep, PressureInit, PressureStep, PTL DEF Spec
=============================================================================
