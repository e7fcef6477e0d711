------------------------ MODULE NullifierCacheOpsProofs ------------------------
(***************************************************************************)
(* What the methods of NullifierCache preserve and what they change, for   *)
(* every set of nullifiers, capacity and timeout.                          *)
(***************************************************************************)
EXTENDS NullifierCacheOps, SequenceTheorems, TLAPS

\* a is older than b: it is evicted first.
Before(cache, a, b) ==
    \E i, j \in DOMAIN cache.order :
        i < j /\ cache.order[i] = a /\ cache.order[j] = b

\* Removing one element of a sequence shifts the rest by one place.
LEMMA RemoveAtFacts ==
    ASSUME NEW S, NEW s \in Seq(S), NEW i \in 1 .. Len(s)
    PROVE  /\ Seqs!RemoveAt(s, i) \in Seq(S)
           /\ Len(Seqs!RemoveAt(s, i)) = Len(s) - 1
           /\ \A k \in 1 .. Len(s) - 1 :
                 Seqs!RemoveAt(s, i)[k] = IF k < i THEN s[k] ELSE s[k + 1]
<1> DEFINE a == SubSeq(s, 1, i - 1)
           b == SubSeq(s, i + 1, Len(s))
<1>1. a \in Seq(S) /\ Len(a) = i - 1 /\ \A k \in 1 .. i - 1 : a[k] = s[k]
  OBVIOUS
<1>2. b \in Seq(S) /\ Len(b) = Len(s) - i
  OBVIOUS
<1>3. \A k \in 1 .. Len(s) - i : b[k] = s[i + k]
  OBVIOUS
<1>4. Seqs!RemoveAt(s, i) = a \o b
  BY DEF Seqs!RemoveAt
<1> HIDE DEF a, b
<1>5. /\ a \o b \in Seq(S)
      /\ Len(a \o b) = Len(a) + Len(b)
      /\ \A k \in 1 .. Len(a) + Len(b) :
            (a \o b)[k] = IF k <= Len(a) THEN a[k] ELSE b[k - Len(a)]
  BY <1>1, <1>2, ConcatProperties
<1>6. Len(s) \in Nat /\ i \in Nat /\ i >= 1 /\ i <= Len(s)
  OBVIOUS
<1>7. ASSUME NEW k \in 1 .. Len(s) - 1
      PROVE  (a \o b)[k] = IF k < i THEN s[k] ELSE s[k + 1]
  <2>1. k \in 1 .. Len(a) + Len(b)
    BY <1>1, <1>2, <1>6
  <2>2. CASE k < i
    <3>1. k \in 1 .. i - 1 /\ k <= Len(a)
      BY <2>2, <1>1, <1>6
    <3> QED BY <3>1, <2>1, <2>2, <1>1, <1>5
  <2>3. CASE ~(k < i)
    <3> DEFINE j == k - (i - 1)
    <3>1. ~(k <= Len(a)) /\ k - Len(a) = j
      BY <2>3, <1>1, <1>6
    <3>2. j \in 1 .. Len(s) - i /\ i + j = k + 1
      BY <2>3, <1>6
    <3> HIDE DEF j
    <3>3. (a \o b)[k] = b[j]
      BY <3>1, <2>1, <1>5
    <3>4. b[j] = s[k + 1]
      BY <3>2, <1>3
    <3> QED BY <3>3, <3>4, <2>3
  <2> QED BY <2>2, <2>3
<1> QED BY <1>1, <1>2, <1>4, <1>5, <1>6, <1>7

LEMMA EmptyCacheFacts ==
    WellFormed(EmptyCache) /\ DOMAIN EmptyCache.entry = {}
BY CacheAssumption DEF WellFormed, Coherent, EmptyCache

LEMMA CoherentFacts ==
    ASSUME NEW cache, Coherent(cache)
    PROVE  /\ cache.order \in Seq(Nullifier)
           /\ DOMAIN cache.order = 1 .. Len(cache.order)
           /\ Len(cache.order) \in Nat
           /\ DOMAIN cache.entry = {cache.order[i] : i \in 1 .. Len(cache.order)}
           /\ DOMAIN cache.entry \subseteq Nullifier
           /\ \A m \in DOMAIN cache.entry : cache.entry[m] \in Entry
BY DEF Coherent

LEMMA EntryFacts ==
    /\ \A a \in Age, b \in BOOLEAN : [age |-> a, confirmed |-> b] \in Entry
    /\ \A e \in Entry : e.age \in Age /\ e.confirmed \in BOOLEAN
BY DEF Entry

\* Map.delete takes one key out and leaves the rest as it was, order included.
LEMMA DeleteFacts ==
    ASSUME NEW cache, Coherent(cache), NEW n
    PROVE  /\ Coherent(Delete(cache, n))
           /\ DOMAIN Delete(cache, n).entry = DOMAIN cache.entry \ {n}
           /\ \A m \in DOMAIN cache.entry \ {n} :
                 Delete(cache, n).entry[m] = cache.entry[m]
           /\ Len(Delete(cache, n).order) =
                 IF Has(cache, n) THEN Len(cache.order) - 1 ELSE Len(cache.order)
           /\ \A a, b : Before(Delete(cache, n), a, b) => Before(cache, a, b)
<1>1. CASE ~Has(cache, n)
  BY <1>1, CoherentFacts DEF Delete, Has
<1>2. CASE Has(cache, n)
  <2> DEFINE s == cache.order
             i == CHOOSE j \in DOMAIN s : s[j] = n
             t == Seqs!RemoveAt(s, i)
             e == Fcns!Restrict(cache.entry, DOMAIN cache.entry \ {n})
  <2>1. s \in Seq(Nullifier) /\ DOMAIN s = 1 .. Len(s) /\ Len(s) \in Nat
    BY CoherentFacts
  <2>2. i \in 1 .. Len(s) /\ s[i] = n
    <3>1. \E j \in DOMAIN s : s[j] = n
      BY <1>2, CoherentFacts DEF Has
    <3> QED BY <3>1, <2>1
  <2>3. \A j \in 1 .. Len(s) : s[j] = n => j = i
    BY <2>1, <2>2 DEF Coherent
  <2>4. Delete(cache, n) = [order |-> t, entry |-> e]
    BY <1>2 DEF Delete
  <2> HIDE DEF i
  <2>5. /\ t \in Seq(Nullifier)
        /\ Len(t) = Len(s) - 1
        /\ \A k \in 1 .. Len(s) - 1 : t[k] = IF k < i THEN s[k] ELSE s[k + 1]
    BY <2>1, <2>2, RemoveAtFacts
  <2>6. DOMAIN t = 1 .. Len(s) - 1
    BY <2>5
  <2>7. /\ DOMAIN e = DOMAIN cache.entry \ {n}
        /\ \A m \in DOMAIN cache.entry \ {n} : e[m] = cache.entry[m]
    BY DEF Fcns!Restrict
  <2> DEFINE old(k) == IF k < i THEN k ELSE k + 1
  <2>8. \A k \in DOMAIN t : old(k) \in 1 .. Len(s) /\ old(k) # i /\ t[k] = s[old(k)]
    BY <2>1, <2>2, <2>5, <2>6
  <2>9. \A k, l \in DOMAIN t : (k < l => old(k) < old(l)) /\ (old(k) = old(l) => k = l)
    BY <2>1, <2>2, <2>6
  <2>10. \A j \in 1 .. Len(s) : j # i => \E k \in DOMAIN t : old(k) = j
    <3> SUFFICES ASSUME NEW j \in 1 .. Len(s), j # i
                 PROVE  \E k \in DOMAIN t : old(k) = j
      OBVIOUS
    <3>1. CASE j < i
      BY <3>1, <2>1, <2>2, <2>6
    <3>2. CASE j > i
      <4>1. j - 1 \in DOMAIN t /\ old(j - 1) = j
        BY <3>2, <2>1, <2>2, <2>6
      <4> QED BY <4>1
    <3> QED BY <3>1, <3>2, <2>1, <2>2
  <2> HIDE DEF t, e, old
  <2>11. {t[k] : k \in DOMAIN t} = DOMAIN cache.entry \ {n}
    <3>1. DOMAIN cache.entry = {s[j] : j \in 1 .. Len(s)}
      BY CoherentFacts
    <3>2. ASSUME NEW k \in DOMAIN t PROVE t[k] \in DOMAIN cache.entry \ {n}
      BY <3>1, <2>3, <2>8
    <3>3. ASSUME NEW m \in DOMAIN cache.entry \ {n}
          PROVE  \E k \in DOMAIN t : m = t[k]
      <4>1. PICK j \in 1 .. Len(s) : m = s[j]
        BY <3>1
      <4>2. j # i
        BY <4>1, <2>2
      <4> QED BY <4>1, <4>2, <2>8, <2>10
    <3> QED BY <3>2, <3>3
  <2>12. e \in [{t[k] : k \in DOMAIN t} -> Entry]
    <3>1. e \in [DOMAIN cache.entry \ {n} -> Entry]
      BY <2>7, CoherentFacts DEF e, Fcns!Restrict
    <3> QED BY <3>1, <2>11
  <2>13. \A k, l \in DOMAIN t : t[k] = t[l] => k = l
    BY <2>1, <2>8, <2>9 DEF Coherent
  <2>14. Coherent(Delete(cache, n))
    BY <2>4, <2>5, <2>12, <2>13 DEF Coherent
  <2>15. ASSUME NEW a, NEW b, Before(Delete(cache, n), a, b)
         PROVE  Before(cache, a, b)
    <3>1. PICK k, l \in DOMAIN t : k < l /\ t[k] = a /\ t[l] = b
      BY <2>4, <2>15 DEF Before
    <3> QED BY <3>1, <2>1, <2>8, <2>9 DEF Before
  <2> QED BY <1>2, <2>4, <2>5, <2>7, <2>14, <2>15
<1> QED BY <1>1, <1>2

\* Map.set of a new key makes it the newest.
LEMMA InsertFacts ==
    ASSUME NEW cache, Coherent(cache), NEW n \in Nullifier, NEW e \in Entry,
           ~Has(cache, n)
    PROVE  /\ Coherent(Insert(cache, n, e))
           /\ DOMAIN Insert(cache, n, e).entry = DOMAIN cache.entry \cup {n}
           /\ Insert(cache, n, e).entry[n] = e
           /\ \A m \in DOMAIN cache.entry :
                 Insert(cache, n, e).entry[m] = cache.entry[m]
           /\ Len(Insert(cache, n, e).order) = Len(cache.order) + 1
           /\ \A a, b : Before(Insert(cache, n, e), a, b)
                 => Has(cache, a) /\ (Before(cache, a, b) \/ b = n)
<1> DEFINE s == cache.order
           t == Append(s, n)
           f == [m \in DOMAIN cache.entry \cup {n} |->
                    IF m = n THEN e ELSE cache.entry[m]]
<1>1. Insert(cache, n, e) = [order |-> t, entry |-> f]
  BY DEF Insert
<1>2. s \in Seq(Nullifier) /\ DOMAIN s = 1 .. Len(s) /\ Len(s) \in Nat
  BY CoherentFacts
<1>3. /\ t \in Seq(Nullifier)
      /\ Len(t) = Len(s) + 1
      /\ DOMAIN t = 1 .. Len(s) + 1
      /\ \A k \in 1 .. Len(s) : t[k] = s[k]
      /\ t[Len(s) + 1] = n
  BY <1>2
<1>4. DOMAIN cache.entry = {s[k] : k \in 1 .. Len(s)}
  BY CoherentFacts
<1>5. \A k \in 1 .. Len(s) : s[k] # n /\ Has(cache, s[k])
  BY <1>4 DEF Has
<1>6. f \in [DOMAIN cache.entry \cup {n} -> Entry]
  BY CoherentFacts
<1> HIDE DEF t, f
<1>7. {t[k] : k \in DOMAIN t} = DOMAIN cache.entry \cup {n}
  <2>1. ASSUME NEW k \in DOMAIN t PROVE t[k] \in DOMAIN cache.entry \cup {n}
    BY <1>2, <1>3, <1>4
  <2>2. ASSUME NEW m \in DOMAIN cache.entry \cup {n}
        PROVE  \E k \in DOMAIN t : m = t[k]
    <3>1. CASE m = n
      <4>1. Len(s) + 1 \in DOMAIN t
        BY <1>2, <1>3
      <4> QED BY <4>1, <3>1, <1>3
    <3>2. CASE m \in DOMAIN cache.entry
      BY <3>2, <1>2, <1>3, <1>4
    <3> QED BY <3>1, <3>2
  <2> QED BY <2>1, <2>2
<1>8. \A k, l \in DOMAIN t : t[k] = t[l] => k = l
  <2> SUFFICES ASSUME NEW k \in DOMAIN t, NEW l \in DOMAIN t, t[k] = t[l]
               PROVE  k = l
    OBVIOUS
  <2>1. \A v \in DOMAIN t : v \in 1 .. Len(s) \/ v = Len(s) + 1
    BY <1>2, <1>3
  <2>2. CASE k \in 1 .. Len(s) /\ l \in 1 .. Len(s)
    BY <2>2, <1>2, <1>3 DEF Coherent
  <2>3. CASE ~(k \in 1 .. Len(s) /\ l \in 1 .. Len(s))
    BY <2>1, <2>3, <1>3, <1>5
  <2> QED BY <2>2, <2>3
<1>9. Coherent(Insert(cache, n, e))
  BY <1>1, <1>3, <1>6, <1>7, <1>8 DEF Coherent
<1>10. ASSUME NEW a, NEW b, Before(Insert(cache, n, e), a, b)
       PROVE  Has(cache, a) /\ (Before(cache, a, b) \/ b = n)
  <2>1. PICK k, l \in DOMAIN t : k < l /\ t[k] = a /\ t[l] = b
    BY <1>1, <1>10 DEF Before
  <2>2. k \in 1 .. Len(s) /\ s[k] = a /\ Has(cache, a)
    BY <2>1, <1>2, <1>3, <1>5
  <2>3. CASE l = Len(s) + 1
    BY <2>1, <2>2, <2>3, <1>3
  <2>4. CASE l # Len(s) + 1
    <3>1. l \in 1 .. Len(s) /\ s[l] = b
      BY <2>1, <2>4, <1>2, <1>3
    <3> QED BY <3>1, <2>1, <2>2, <1>2 DEF Before
  <2> QED BY <2>3, <2>4
<1>11. f[n] = e /\ \A m \in DOMAIN cache.entry : f[m] = cache.entry[m]
  BY DEF f, Has
<1>12. DOMAIN f = DOMAIN cache.entry \cup {n}
  BY DEF f
<1> QED BY <1>1, <1>3, <1>9, <1>10, <1>11, <1>12

\* Deleting a key and setting it again promotes it to the newest place.
LEMMA PromoteFacts ==
    ASSUME NEW cache, Coherent(cache), NEW n \in Nullifier, NEW e \in Entry,
           NEW c, c = Insert(Delete(cache, n), n, e)
    PROVE  /\ Coherent(c)
           /\ DOMAIN c.entry = DOMAIN cache.entry \cup {n}
           /\ c.entry[n] = e
           /\ \A m \in DOMAIN cache.entry \ {n} : c.entry[m] = cache.entry[m]
           /\ Len(c.order) =
                 IF Has(cache, n) THEN Len(cache.order) ELSE Len(cache.order) + 1
           /\ \A a, b : Before(c, a, b)
                 => a # n /\ Has(cache, a) /\ (Before(cache, a, b) \/ b = n)
<1> DEFINE d == Delete(cache, n)
<1>1. /\ Coherent(d)
      /\ DOMAIN d.entry = DOMAIN cache.entry \ {n}
      /\ \A m \in DOMAIN cache.entry \ {n} : d.entry[m] = cache.entry[m]
      /\ Len(d.order) =
           IF Has(cache, n) THEN Len(cache.order) - 1 ELSE Len(cache.order)
      /\ \A a, b : Before(d, a, b) => Before(cache, a, b)
  BY DeleteFacts
<1> HIDE DEF d
<1>2. ~Has(d, n)
  BY <1>1 DEF Has
<1>3. /\ Coherent(c)
      /\ DOMAIN c.entry = DOMAIN d.entry \cup {n}
      /\ c.entry[n] = e
      /\ \A m \in DOMAIN d.entry : c.entry[m] = d.entry[m]
      /\ Len(c.order) = Len(d.order) + 1
      /\ \A a, b : Before(c, a, b) => Has(d, a) /\ (Before(d, a, b) \/ b = n)
  BY <1>1, <1>2, InsertFacts DEF d
<1>4. Len(cache.order) \in Nat
  BY CoherentFacts
<1>5. Len(c.order) = IF Has(cache, n) THEN Len(cache.order) ELSE Len(cache.order) + 1
  BY <1>1, <1>3, <1>4
<1>6. \A a : Has(d, a) => a # n /\ Has(cache, a)
  BY <1>1 DEF Has
<1> QED BY <1>1, <1>3, <1>5, <1>6

-----------------------------------------------------------------------------
\* isUsed(n) drops at most n itself, and then only a stale mark.
LEMMA AfterIsUsedFacts ==
    ASSUME NEW cache, Coherent(cache), NEW n \in Nullifier,
           NEW c, c = AfterIsUsed(cache, n)
    PROVE  /\ Coherent(c)
           /\ Len(c.order) <= Len(cache.order)
           /\ DOMAIN c.entry =
                 IF IsUsed(cache, n) THEN DOMAIN cache.entry
                                     ELSE DOMAIN cache.entry \ {n}
           /\ \A m \in DOMAIN c.entry : c.entry[m] = cache.entry[m]
           /\ \A a, b : Before(c, a, b)
                 => IF IsUsed(cache, n)
                    THEN a # n /\ Has(cache, a) /\ (Before(cache, a, b) \/ b = n)
                    ELSE Before(cache, a, b)
<1>1. Len(cache.order) \in Nat
  BY CoherentFacts
<1>2. CASE ~Has(cache, n)
  BY <1>1, <1>2 DEF AfterIsUsed, IsUsed, Has
<1>3. CASE Has(cache, n) /\ Stale(cache.entry[n])
  <2>1. c = Delete(cache, n) /\ ~IsUsed(cache, n)
    BY <1>3 DEF AfterIsUsed, IsUsed
  <2> QED BY <2>1, <1>1, <1>3, DeleteFacts
<1>4. CASE Has(cache, n) /\ ~Stale(cache.entry[n])
  <2>1. c = Insert(Delete(cache, n), n, cache.entry[n]) /\ IsUsed(cache, n)
    BY <1>4 DEF AfterIsUsed, IsUsed
  <2>2. cache.entry[n] \in Entry
    BY <1>4, CoherentFacts DEF Has
  <2>3. DOMAIN cache.entry \cup {n} = DOMAIN cache.entry
    BY <1>4 DEF Has
  <2> HIDE <1>4
  <2>4. Has(cache, n)
    BY <1>4
  <2>5. /\ Coherent(c)
        /\ DOMAIN c.entry = DOMAIN cache.entry \cup {n}
        /\ c.entry[n] = cache.entry[n]
        /\ \A m \in DOMAIN cache.entry \ {n} : c.entry[m] = cache.entry[m]
        /\ Len(c.order) = Len(cache.order)
        /\ \A a, b : Before(c, a, b)
              => a # n /\ Has(cache, a) /\ (Before(cache, a, b) \/ b = n)
    BY <2>1, <2>2, <2>4, PromoteFacts
  <2> QED BY <2>1, <2>3, <2>5, <1>1
<1> QED BY <1>2, <1>3, <1>4

\* The eviction takes the oldest entry, and only when the cache is too full.
LEMMA EvictOldestFacts ==
    ASSUME NEW cache, Coherent(cache), Len(cache.order) <= MaxSize + 1,
           NEW c, c = EvictOldest(cache)
    PROVE  /\ WellFormed(c)
           /\ \A m \in DOMAIN c.entry :
                 m \in DOMAIN cache.entry /\ c.entry[m] = cache.entry[m]
           /\ \A m \in DOMAIN cache.entry \ DOMAIN c.entry :
                 /\ Len(cache.order) = MaxSize + 1
                 /\ \A b \in DOMAIN cache.entry \ {m} : Before(cache, m, b)
           /\ \A a, b : Before(c, a, b) => Before(cache, a, b)
<1>1. Len(cache.order) \in Nat /\ MaxSize \in Nat
  BY CoherentFacts, CacheAssumption
<1>2. CASE ~Overfull(cache)
  BY <1>1, <1>2 DEF EvictOldest, Overfull, WellFormed
<1>3. CASE Overfull(cache)
  <2> DEFINE h == Head(cache.order)
             s == cache.order
  <2>1. Len(s) = MaxSize + 1 /\ Len(s) \in Nat /\ 1 <= Len(s)
    BY <1>1, <1>3 DEF Overfull
  <2>2. s \in Seq(Nullifier) /\ DOMAIN s = 1 .. Len(s)
    BY CoherentFacts
  <2>3. h = s[1] /\ 1 \in DOMAIN s
    BY <2>1, <2>2
  <2>4. DOMAIN cache.entry = {s[k] : k \in 1 .. Len(s)}
    BY CoherentFacts
  <2>5. Has(cache, h)
    BY <2>2, <2>3, <2>4 DEF Has
  <2>6. c = Delete(cache, h)
    BY <1>3 DEF EvictOldest
  <2>7. ASSUME NEW b \in DOMAIN cache.entry \ {h}
        PROVE  Before(cache, h, b)
    <3>1. PICK k \in 1 .. Len(s) : b = s[k]
      BY <2>4
    <3>2. k # 1
      BY <3>1, <2>3
    <3>3. 1 < k
      BY <3>2
    <3> QED BY <3>1, <3>3, <2>2, <2>3 DEF Before
  <2> HIDE DEF h, s
  <2>8. /\ Coherent(c)
        /\ DOMAIN c.entry = DOMAIN cache.entry \ {h}
        /\ \A m \in DOMAIN cache.entry \ {h} : c.entry[m] = cache.entry[m]
        /\ Len(c.order) = Len(cache.order) - 1
        /\ \A a, b : Before(c, a, b) => Before(cache, a, b)
    BY <2>5, <2>6, DeleteFacts
  <2>9. WellFormed(c)
    BY <2>1, <2>8, <1>1 DEF WellFormed, s
  <2> QED BY <2>1, <2>7, <2>8, <2>9 DEF s
<1> QED BY <1>2, <1>3

\* markUsed(n) leaves n in the cache with a fresh unconfirmed entry; it can
\* push out only the one entry that every other entry is newer than.
LEMMA MarkUsedFacts ==
    ASSUME NEW cache, WellFormed(cache), NEW n \in Nullifier,
           NEW c, c = MarkUsed(cache, n)
    PROVE  /\ WellFormed(c)
           /\ Has(c, n) /\ c.entry[n] = FreshEntry
           /\ \A m \in DOMAIN c.entry \ {n} :
                 m \in DOMAIN cache.entry /\ c.entry[m] = cache.entry[m]
           /\ \A m \in DOMAIN cache.entry \ DOMAIN c.entry :
                 /\ Len(cache.order) = MaxSize
                 /\ ~Has(cache, n)
                 /\ \A b \in DOMAIN cache.entry \ {m} : Before(cache, m, b)
           /\ \A a, b : Before(c, a, b)
                 => a # n /\ Has(cache, a) /\ (Before(cache, a, b) \/ b = n)
<1> DEFINE p == Insert(Delete(cache, n), n, FreshEntry)
<1>1. FreshEntry \in Entry
  BY CacheAssumption DEF FreshEntry, Entry, Age
<1>2. Coherent(cache) /\ Len(cache.order) <= MaxSize
  BY DEF WellFormed
<1>3. Len(cache.order) \in Nat /\ MaxSize \in Nat
  BY <1>2, CoherentFacts, CacheAssumption
<1>4. c = EvictOldest(p)
  BY DEF MarkUsed
<1> HIDE DEF p
<1>5. /\ Coherent(p)
      /\ DOMAIN p.entry = DOMAIN cache.entry \cup {n}
      /\ p.entry[n] = FreshEntry
      /\ \A m \in DOMAIN cache.entry \ {n} : p.entry[m] = cache.entry[m]
      /\ Len(p.order) =
           IF Has(cache, n) THEN Len(cache.order) ELSE Len(cache.order) + 1
      /\ \A a, b : Before(p, a, b)
            => a # n /\ Has(cache, a) /\ (Before(cache, a, b) \/ b = n)
  BY <1>1, <1>2, PromoteFacts DEF p
<1>6. Len(p.order) <= MaxSize + 1
  BY <1>2, <1>3, <1>5
<1>7. /\ WellFormed(c)
      /\ \A m \in DOMAIN c.entry :
            m \in DOMAIN p.entry /\ c.entry[m] = p.entry[m]
      /\ \A m \in DOMAIN p.entry \ DOMAIN c.entry :
            /\ Len(p.order) = MaxSize + 1
            /\ \A b \in DOMAIN p.entry \ {m} : Before(p, m, b)
      /\ \A a, b : Before(c, a, b) => Before(p, a, b)
  BY <1>4, <1>5, <1>6, EvictOldestFacts
<1>8. \A m \in DOMAIN p.entry \ DOMAIN c.entry :
          Len(cache.order) = MaxSize /\ ~Has(cache, n)
  BY <1>2, <1>3, <1>5, <1>7
\* n is the newest, so it cannot be the one that is evicted.
<1>9. n \in DOMAIN c.entry
  <2> SUFFICES ASSUME n \notin DOMAIN c.entry PROVE FALSE
    OBVIOUS
  <2>1. /\ n \in DOMAIN p.entry
        /\ Len(cache.order) = MaxSize /\ ~Has(cache, n)
        /\ \A b \in DOMAIN p.entry \ {n} : Before(p, n, b)
    BY <1>5, <1>7, <1>8
  <2>2. 1 \in 1 .. Len(cache.order)
    BY <2>1, <1>3, CacheAssumption
  <2> DEFINE m == cache.order[1]
  <2>3. m \in DOMAIN cache.entry
    <3>1. DOMAIN cache.entry = {cache.order[i] : i \in 1 .. Len(cache.order)}
      BY <1>2, CoherentFacts
    <3> QED BY <2>2, <3>1
  <2> HIDE DEF m
  <2>4. m # n
    BY <2>1, <2>3 DEF Has
  <2>5. Before(cache, n, m)
    BY <2>1, <2>3, <2>4, <1>5
  <2>6. Has(cache, n)
    BY <2>5, <1>2, CoherentFacts DEF Before, Has
  <2> QED BY <2>1, <2>6
<1>10. ASSUME NEW m \in DOMAIN cache.entry \ DOMAIN c.entry,
              NEW b \in DOMAIN cache.entry \ {m}
       PROVE  Before(cache, m, b)
  <2>1. m \in DOMAIN p.entry \ DOMAIN c.entry /\ ~Has(cache, n)
    BY <1>5, <1>8
  <2>2. Before(p, m, b)
    BY <2>1, <1>5, <1>7
  <2>3. b # n
    BY <2>1 DEF Has
  <2> QED BY <2>2, <2>3, <1>5
<1>11. \A m \in DOMAIN c.entry \ {n} :
          m \in DOMAIN cache.entry /\ c.entry[m] = cache.entry[m]
  BY <1>5, <1>7
<1>12. \A m \in DOMAIN cache.entry \ DOMAIN c.entry :
          Len(cache.order) = MaxSize /\ ~Has(cache, n)
  BY <1>5, <1>8
<1>13. \A a, b : Before(c, a, b)
          => a # n /\ Has(cache, a) /\ (Before(cache, a, b) \/ b = n)
  BY <1>5, <1>7
<1>14. c.entry[n] = FreshEntry
  BY <1>5, <1>7, <1>9
<1> QED BY <1>7, <1>9, <1>10, <1>11, <1>12, <1>13, <1>14 DEF Has

\* tryMarkUsed(n) leaves n in the cache whatever it answers.
LEMMA TryMarkUsedFacts ==
    ASSUME NEW cache, WellFormed(cache), NEW n \in Nullifier,
           NEW c, c = TryMarkUsed(cache, n)
    PROVE  /\ WellFormed(c)
           /\ Has(c, n)
           /\ c.entry[n] = IF IsUsed(cache, n) THEN cache.entry[n] ELSE FreshEntry
           /\ \A m \in DOMAIN c.entry \ {n} :
                 m \in DOMAIN cache.entry /\ c.entry[m] = cache.entry[m]
           /\ \A m \in (DOMAIN cache.entry \ {n}) \ DOMAIN c.entry :
                 /\ Len(AfterIsUsed(cache, n).order) = MaxSize
                 /\ \A b \in DOMAIN cache.entry \ {m, n} : Before(cache, m, b)
           /\ \A a, b : Before(c, a, b)
                 => a # n /\ Has(cache, a) /\ (Before(cache, a, b) \/ b = n)
<1> DEFINE p == AfterIsUsed(cache, n)
<1>1. Coherent(cache) /\ Len(cache.order) <= MaxSize
  BY DEF WellFormed
<1>2. Len(cache.order) \in Nat /\ MaxSize \in Nat
  BY <1>1, CoherentFacts, CacheAssumption
<1>3. /\ Coherent(p)
      /\ Len(p.order) <= Len(cache.order)
      /\ DOMAIN p.entry = IF IsUsed(cache, n) THEN DOMAIN cache.entry
                                              ELSE DOMAIN cache.entry \ {n}
      /\ \A m \in DOMAIN p.entry : p.entry[m] = cache.entry[m]
      /\ \A a, b : Before(p, a, b)
            => IF IsUsed(cache, n)
               THEN a # n /\ Has(cache, a) /\ (Before(cache, a, b) \/ b = n)
               ELSE Before(cache, a, b)
  BY <1>1, AfterIsUsedFacts
<1> HIDE DEF p
<1>4. WellFormed(p)
  <2>1. Len(p.order) \in Nat
    BY <1>3, CoherentFacts
  <2> QED BY <2>1, <1>1, <1>2, <1>3 DEF WellFormed
<1>5. CASE IsUsed(cache, n)
  <2>1. c = p
    BY <1>5 DEF TryMarkUsed, p
  <2>2. n \in DOMAIN p.entry
    BY <1>3, <1>5 DEF IsUsed, Has
  <2> QED BY <1>3, <1>4, <1>5, <2>1, <2>2 DEF Has
<1>6. CASE ~IsUsed(cache, n)
  <2>1. c = MarkUsed(p, n)
    BY <1>6 DEF TryMarkUsed, p
  <2>2. /\ WellFormed(c)
        /\ Has(c, n) /\ c.entry[n] = FreshEntry
        /\ \A m \in DOMAIN c.entry \ {n} :
              m \in DOMAIN p.entry /\ c.entry[m] = p.entry[m]
        /\ \A m \in DOMAIN p.entry \ DOMAIN c.entry :
              /\ Len(p.order) = MaxSize
              /\ ~Has(p, n)
              /\ \A b \in DOMAIN p.entry \ {m} : Before(p, m, b)
        /\ \A a, b : Before(c, a, b)
              => a # n /\ Has(p, a) /\ (Before(p, a, b) \/ b = n)
    BY <1>4, <2>1, MarkUsedFacts
  <2>3. DOMAIN p.entry = DOMAIN cache.entry \ {n}
    BY <1>3, <1>6
  <2>4. \A a, b : Before(p, a, b) => Before(cache, a, b)
    BY <1>3, <1>6
  <2>5. \A a, b : Before(c, a, b)
            => a # n /\ Has(cache, a) /\ (Before(cache, a, b) \/ b = n)
    BY <2>2, <2>3, <2>4 DEF Has
  <2>6. ASSUME NEW m \in (DOMAIN cache.entry \ {n}) \ DOMAIN c.entry
        PROVE  /\ Len(p.order) = MaxSize
               /\ \A b \in DOMAIN cache.entry \ {m, n} : Before(cache, m, b)
    BY <2>2, <2>3, <2>4
  <2>7. \A m \in DOMAIN c.entry \ {n} :
            m \in DOMAIN cache.entry /\ c.entry[m] = cache.entry[m]
    BY <2>2, <2>3, <1>3
  <2> QED BY <1>6, <2>2, <2>5, <2>6, <2>7 DEF p
<1> QED BY <1>5, <1>6

\* confirmUsed(n) changes one bit of an entry that is there, nothing else.
LEMMA ConfirmUsedFacts ==
    ASSUME NEW cache, WellFormed(cache), NEW n,
           NEW c, c = ConfirmUsed(cache, n)
    PROVE  /\ WellFormed(c)
           /\ c.order = cache.order
           /\ DOMAIN c.entry = DOMAIN cache.entry
           /\ \A m \in DOMAIN cache.entry \ {n} : c.entry[m] = cache.entry[m]
           /\ Has(cache, n)
                 => c.entry[n] = [age |-> cache.entry[n].age, confirmed |-> TRUE]
<1>1. Coherent(cache)
  BY DEF WellFormed
<1>2. CASE ~Has(cache, n)
  BY <1>2 DEF ConfirmUsed, Has
<1>3. CASE Has(cache, n)
  <2> DEFINE f == [cache.entry EXCEPT ![n].confirmed = TRUE]
  <2>1. c = [order |-> cache.order, entry |-> f]
    BY <1>3 DEF ConfirmUsed
  <2>2. cache.entry[n] \in [age : Age, confirmed : BOOLEAN]
    BY <1>1, <1>3, CoherentFacts DEF Has, Entry
  <2>3. f[n] = [age |-> cache.entry[n].age, confirmed |-> TRUE]
    BY <1>3, <2>2 DEF Has
  <2>4. DOMAIN f = DOMAIN cache.entry
        /\ \A m \in DOMAIN cache.entry \ {n} : f[m] = cache.entry[m]
    BY <1>3 DEF Has
  <2>5. f[n] \in Entry
    <3>1. cache.entry[n].age \in Age
      BY <2>2
    <3> HIDE DEF f
    <3> QED BY <3>1, <2>3, EntryFacts
  <2>6. f \in [DOMAIN cache.entry -> Entry]
    BY <2>4, <2>5, <1>1, CoherentFacts
  <2> HIDE DEF f
  <2>7. WellFormed(c)
    BY <1>1, <2>1, <2>6 DEF WellFormed, Coherent
  <2> QED BY <2>1, <2>3, <2>4, <2>7
<1> QED BY <1>2, <1>3

LEMMA OlderType == \A age \in Age : Older(age) \in Age
BY CacheAssumption DEF Age, Older

\* The passing of time changes ages only.
LEMMA ElapseFacts ==
    ASSUME NEW cache, WellFormed(cache)
    PROVE  /\ WellFormed(Elapse(cache))
           /\ Elapse(cache).order = cache.order
           /\ DOMAIN Elapse(cache).entry = DOMAIN cache.entry
           /\ \A m \in DOMAIN cache.entry :
                 Elapse(cache).entry[m] =
                   [age |-> Older(cache.entry[m].age),
                    confirmed |-> cache.entry[m].confirmed]
<1> DEFINE f == Elapse(cache).entry
<1>1. Coherent(cache)
  BY DEF WellFormed
<1>2. \A m \in DOMAIN cache.entry : cache.entry[m] \in [age : Age, confirmed : BOOLEAN]
  BY <1>1, CoherentFacts DEF Entry
<1>3. /\ DOMAIN f = DOMAIN cache.entry
      /\ \A m \in DOMAIN cache.entry :
            f[m] = [age |-> Older(cache.entry[m].age),
                    confirmed |-> cache.entry[m].confirmed]
  BY <1>2 DEF Elapse
<1>4. f \in [DOMAIN cache.entry -> Entry]
  <2>1. f = [m \in DOMAIN cache.entry |-> f[m]]
    BY DEF Elapse
  <2> HIDE DEF f
  <2>2. ASSUME NEW m \in DOMAIN cache.entry PROVE f[m] \in Entry
    <3>1. Older(cache.entry[m].age) \in Age /\ cache.entry[m].confirmed \in BOOLEAN
      BY <1>1, CoherentFacts, EntryFacts, OlderType
    <3> QED BY <3>1, <1>3, EntryFacts
  <2> QED BY <2>1, <2>2
<1>5. Elapse(cache).order = cache.order
  BY DEF Elapse
<1>6. WellFormed(Elapse(cache))
  <2> HIDE DEF f
  <2> QED BY <1>1, <1>4, <1>5 DEF WellFormed, Coherent, f
<1> QED BY <1>3, <1>5, <1>6
=============================================================================
