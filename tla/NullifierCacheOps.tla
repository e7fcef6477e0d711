-------------------------- MODULE NullifierCacheOps --------------------------
(***************************************************************************)
(* The nullifier cache of src/nullifier-cache.ts as a value, and what each *)
(* of its methods makes of it.                                             *)
(*                                                                         *)
(* The class keeps one JavaScript Map.  A Map iterates in insertion order  *)
(* and the class deletes and re-inserts a key to promote it, so the Map is *)
(* two things at once: a finite function from nullifiers to entries, and a *)
(* recency order whose head is the next key to evict.                      *)
(*                                                                         *)
(* An entry's markedAt timestamp is kept as the time elapsed since then,   *)
(* counted in units of the clock and saturating just past the timeout: the *)
(* code only ever compares Date.now() - markedAt with timeoutMs.           *)
(***************************************************************************)
EXTENDS Naturals, Sequences
Fcns == INSTANCE Functions
Seqs == INSTANCE SequencesExt

CONSTANTS Nullifier,   \* the nullifiers a session may meet
          MaxSize,     \* constructor argument maxSize
          TimeoutMs    \* constructor argument timeoutMs, in clock units

\* The constructor throws unless maxSize is a positive integer and timeoutMs
\* a positive number.
ASSUME CacheAssumption == /\ MaxSize \in Nat \ {0}
                          /\ TimeoutMs \in Nat \ {0}

Age   == 0 .. TimeoutMs + 1
Entry == [age : Age, confirmed : BOOLEAN]

\* The two views of the Map agree and no key occurs twice.
Coherent(cache) ==
    /\ cache.order \in Seq(Nullifier)
    /\ cache.entry \in [{cache.order[i] : i \in DOMAIN cache.order} -> Entry]
    /\ \A i, j \in DOMAIN cache.order : cache.order[i] = cache.order[j] => i = j

WellFormed(cache) == Coherent(cache) /\ Len(cache.order) <= MaxSize

EmptyCache == [order |-> << >>, entry |-> << >>]

Has(cache, n) == n \in DOMAIN cache.entry

\* Mutant: the negation of "!entry.confirmed" is lost.
StaleIfConfirmed(e) == e.confirmed /\ e.age > TimeoutMs

\* "Unconfirmed entries expire after timeoutMs": strictly more than timeoutMs.
Stale(e) == ~e.confirmed /\ e.age > TimeoutMs

\* The value isUsed(n) returns.
IsUsed(cache, n) == Has(cache, n) /\ ~Stale(cache.entry[n])

-----------------------------------------------------------------------------
\* Map.delete(n)
Delete(cache, n) ==
    IF Has(cache, n)
    THEN LET i == CHOOSE j \in DOMAIN cache.order : cache.order[j] = n
         IN  [order |-> Seqs!RemoveAt(cache.order, i),
              entry |-> Fcns!Restrict(cache.entry, DOMAIN cache.entry \ {n})]
    ELSE cache

\* Map.set(n, e) of a key that is not in the Map: it becomes the newest.
Insert(cache, n, e) ==
    [order |-> Append(cache.order, n),
     entry |-> [m \in DOMAIN cache.entry \cup {n} |->
                   IF m = n THEN e ELSE cache.entry[m]]]

\* Mutant: isUsed(n) answers without touching the Map.
AfterIsUsedUnpromoted(cache, n) == cache

\* Mutant: the promotion stores a new entry in place of the old one.
AfterIsUsedRefreshing(cache, n) ==
    IF ~Has(cache, n)              THEN cache
    ELSE IF Stale(cache.entry[n])  THEN Delete(cache, n)
    ELSE Insert(Delete(cache, n), n, [age |-> 0, confirmed |-> cache.entry[n].confirmed])

\* What isUsed(n) leaves behind: an expired entry is dropped, a live one is
\* promoted with its entry object unchanged.
AfterIsUsed(cache, n) ==
    IF ~Has(cache, n)              THEN cache
    ELSE IF Stale(cache.entry[n])  THEN Delete(cache, n)
    ELSE Insert(Delete(cache, n), n, cache.entry[n])

Overfull(cache) == Len(cache.order) > MaxSize

\* Mutant: the size is never checked.
EvictNothing(cache) == cache

\* "const oldest = this.used.keys().next().value"
EvictOldest(cache) ==
    IF Overfull(cache) THEN Delete(cache, Head(cache.order)) ELSE cache

FreshEntry == [age |-> 0, confirmed |-> FALSE]

MarkUsed(cache, n) == EvictOldest(Insert(Delete(cache, n), n, FreshEntry))

\* tryMarkUsed(n): the check and the mark with nothing in between.
TryMarkUsed(cache, n) ==
    IF IsUsed(cache, n) THEN AfterIsUsed(cache, n)
                        ELSE MarkUsed(AfterIsUsed(cache, n), n)

\* confirmUsed(n) mutates the entry in place: no promotion, and nothing at
\* all when the entry is gone.
ConfirmUsed(cache, n) ==
    IF Has(cache, n)
    THEN [order |-> cache.order,
          entry |-> [cache.entry EXCEPT ![n].confirmed = TRUE]]
    ELSE cache

Remove(cache, n) == Delete(cache, n)

-----------------------------------------------------------------------------
Older(age) == IF age > TimeoutMs THEN age ELSE age + 1

\* One unit of time passes: every entry is that much older.
Elapse(cache) ==
    [order |-> cache.order,
     entry |-> [m \in DOMAIN cache.entry |->
                   [cache.entry[m] EXCEPT !.age = Older(@)]]]
=============================================================================
