---------------------------- MODULE NullifierCache ----------------------------
(***************************************************************************)
(* One instance of class NullifierCache (src/nullifier-cache.ts) used by   *)
(* any sequence of calls of its public methods while time passes.          *)
(*                                                                         *)
(* Two history variables say what the cache ought to know:                 *)
(*   registry  the same facts without a capacity: what was marked, how     *)
(*             long ago, and whether it was confirmed;                     *)
(*   since     for each nullifier, which others were used after it.        *)
(***************************************************************************)
EXTENDS NullifierCacheOps, FiniteSets

VARIABLES cache, registry, since

vars == <<cache, registry, since>>

Unmarked == [age |-> 0, confirmed |-> FALSE, marked |-> FALSE]
Marked   == [age |-> 0, confirmed |-> FALSE, marked |-> TRUE]
Confirmed(r) == [age |-> r.age, confirmed |-> TRUE, marked |-> r.marked]
Aged(r) == [age |-> Older(r.age), confirmed |-> r.confirmed, marked |-> r.marked]

\* A nullifier counts as used when it was confirmed, or marked no longer than
\* TimeoutMs ago.
Known(n) == /\ registry[n].marked
            /\ registry[n].confirmed \/ registry[n].age <= TimeoutMs

TypeOK == /\ WellFormed(cache)
          /\ registry \in [Nullifier ->
                             [age : Age, confirmed : BOOLEAN, marked : BOOLEAN]]
          /\ since \in [Nullifier -> SUBSET Nullifier]

Init == /\ cache = EmptyCache
        /\ registry = [n \in Nullifier |-> Unmarked]
        /\ since = [n \in Nullifier |-> {}]

-----------------------------------------------------------------------------
\* The bookkeeping of the history variables.
Touch(n)  == since' = [m \in Nullifier |-> IF m = n THEN {} ELSE since[m] \cup {n}]
SetRegistry(n, r) == registry' = [registry EXCEPT ![n] = r]

\* isUsed(n): a hit promotes n; asking about an expired mark forgets it.
AskUsed(n) ==
    /\ cache' = AfterIsUsed(cache, n)
    /\ IF IsUsed(cache, n) THEN Touch(n) ELSE UNCHANGED since
    /\ IF Known(n) THEN UNCHANGED registry ELSE SetRegistry(n, Unmarked)

\* tryMarkUsed(n)
TryMark(n) ==
    /\ cache' = TryMarkUsed(cache, n)
    /\ Touch(n)
    /\ IF IsUsed(cache, n) THEN UNCHANGED registry ELSE SetRegistry(n, Marked)

\* markUsed(n)
Mark(n) ==
    /\ cache' = MarkUsed(cache, n)
    /\ Touch(n)
    /\ SetRegistry(n, Marked)

\* confirmUsed(n)
Confirm(n) ==
    /\ cache' = ConfirmUsed(cache, n)
    /\ IF registry[n].marked
       THEN SetRegistry(n, Confirmed(registry[n]))
       ELSE UNCHANGED registry
    /\ UNCHANGED since

\* remove(n)
Forget(n) ==
    /\ cache' = Remove(cache, n)
    /\ SetRegistry(n, Unmarked)
    /\ UNCHANGED since

\* clear()
Clear ==
    /\ cache' = EmptyCache
    /\ registry' = [n \in Nullifier |-> Unmarked]
    /\ UNCHANGED since

\* One unit of Date.now().
Tick ==
    /\ cache' = Elapse(cache)
    /\ registry' = [n \in Nullifier |->
                      IF registry[n].marked THEN Aged(registry[n]) ELSE registry[n]]
    /\ UNCHANGED since

Next == \/ \E n \in Nullifier : \/ AskUsed(n) \/ TryMark(n) \/ Mark(n)
                                \/ Confirm(n) \/ Forget(n)
        \/ Clear
        \/ Tick

Spec == Init /\ [][Next]_vars

-----------------------------------------------------------------------------
(***************************************************************************)
(* The cache never blocks a nullifier that ought to be free: whatever mix  *)
(* of queries, promotions and confirmations happened, isUsed answers true  *)
(* only for a nullifier that was confirmed or was marked within the        *)
(* timeout.  Polling isUsed must not keep an abandoned mark alive.         *)
(***************************************************************************)
NeverOverblocks == \A n \in Nullifier : IsUsed(cache, n) => Known(n)

(***************************************************************************)
(* The least-recently-used guarantee: a nullifier that ought to be blocked *)
(* is let through only when at least MaxSize other nullifiers were used    *)
(* after it.  A session that keeps fewer nullifiers in rotation never      *)
(* forgets one of them early.                                              *)
(***************************************************************************)
ForgetsOnlyUnderPressure ==
    \A n \in Nullifier :
        Known(n) /\ ~IsUsed(cache, n) => Cardinality(since[n]) >= MaxSize
=============================================================================
