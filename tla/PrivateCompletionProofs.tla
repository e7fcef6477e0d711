------------------------ MODULE PrivateCompletionProofs ------------------------
(***************************************************************************)
(* What the nullifier guard of completeTaskPrivateWithPreflight ensures,   *)
(* for any number of concurrent calls and nullifiers and for every         *)
(* capacity and timeout of the cache.                                      *)
(***************************************************************************)
EXTENDS PrivateCompletion, NullifierCacheOpsProofs

\* Every step of a call moves that call's phase and no other's.
LEMMA GotoFacts ==
    ASSUME phase \in [Call -> Phase], NEW c \in Call, NEW p \in Phase, Goto(c, p)
    PROVE  /\ phase' \in [Call -> Phase]
           /\ phase'[c] = p
           /\ \A d \in Call \ {c} : phase'[d] = phase[d]
BY DEF Goto

\* isUsed and markUsed one after the other, when isUsed answers false.
LEMMA FreshMarkFacts ==
    ASSUME NEW old, WellFormed(old), NEW n \in Nullifier, ~IsUsed(old, n)
    PROVE  LET new == MarkUsed(AfterIsUsed(old, n), n)
           IN  /\ WellFormed(new)
               /\ Has(new, n)
               /\ new.entry[n] = FreshEntry
               /\ \A m \in DOMAIN new.entry \ {n} :
                     m \in DOMAIN old.entry /\ new.entry[m] = old.entry[m]
<1> DEFINE new == MarkUsed(AfterIsUsed(old, n), n)
<1>1. new = TryMarkUsed(old, n)
  BY DEF TryMarkUsed
<1> HIDE DEF new
<1>2. /\ WellFormed(new)
      /\ Has(new, n)
      /\ new.entry[n] = IF IsUsed(old, n) THEN old.entry[n] ELSE FreshEntry
      /\ \A m \in DOMAIN new.entry \ {n} :
            m \in DOMAIN old.entry /\ new.entry[m] = old.entry[m]
  BY <1>1, TryMarkUsedFacts
<1> QED BY <1>2 DEF new

LEMMA RefusalFacts ==
    ASSUME NEW old, WellFormed(old), NEW n \in Nullifier, IsUsed(old, n)
    PROVE  /\ WellFormed(AfterIsUsed(old, n))
           /\ DOMAIN AfterIsUsed(old, n).entry = DOMAIN old.entry
           /\ \A m \in DOMAIN old.entry :
                 AfterIsUsed(old, n).entry[m] = old.entry[m]
<1> DEFINE new == AfterIsUsed(old, n)
<1>1. Coherent(old) /\ Len(old.order) <= MaxSize
  BY DEF WellFormed
<1>2. /\ Coherent(new)
      /\ Len(new.order) <= Len(old.order)
      /\ DOMAIN new.entry = IF IsUsed(old, n) THEN DOMAIN old.entry
                                              ELSE DOMAIN old.entry \ {n}
      /\ \A m \in DOMAIN new.entry : new.entry[m] = old.entry[m]
  BY <1>1, AfterIsUsedFacts
<1> HIDE DEF new
<1>3. Len(new.order) \in Nat /\ Len(old.order) \in Nat /\ MaxSize \in Nat
  BY <1>1, <1>2, CoherentFacts, CacheAssumption
<1>4. WellFormed(new)
  BY <1>1, <1>2, <1>3 DEF WellFormed
<1> QED BY <1>2, <1>4 DEF new

LEMMA RemoveFacts ==
    ASSUME NEW old, WellFormed(old), NEW n
    PROVE  /\ WellFormed(Remove(old, n))
           /\ DOMAIN Remove(old, n).entry = DOMAIN old.entry \ {n}
           /\ \A m \in DOMAIN old.entry \ {n} :
                 Remove(old, n).entry[m] = old.entry[m]
<1> DEFINE new == Delete(old, n)
<1>1. Coherent(old) /\ Len(old.order) <= MaxSize
  BY DEF WellFormed
<1>2. /\ Coherent(new)
      /\ DOMAIN new.entry = DOMAIN old.entry \ {n}
      /\ \A m \in DOMAIN old.entry \ {n} : new.entry[m] = old.entry[m]
      /\ Len(new.order) = IF Has(old, n) THEN Len(old.order) - 1 ELSE Len(old.order)
  BY <1>1, DeleteFacts
<1> HIDE DEF new
<1>3. Len(old.order) \in Nat /\ MaxSize \in Nat
  BY <1>1, CoherentFacts, CacheAssumption
<1>4. WellFormed(new)
  BY <1>1, <1>2, <1>3 DEF WellFormed
<1> QED BY <1>2, <1>4 DEF new, Remove

-----------------------------------------------------------------------------
\* The three ways a running call can move, each of which several actions share.
Fails(c)    == phase[c] \in Running /\ Rollback(c)
Advances(c) == /\ phase[c] \in Running
               /\ \E p \in Running : Goto(c, p)
               /\ UNCHANGED <<cache, callVars, spentBy, breached>>
Succeeds(c) == ConfirmReturns(c)
ChainMoves  == UNCHANGED <<cache, phase, callVars, breached>>

LEMMA CallSteps ==
    ASSUME NEW c \in Call, CallStep(c)
    PROVE  Refuse(c) \/ Begin(c) \/ Fails(c) \/ Advances(c) \/ Succeeds(c)
<1>1. CASE PreflightPasses(c)
  BY <1>1 DEF PreflightPasses, Advances, Running
<1>2. CASE PreflightFails(c) \/ SubmitFails(c) \/ RpcThrows(c) \/ ConfirmThrows(c)
  BY <1>2 DEF PreflightFails, SubmitFails, RpcThrows, ConfirmThrows, Fails, Running
<1>3. CASE Send(c)
  BY <1>3 DEF Send, Advances, Running
<1>4. CASE RpcReturns(c)
  BY <1>4 DEF RpcReturns, Advances, Running
<1>5. CASE ReadsUnspent(c)
  BY <1>5 DEF ReadsUnspent, Advances, Running
<1> QED BY <1>1, <1>2, <1>3, <1>4, <1>5 DEF CallStep, Succeeds

LEMMA InitTypeOK == Init => TypeOK
BY EmptyCacheFacts DEF Init, TypeOK, Phase, TxFate

LEMMA NextTypeOK == TypeOK /\ [Next]_vars => TypeOK'
<1> SUFFICES ASSUME TypeOK, [Next]_vars PROVE TypeOK'
  OBVIOUS
<1> USE DEF TypeOK
<1>1. Running \subseteq Phase /\ {"idle", "returned", "threw", "lost"} \subseteq Phase
  BY DEF Running, Phase
<1>2. ASSUME NEW c \in Call, NEW p \in Phase, Goto(c, p)
      PROVE  phase' \in [Call -> Phase]
  BY <1>2, GotoFacts
<1>3. ASSUME NEW c \in Call, CallStep(c) PROVE tx' \in [Call -> TxFate]
  BY <1>3 DEF CallStep, Refuse, Begin, ReadsUnspent, PreflightPasses, PreflightFails, SubmitFails,
              Send, RpcThrows, RpcReturns, ConfirmThrows, ConfirmReturns, Rollback,
              TxFate
<1>4. ASSUME NEW c \in Call, Refuse(c) PROVE TypeOK'
  <2>1. phase' \in [Call -> Phase]
    BY <1>1, <1>2, <1>4 DEF Refuse
  <2>2. WellFormed(cache')
    BY <1>4, RefusalFacts DEF Refuse
  <2> QED BY <1>4, <2>1, <2>2 DEF Refuse
<1>5. ASSUME NEW c \in Call, Begin(c) PROVE TypeOK'
  <2>1. PICK useCache \in CacheModes, preflight \in PreflightModes :
          /\ Goto(c, IF preflight THEN "preflight" ELSE "submit")
          /\ IF useCache
             THEN /\ ~IsUsed(cache, seed[c])
                  /\ cache' = MarkUsed(AfterIsUsed(cache, seed[c]), seed[c])
                  /\ cached' = cached \cup {c}
                  /\ breached' = breached \cup Expired(seed[c]) \cup Evicted(seed[c])
             ELSE UNCHANGED <<cache, cached, breached>>
    BY <1>5 DEF Begin
  <2>2. (IF preflight THEN "preflight" ELSE "submit") \in Phase
    BY DEF Running, Phase
  <2>3. phase' \in [Call -> Phase]
    BY <1>2, <2>1, <2>2
  <2>4. session' = session \cup {c} /\ UNCHANGED <<seed, tx, spentBy>>
    BY <1>5 DEF Begin
  <2>5. CASE useCache
    <3>1. WellFormed(cache')
      BY <2>1, <2>5, FreshMarkFacts
    <3>2. Expired(seed[c]) \subseteq Nullifier /\ Evicted(seed[c]) \subseteq Nullifier
      BY DEF Expired, Evicted
    <3> QED BY <2>1, <2>3, <2>4, <2>5, <3>1, <3>2
  <2>6. CASE ~useCache
    BY <2>1, <2>3, <2>4, <2>6
  <2> QED BY <2>5, <2>6
<1>6. ASSUME NEW c \in Call, Fails(c), tx' \in [Call -> TxFate] PROVE TypeOK'
  <2>1. phase' \in [Call -> Phase]
    BY <1>1, <1>2, <1>6 DEF Fails, Rollback
  <2>2. WellFormed(cache')
    BY <1>6, RemoveFacts DEF Fails, Rollback
  <2> QED BY <1>6, <2>1, <2>2 DEF Fails, Rollback, callVars
<1>7. ASSUME NEW c \in Call, Advances(c), tx' \in [Call -> TxFate] PROVE TypeOK'
  <2>1. phase' \in [Call -> Phase]
    BY <1>1, <1>2, <1>7 DEF Advances
  <2> QED BY <1>7, <2>1 DEF Advances, callVars
<1>8. ASSUME NEW c \in Call, Succeeds(c) PROVE TypeOK'
  <2>1. phase' \in [Call -> Phase]
    BY <1>1, <1>2, <1>8 DEF Succeeds, ConfirmReturns
  <2>2. WellFormed(cache')
    BY <1>8, ConfirmUsedFacts DEF Succeeds, ConfirmReturns
  <2> QED BY <1>8, <2>1, <2>2 DEF Succeeds, ConfirmReturns, callVars
<1>9. ASSUME NEW c \in Call, ChainStep(c) PROVE TypeOK'
  BY <1>9 DEF ChainStep, Land, Miss, callVars, TxFate
<1>10. CASE Restart
  <2>1. phase' \in [Call -> Phase]
    BY <1>1, <1>10 DEF Restart
  <2> QED BY <1>10, <2>1, EmptyCacheFacts DEF Restart
<1>11. CASE Tick
  <2>1. WellFormed(cache')
    BY <1>11, ElapseFacts DEF Tick
  <2> QED BY <1>11, <2>1 DEF Tick, callVars
<1>12. CASE UNCHANGED vars
  BY <1>12 DEF vars
<1> QED BY <1>3, <1>4, <1>5, <1>6, <1>7, <1>8, <1>9, <1>10, <1>11, <1>12, CallSteps
        DEF Next

(***************************************************************************)
(* The cache stays well formed and within its capacity under any           *)
(* interleaving of calls, failures, restarts and time.                     *)
(***************************************************************************)
THEOREM CompletionTypeCorrect == Spec => []TypeOK
BY InitTypeOK, NextTypeOK, PTL DEF Spec

-----------------------------------------------------------------------------
(***************************************************************************)
(* The guard.  While the mark of n was neither evicted nor outlived,       *)
(* Guarded(n) ties the calls to the entry: a running call is the only one  *)
(* and its entry is there; after a success the entry is there, confirmed,  *)
(* and no call runs that could take it out again.                          *)
(***************************************************************************)
Guarded(n) ==
    /\ \A c \in Call : Holds(c, n) => /\ Has(cache, n)
                                      /\ \A d \in Call : Holds(d, n) => d = c
    /\ \A c \in session \cap cached :
          phase[c] = "returned" /\ seed[c] = n =>
              /\ Has(cache, n)
              /\ cache.entry[n].confirmed
              /\ \A d \in Call : ~Holds(d, n)

GuardInv == /\ \A n \in Nullifier \ breached : Guarded(n)
            /\ \A c \in cached : phase[c] # "idle"

LEMMA GuardInit == Init => GuardInv
BY DEF Init, GuardInv, Guarded, Holds, Running

\* A confirmed entry blocks its nullifier.
LEMMA ConfirmedIsUsed ==
    ASSUME NEW n, Has(cache, n), cache.entry[n].confirmed
    PROVE  IsUsed(cache, n)
BY DEF IsUsed, Stale

LEMMA GuardStep == TypeOK /\ GuardInv /\ [Next]_vars => GuardInv'
<1> SUFFICES ASSUME TypeOK, GuardInv, [Next]_vars PROVE GuardInv'
  OBVIOUS
<1>1. /\ WellFormed(cache)
      /\ phase \in [Call -> Phase]
      /\ seed \in [Call -> Nullifier]
      /\ cached \subseteq Call /\ session \subseteq Call
  BY DEF TypeOK
<1>2. /\ \A n \in Nullifier \ breached : Guarded(n)
      /\ \A c \in cached : phase[c] # "idle"
  BY DEF GuardInv
<1>3. /\ Running \subseteq Phase
      /\ {"idle", "returned", "threw", "lost"} \subseteq Phase
      /\ \A p \in Running : p \notin {"idle", "returned", "threw", "lost"}
  BY DEF Running, Phase
<1>4. ASSUME NEW c \in Call, NEW p \in Phase, Goto(c, p), seed' = seed,
             cached' \in {cached, cached \cup {c}}
      PROVE  /\ phase'[c] = p
             /\ \A d \in Call \ {c} : phase'[d] = phase[d]
             /\ \A d \in Call \ {c}, n \in Nullifier : Holds(d, n)' <=> Holds(d, n)
             /\ p \notin Running => \A n \in Nullifier : ~Holds(c, n)'
             /\ p \in Running => \A n \in Nullifier :
                                    Holds(c, n)' <=> c \in cached' /\ seed[c] = n
  BY <1>1, <1>4, GotoFacts DEF Holds
<1>5. ASSUME NEW c \in Call, Refuse(c) PROVE GuardInv'
  <2>1. /\ Goto(c, "threw") /\ seed' = seed /\ cached' = cached \cup {c}
        /\ session' = session \cup {c} /\ breached' = breached
        /\ cache' = AfterIsUsed(cache, seed[c]) /\ IsUsed(cache, seed[c])
    BY <1>5 DEF Refuse
  <2>2. "threw" \in Phase /\ "threw" \notin Running
    BY <1>3
  <2>3. /\ phase'[c] = "threw"
        /\ \A d \in Call \ {c} : phase'[d] = phase[d]
        /\ \A d \in Call \ {c}, n \in Nullifier : Holds(d, n)' <=> Holds(d, n)
        /\ \A n \in Nullifier : ~Holds(c, n)'
    BY <1>4, <2>1, <2>2
  <2>4. /\ DOMAIN cache'.entry = DOMAIN cache.entry
        /\ \A m \in DOMAIN cache.entry : cache'.entry[m] = cache.entry[m]
    BY <1>1, <2>1, RefusalFacts
  <2>5. ASSUME NEW n \in Nullifier \ breached PROVE Guarded(n)'
    BY <1>1, <1>2, <2>1, <2>3, <2>4 DEF Guarded, Has
  <2> QED BY <1>1, <1>2, <2>1, <2>3, <2>5 DEF GuardInv
<1>6. ASSUME NEW c \in Call, Begin(c) PROVE GuardInv'
  <2>1. PICK useCache \in CacheModes, preflight \in PreflightModes :
          /\ Goto(c, IF preflight THEN "preflight" ELSE "submit")
          /\ IF useCache
             THEN /\ ~IsUsed(cache, seed[c])
                  /\ cache' = MarkUsed(AfterIsUsed(cache, seed[c]), seed[c])
                  /\ cached' = cached \cup {c}
                  /\ breached' = breached \cup Expired(seed[c]) \cup Evicted(seed[c])
             ELSE UNCHANGED <<cache, cached, breached>>
    BY <1>6 DEF Begin
  <2> DEFINE p == IF preflight THEN "preflight" ELSE "submit"
  <2>2. p \in Running
    BY DEF Running
  <2> HIDE DEF p
  <2>3. session' = session \cup {c} /\ seed' = seed /\ phase[c] = "idle"
    BY <1>6 DEF Begin
  <2>4. Goto(c, p) /\ p \in Phase /\ cached' \in {cached, cached \cup {c}}
    BY <1>3, <2>1, <2>2 DEF p
  <2>5. /\ phase'[c] = p
        /\ \A d \in Call \ {c} : phase'[d] = phase[d]
        /\ \A d \in Call \ {c}, n \in Nullifier : Holds(d, n)' <=> Holds(d, n)
        /\ \A n \in Nullifier : Holds(c, n)' <=> c \in cached' /\ seed[c] = n
    BY <1>4, <2>2, <2>3, <2>4
  <2>6. c \notin cached /\ p # "returned" /\ p # "idle"
    BY <1>2, <1>3, <2>2, <2>3
  <2>7. \A d \in cached' : phase'[d] # "idle"
    BY <1>1, <1>2, <2>4, <2>5, <2>6
  <2>8. CASE ~useCache
    <3>1. cache' = cache /\ cached' = cached /\ breached' = breached
      BY <2>1, <2>8
    <3>2. ASSUME NEW n \in Nullifier \ breached PROVE Guarded(n)'
      BY <1>1, <1>2, <2>3, <2>5, <2>6, <3>1 DEF Guarded
    <3> QED BY <2>7, <3>1, <3>2 DEF GuardInv
  <2>9. CASE useCache
    <3>1. PICK k \in Nullifier : k = seed[c]
      BY <1>1
    <3>2. /\ ~IsUsed(cache, k)
          /\ cache' = MarkUsed(AfterIsUsed(cache, k), k)
          /\ cached' = cached \cup {c}
          /\ breached' = breached \cup Expired(k) \cup Evicted(k)
      BY <2>1, <2>9, <3>1
    <3>3. /\ Has(cache', k)
          /\ \A m \in DOMAIN cache'.entry \ {k} :
                m \in DOMAIN cache.entry /\ cache'.entry[m] = cache.entry[m]
      BY <1>1, <3>2, <3>1, FreshMarkFacts
    <3>4. ASSUME NEW n \in Nullifier \ breached', n # k PROVE Guarded(n)'
      <4>1. n \notin breached /\ (Has(cache, n) => Has(cache', n))
        BY <3>2, <3>4 DEF Evicted
      <4>2. Has(cache, n) => cache'.entry[n] = cache.entry[n]
        BY <3>3, <3>4, <4>1 DEF Has
      <4>3. ~Holds(c, n)'
        BY <2>5, <3>1, <3>4
      <4> QED BY <1>1, <1>2, <2>3, <2>5, <2>6, <3>2, <4>1, <4>2, <4>3 DEF Guarded
    <3>5. ASSUME k \notin breached' PROVE Guarded(k)'
      <4>1. k \in Nullifier \ breached /\ k \notin Expired(k)
        BY <3>2, <3>1, <3>5
      <4>2. \A d \in Call : ~Holds(d, k)
        BY <1>2, <4>1 DEF Guarded, Expired
      <4>3. \A d \in session \cap cached : ~(phase[d] = "returned" /\ seed[d] = k)
        BY <1>2, <3>2, <4>1, ConfirmedIsUsed DEF Guarded
      <4>4. \A d \in Call : Holds(d, k)' => d = c
        BY <2>5, <3>1, <4>2
      <4>5. \A d \in session' \cap cached' : ~(phase'[d] = "returned" /\ seed'[d] = k)
        BY <1>1, <2>3, <2>5, <2>6, <3>2, <4>3
      <4> QED BY <3>3, <4>4, <4>5 DEF Guarded
    <3>6. \A n \in Nullifier \ breached' : Guarded(n)'
      BY <3>4, <3>5
    <3> QED BY <2>7, <3>6 DEF GuardInv
  <2> QED BY <2>8, <2>9
<1>7. ASSUME NEW c \in Call, Fails(c) PROVE GuardInv'
  <2>1. /\ Goto(c, "threw") /\ seed' = seed /\ cached' = cached
        /\ session' = session /\ breached' = breached /\ phase[c] \in Running
        /\ cache' = IF c \in cached THEN Remove(cache, seed[c]) ELSE cache
    BY <1>7 DEF Fails, Rollback, callVars
  <2>2. "threw" \in Phase /\ "threw" \notin Running
    BY <1>3
  <2>3. /\ phase'[c] = "threw"
        /\ \A d \in Call \ {c} : phase'[d] = phase[d]
        /\ \A d \in Call \ {c}, n \in Nullifier : Holds(d, n)' <=> Holds(d, n)
        /\ \A n \in Nullifier : ~Holds(c, n)'
    BY <1>4, <2>1, <2>2
  <2>4. ASSUME NEW n \in Nullifier \ breached PROVE Guarded(n)'
    <3>1. CASE c \in cached /\ seed[c] = n
      <4>1. Holds(c, n)
        BY <2>1, <3>1 DEF Holds
      <4>2. \A d \in Call : ~Holds(d, n)'
        BY <1>2, <2>3, <4>1 DEF Guarded
      <4>3. \A d \in session \cap cached : ~(phase[d] = "returned" /\ seed[d] = n)
        BY <1>2, <4>1 DEF Guarded
      <4>4. \A d \in session' \cap cached' : ~(phase'[d] = "returned" /\ seed'[d] = n)
        BY <1>1, <2>1, <2>3, <4>3
      <4> QED BY <4>2, <4>4 DEF Guarded
    <3>2. CASE ~(c \in cached /\ seed[c] = n)
      <4>1. Has(cache, n) => Has(cache', n) /\ cache'.entry[n] = cache.entry[n]
        BY <1>1, <2>1, <3>2, RemoveFacts DEF Has
      <4> QED BY <1>1, <1>2, <2>1, <2>3, <4>1 DEF Guarded
    <3> QED BY <3>1, <3>2
  <2> QED BY <1>1, <1>2, <2>1, <2>3, <2>4 DEF GuardInv
<1>8. ASSUME NEW c \in Call, Advances(c) PROVE GuardInv'
  <2>1. PICK p \in Running : Goto(c, p)
    BY <1>8 DEF Advances
  <2>2. /\ phase[c] \in Running /\ seed' = seed /\ cached' = cached
        /\ session' = session /\ breached' = breached /\ cache' = cache
    BY <1>8 DEF Advances, callVars
  <2>3. /\ phase'[c] = p
        /\ \A d \in Call \ {c} : phase'[d] = phase[d]
        /\ \A d \in Call \ {c}, n \in Nullifier : Holds(d, n)' <=> Holds(d, n)
        /\ \A n \in Nullifier : Holds(c, n)' <=> Holds(c, n)
    BY <1>3, <1>4, <2>1, <2>2 DEF Holds
  <2>4. p # "returned" /\ p # "idle"
    BY <1>3, <2>1
  <2>5. ASSUME NEW n \in Nullifier \ breached PROVE Guarded(n)'
    BY <1>1, <1>2, <2>2, <2>3, <2>4 DEF Guarded
  <2> QED BY <1>1, <1>2, <2>2, <2>3, <2>4, <2>5 DEF GuardInv
<1>9. ASSUME NEW c \in Call, Succeeds(c) PROVE GuardInv'
  <2>1. /\ Goto(c, "returned") /\ seed' = seed /\ cached' = cached
        /\ session' = session /\ breached' = breached /\ phase[c] = "confirm"
        /\ cache' = IF c \in cached THEN ConfirmUsed(cache, seed[c]) ELSE cache
    BY <1>9 DEF Succeeds, ConfirmReturns, callVars
  <2>2. "returned" \in Phase /\ "returned" \notin Running /\ "confirm" \in Running
    BY <1>3 DEF Running
  <2>3. /\ phase'[c] = "returned"
        /\ \A d \in Call \ {c} : phase'[d] = phase[d]
        /\ \A d \in Call \ {c}, n \in Nullifier : Holds(d, n)' <=> Holds(d, n)
        /\ \A n \in Nullifier : ~Holds(c, n)'
    BY <1>4, <2>1, <2>2
  <2>4. ASSUME NEW n \in Nullifier \ breached PROVE Guarded(n)'
    <3>1. CASE c \in cached /\ seed[c] = n
      <4>1. Holds(c, n)
        BY <2>1, <2>2, <3>1 DEF Holds
      <4>2. Has(cache, n) /\ \A d \in Call : ~Holds(d, n)'
        BY <1>2, <2>3, <4>1 DEF Guarded
      <4>3. /\ DOMAIN cache'.entry = DOMAIN cache.entry
            /\ cache'.entry[n] = [age |-> cache.entry[n].age, confirmed |-> TRUE]
        BY <1>1, <2>1, <3>1, <4>2, ConfirmUsedFacts
      <4>4. Has(cache', n) /\ cache'.entry[n].confirmed
        BY <4>2, <4>3 DEF Has
      <4> QED BY <4>2, <4>4 DEF Guarded
    <3>2. CASE ~(c \in cached /\ seed[c] = n)
      <4>1. Has(cache, n) => Has(cache', n) /\ cache'.entry[n] = cache.entry[n]
        <5>1. CASE c \notin cached
          BY <2>1, <5>1
        <5>2. CASE c \in cached
          <6> DEFINE new == ConfirmUsed(cache, seed[c])
          <6>1. /\ DOMAIN new.entry = DOMAIN cache.entry
                /\ \A m \in DOMAIN cache.entry \ {seed[c]} :
                      new.entry[m] = cache.entry[m]
                /\ Has(cache, seed[c])
                     => new.entry[seed[c]] =
                          [age |-> cache.entry[seed[c]].age, confirmed |-> TRUE]
            BY <1>1, ConfirmUsedFacts
          <6> HIDE DEF new
          <6>2. cache' = new /\ n # seed[c]
            BY <2>1, <3>2, <5>2 DEF new
          <6> QED BY <6>1, <6>2 DEF Has
        <5> QED BY <5>1, <5>2
      <4> QED BY <1>1, <1>2, <2>1, <2>3, <3>2, <4>1 DEF Guarded
    <3> QED BY <3>1, <3>2
  <2> QED BY <1>1, <1>2, <2>1, <2>3, <2>4 DEF GuardInv
<1>10. ASSUME NEW c \in Call, ChainStep(c) PROVE GuardInv'
  <2>1. UNCHANGED <<cache, phase, seed, cached, session, breached>>
    BY <1>10 DEF ChainStep, Land, Miss, callVars
  <2> QED BY <1>2, <2>1 DEF GuardInv, Guarded, Holds, Has
<1>11. CASE Restart
  <2>1. /\ session' = {} /\ cached' = cached
        /\ \A d \in Call : phase'[d] \notin Running
        /\ \A d \in Call : phase[d] # "idle" => phase'[d] # "idle"
    BY <1>3, <1>11 DEF Restart
  <2> QED BY <1>1, <1>2, <2>1 DEF GuardInv, Guarded, Holds
<1>12. CASE Tick
  <2>1. UNCHANGED <<phase, seed, cached, session, breached>>
    BY <1>12 DEF Tick, callVars
  <2>2. /\ DOMAIN cache'.entry = DOMAIN cache.entry
        /\ \A m \in DOMAIN cache.entry :
              cache'.entry[m] = [age |-> Older(cache.entry[m].age),
                                 confirmed |-> cache.entry[m].confirmed]
    BY <1>1, <1>12, ElapseFacts DEF Tick
  <2>3. \A m \in DOMAIN cache.entry :
            cache.entry[m].confirmed => cache'.entry[m].confirmed
    <3> SUFFICES ASSUME NEW m \in DOMAIN cache.entry, cache.entry[m].confirmed
                 PROVE  cache'.entry[m].confirmed
      OBVIOUS
    <3>1. cache'.entry[m] = [age |-> Older(cache.entry[m].age),
                             confirmed |-> cache.entry[m].confirmed]
      BY <2>2
    <3> QED BY <3>1
  <2> QED BY <1>2, <2>1, <2>2, <2>3 DEF GuardInv, Guarded, Holds, Has
<1>13. CASE UNCHANGED vars
  BY <1>2, <1>13 DEF vars, GuardInv, Guarded, Holds, Has
<1> QED BY <1>5, <1>6, <1>7, <1>8, <1>9, <1>10, <1>11, <1>12, <1>13, CallSteps DEF Next

(***************************************************************************)
(* "prevent concurrent duplicate submissions", with the condition under    *)
(* which it holds: at most one call runs on a nullifier whose mark was     *)
(* neither outlived by its call nor evicted.                               *)
(***************************************************************************)
THEOREM CompletionExclusion == Spec => []UnbreachedExclusion
<1>1. GuardInv => UnbreachedExclusion
  BY DEF GuardInv, Guarded, UnbreachedExclusion
<1> QED BY <1>1, InitTypeOK, NextTypeOK, GuardInit, GuardStep, PTL DEF Spec

(***************************************************************************)
(* Under the same condition a success stays remembered, whatever other     *)
(* calls do: fail, roll back, or be refused.                               *)
(***************************************************************************)
THEOREM CompletionRemembered == Spec => []UnbreachedSuccessRemembered
<1>1. TypeOK /\ GuardInv => UnbreachedSuccessRemembered
  BY ConfirmedIsUsed DEF TypeOK, GuardInv, Guarded, UnbreachedSuccessRemembered
<1> QED BY <1>1, InitTypeOK, NextTypeOK, GuardInit, GuardStep, PTL DEF Spec

-----------------------------------------------------------------------------
(***************************************************************************)
(* What the calls know of the chain: a transaction that landed is the one  *)
(* that spent its nullifier, a call past rpc() has landed, and only such a *)
(* call confirms a cache entry.                                            *)
(***************************************************************************)
ChainInv ==
    /\ \A c \in Call : tx[c] = "landed" <=> spentBy[seed[c]] = c
    /\ \A c \in Call : phase[c] \in {"confirm", "returned"} => tx[c] = "landed"
    /\ \A c \in Call : phase[c] \in {"idle", "preflight", "cleared", "submit"} => tx[c] = "none"
    /\ \A n \in Nullifier : spentBy[n] # NoCall => seed[spentBy[n]] = n

LEMMA ChainInit == Init => ChainInv
BY CallAssumption DEF Init, ChainInv

LEMMA ChainInvStep == TypeOK /\ ChainInv /\ [Next]_vars => ChainInv'
<1> SUFFICES ASSUME TypeOK, ChainInv, [Next]_vars PROVE ChainInv'
  OBVIOUS
<1> USE DEF ChainInv
<1>1. /\ phase \in [Call -> Phase]
      /\ seed \in [Call -> Nullifier]
      /\ tx \in [Call -> TxFate]
      /\ spentBy \in [Nullifier -> Call \cup {NoCall}]
  BY DEF TypeOK
<1>2. ASSUME NEW c \in Call, NEW p \in Phase, Goto(c, p)
      PROVE  phase'[c] = p /\ \A d \in Call \ {c} : phase'[d] = phase[d]
  BY <1>1, <1>2, GotoFacts
<1>3. ASSUME NEW c \in Call, NEW p \in Phase, Goto(c, p), UNCHANGED <<seed, tx, spentBy>>,
             p \in {"confirm", "returned"} => tx[c] = "landed",
             p \in {"preflight", "cleared", "submit"} => tx[c] = "none",
             p # "idle"
      PROVE  ChainInv'
  BY <1>2, <1>3
<1>4. ASSUME NEW c \in Call, Refuse(c) PROVE ChainInv'
  BY <1>3, <1>4 DEF Refuse, Phase
<1>5. ASSUME NEW c \in Call, Begin(c) PROVE ChainInv'
  <2>1. PICK preflight \in PreflightModes :
           Goto(c, IF preflight THEN "preflight" ELSE "submit")
    BY <1>5 DEF Begin
  <2>2. UNCHANGED <<seed, tx, spentBy>> /\ tx[c] = "none"
    BY <1>5 DEF Begin
  <2> DEFINE p == IF preflight THEN "preflight" ELSE "submit"
  <2>3. p \in Phase /\ p \notin {"confirm", "returned", "idle"}
    BY DEF Phase, Running
  <2> QED BY <1>3, <2>1, <2>2, <2>3
<1>6. ASSUME NEW c \in Call, Rollback(c) PROVE ChainInv'
  BY <1>3, <1>6 DEF Rollback, callVars, Phase
<1>7. ASSUME NEW c \in Call, PreflightPasses(c) PROVE ChainInv'
  BY <1>3, <1>7 DEF PreflightPasses, callVars, Phase, Running
<1>16. ASSUME NEW c \in Call, ReadsUnspent(c) PROVE ChainInv'
  BY <1>3, <1>16 DEF ReadsUnspent, callVars, Phase, Running
<1>8. ASSUME NEW c \in Call, Send(c) PROVE ChainInv'
  <2>1. /\ Goto(c, "rpc") /\ seed' = seed /\ spentBy' = spentBy
        /\ tx' = [tx EXCEPT ![c] = "pending"] /\ tx[c] = "none"
    BY <1>8 DEF Send, callVars
  <2>2. "rpc" \in Phase
    BY DEF Phase, Running
  <2>3. phase'[c] = "rpc" /\ \A d \in Call \ {c} : phase'[d] = phase[d]
    BY <1>2, <2>1, <2>2
  <2>4. tx'[c] = "pending" /\ \A d \in Call \ {c} : tx'[d] = tx[d]
    BY <1>1, <2>1
  <2> QED BY <2>1, <2>3, <2>4
<1>9. ASSUME NEW c \in Call, RpcReturns(c) PROVE ChainInv'
  BY <1>3, <1>9 DEF RpcReturns, callVars, Phase, Running
<1>10. ASSUME NEW c \in Call, ConfirmReturns(c) PROVE ChainInv'
  BY <1>3, <1>10 DEF ConfirmReturns, callVars, Phase, Running
<1>11. ASSUME NEW c \in Call, Land(c) PROVE ChainInv'
  <2>1. /\ phase' = phase /\ seed' = seed
        /\ tx'[c] = "landed" /\ \A d \in Call \ {c} : tx'[d] = tx[d]
        /\ spentBy[seed[c]] = NoCall /\ spentBy'[seed[c]] = c
        /\ \A n \in Nullifier \ {seed[c]} : spentBy'[n] = spentBy[n]
        /\ tx[c] = "pending"
    BY <1>1, <1>11 DEF Land, callVars
  <2>2. \A d \in Call \ {c} : tx'[d] = "landed" <=> spentBy'[seed[d]] = d
    BY <1>1, <2>1, CallAssumption
  <2> QED BY <1>1, <2>1, <2>2
<1>12. ASSUME NEW c \in Call, Miss(c) PROVE ChainInv'
  <2>1. /\ phase' = phase /\ seed' = seed /\ spentBy' = spentBy /\ tx[c] = "pending"
        /\ tx'[c] \in {"rejected", "dropped"}
        /\ \A d \in Call \ {c} : tx'[d] = tx[d]
    BY <1>1, <1>12 DEF Miss, callVars
  <2> QED BY <2>1
<1>13. CASE Restart
  <2>1. \A c \in Call : phase'[c] = phase[c] \/ phase'[c] = "lost"
    BY <1>13 DEF Restart
  <2> QED BY <1>13, <2>1 DEF Restart
<1>14. CASE Tick
  BY <1>14 DEF Tick, callVars
<1>15. CASE UNCHANGED vars
  BY <1>15 DEF vars
<1> QED BY <1>4, <1>5, <1>6, <1>7, <1>8, <1>9, <1>10, <1>11, <1>12, <1>13, <1>14, <1>15, <1>16
        DEF Next, CallStep, ChainStep, PreflightFails, SubmitFails, RpcThrows, ConfirmThrows

-----------------------------------------------------------------------------
(***************************************************************************)
(* What an unconfirmed and a confirmed entry stand for.                    *)
(***************************************************************************)
EntryInv == NoOrphanedMark /\ ConfirmedWasSpent

LEMMA EntryInit == Init => EntryInv
BY EmptyCacheFacts DEF Init, EntryInv, NoOrphanedMark, ConfirmedWasSpent, Has

LEMMA EntryStep == TypeOK /\ GuardInv /\ ChainInv /\ EntryInv /\ [Next]_vars => EntryInv'
<1> SUFFICES ASSUME TypeOK, GuardInv, ChainInv, EntryInv, [Next]_vars PROVE EntryInv'
  OBVIOUS
<1>1. /\ WellFormed(cache)
      /\ phase \in [Call -> Phase]
      /\ seed \in [Call -> Nullifier]
      /\ spentBy \in [Nullifier -> Call \cup {NoCall}]
      /\ cached \subseteq Call
  BY DEF TypeOK
<1>2. \A n \in Nullifier : Has(cache, n) =>
          IF cache.entry[n].confirmed THEN spentBy[n] # NoCall
                                      ELSE \E c \in Call : Holds(c, n)
  BY DEF EntryInv, NoOrphanedMark, ConfirmedWasSpent
\* It is enough that every entry is new and held, or unchanged with its holder.
<1>3. ASSUME \A n \in Nullifier : spentBy[n] # NoCall => spentBy'[n] # NoCall,
             \A n \in Nullifier : Has(cache', n) =>
                IF cache'.entry[n].confirmed
                THEN (Has(cache, n) /\ cache.entry[n].confirmed) \/ spentBy'[n] # NoCall
                ELSE (\E c \in Call : Holds(c, n)')
      PROVE  EntryInv'
  BY <1>2, <1>3 DEF EntryInv, NoOrphanedMark, ConfirmedWasSpent
<1>4. Running \subseteq Phase /\ {"idle", "returned", "threw", "lost"} \subseteq Phase
  BY DEF Running, Phase
<1>5. ASSUME NEW c \in Call, NEW p \in Phase, Goto(c, p), seed' = seed, cached' = cached
      PROVE  \A d \in Call \ {c}, n \in Nullifier : Holds(d, n) => Holds(d, n)'
  BY <1>1, <1>5, GotoFacts DEF Holds
<1>6. ASSUME NEW c \in Call, Refuse(c) PROVE EntryInv'
  <2>1. /\ DOMAIN cache'.entry = DOMAIN cache.entry
        /\ \A m \in DOMAIN cache.entry : cache'.entry[m] = cache.entry[m]
    BY <1>1, <1>6, RefusalFacts DEF Refuse
  <2>2. \A d \in Call, n \in Nullifier : Holds(d, n) => Holds(d, n)'
    <3>1. phase[c] \notin Running /\ Goto(c, "threw") /\ seed' = seed
          /\ cached' = cached \cup {c}
      BY <1>6 DEF Refuse, Running
    <3>2. \A d \in Call \ {c} : phase'[d] = phase[d]
      BY <1>1, <1>4, <3>1, GotoFacts
    <3> QED BY <3>1, <3>2 DEF Holds
  <2>3. spentBy' = spentBy
    BY <1>6 DEF Refuse
  <2> QED BY <1>2, <1>3, <2>1, <2>2, <2>3 DEF Has
<1>7. ASSUME NEW c \in Call, Begin(c) PROVE EntryInv'
  <2>1. PICK useCache \in CacheModes, preflight \in PreflightModes :
          /\ Goto(c, IF preflight THEN "preflight" ELSE "submit")
          /\ IF useCache
             THEN /\ ~IsUsed(cache, seed[c])
                  /\ cache' = MarkUsed(AfterIsUsed(cache, seed[c]), seed[c])
                  /\ cached' = cached \cup {c}
                  /\ breached' = breached \cup Expired(seed[c]) \cup Evicted(seed[c])
             ELSE UNCHANGED <<cache, cached, breached>>
    BY <1>7 DEF Begin
  <2> DEFINE p == IF preflight THEN "preflight" ELSE "submit"
  <2>2. p \in Running
    BY DEF Running
  <2> HIDE DEF p
  <2>3. seed' = seed /\ phase[c] \notin Running /\ spentBy' = spentBy
    BY <1>7 DEF Begin, Running
  <2>4. phase'[c] = p /\ \A d \in Call \ {c} : phase'[d] = phase[d]
    BY <1>1, <1>4, <2>1, <2>2, GotoFacts DEF p
  <2>5. \A d \in Call, n \in Nullifier : Holds(d, n) => Holds(d, n)'
    BY <2>1, <2>3, <2>4 DEF Holds
  <2>6. CASE ~useCache
    BY <1>2, <1>3, <2>1, <2>3, <2>5, <2>6
  <2>7. CASE useCache
    <3>1. PICK k \in Nullifier : k = seed[c]
      BY <1>1
    <3>2. /\ cache'.entry[k] = FreshEntry
          /\ \A m \in DOMAIN cache'.entry \ {k} :
                m \in DOMAIN cache.entry /\ cache'.entry[m] = cache.entry[m]
      BY <1>1, <2>1, <2>7, <3>1, FreshMarkFacts
    <3>3. ~cache'.entry[k].confirmed /\ Holds(c, k)'
      BY <2>1, <2>2, <2>3, <2>4, <2>7, <3>1, <3>2 DEF FreshEntry, Holds
    <3> QED BY <1>2, <1>3, <2>3, <2>5, <3>2, <3>3 DEF Has
  <2> QED BY <2>6, <2>7
<1>8. ASSUME NEW c \in Call, Fails(c) PROVE EntryInv'
  <2>1. /\ Goto(c, "threw") /\ seed' = seed /\ cached' = cached /\ spentBy' = spentBy
        /\ cache' = IF c \in cached THEN Remove(cache, seed[c]) ELSE cache
    BY <1>8 DEF Fails, Rollback, callVars
  <2>2. \A d \in Call \ {c}, n \in Nullifier : Holds(d, n) => Holds(d, n)'
    BY <1>4, <1>5, <2>1
  <2>3. ASSUME NEW n \in Nullifier, Has(cache', n)
        PROVE  /\ Has(cache, n) /\ cache'.entry[n] = cache.entry[n]
               /\ ~Holds(c, n)
    <3>1. CASE c \in cached
      <4> DEFINE new == Remove(cache, seed[c])
      <4>1. /\ DOMAIN new.entry = DOMAIN cache.entry \ {seed[c]}
            /\ \A m \in DOMAIN cache.entry \ {seed[c]} : new.entry[m] = cache.entry[m]
        BY <1>1, RemoveFacts
      <4> HIDE DEF new
      <4>2. cache' = new
        BY <2>1, <3>1 DEF new
      <4> QED BY <2>3, <4>1, <4>2 DEF Has, Holds
    <3>2. CASE c \notin cached
      BY <2>1, <2>3, <3>2 DEF Holds
    <3> QED BY <3>1, <3>2
  <2> QED BY <1>2, <1>3, <2>1, <2>2, <2>3
<1>9. ASSUME NEW c \in Call, Advances(c) PROVE EntryInv'
  <2>1. PICK p \in Running : Goto(c, p)
    BY <1>9 DEF Advances
  <2>2. cache' = cache /\ seed' = seed /\ cached' = cached /\ spentBy' = spentBy
    BY <1>9 DEF Advances, callVars
  <2>3. phase'[c] = p /\ \A d \in Call \ {c} : phase'[d] = phase[d]
    BY <1>1, <1>4, <2>1, GotoFacts
  <2>4. \A d \in Call, n \in Nullifier : Holds(d, n) => Holds(d, n)'
    BY <2>1, <2>2, <2>3 DEF Holds
  <2> QED BY <1>2, <1>3, <2>2, <2>4
<1>10. ASSUME NEW c \in Call, Succeeds(c) PROVE EntryInv'
  <2>1. /\ Goto(c, "returned") /\ seed' = seed /\ cached' = cached
        /\ spentBy' = spentBy /\ phase[c] = "confirm"
        /\ cache' = IF c \in cached THEN ConfirmUsed(cache, seed[c]) ELSE cache
    BY <1>10 DEF Succeeds, ConfirmReturns, callVars
  <2>2. \A d \in Call \ {c}, n \in Nullifier : Holds(d, n) => Holds(d, n)'
    BY <1>4, <1>5, <2>1
  <2>3. spentBy[seed[c]] # NoCall
    BY <2>1, CallAssumption DEF ChainInv
  <2>4. CASE c \in cached
    <3> DEFINE new == ConfirmUsed(cache, seed[c])
    <3>1. /\ DOMAIN new.entry = DOMAIN cache.entry
          /\ \A m \in DOMAIN cache.entry \ {seed[c]} : new.entry[m] = cache.entry[m]
          /\ Has(cache, seed[c])
               => new.entry[seed[c]] = [age |-> cache.entry[seed[c]].age, confirmed |-> TRUE]
      BY <1>1, ConfirmUsedFacts
    <3> HIDE DEF new
    <3>2. cache' = new
      BY <2>1, <2>4 DEF new
    <3>3. Has(cache, seed[c]) => cache'.entry[seed[c]].confirmed
      BY <3>1, <3>2
    <3>4. ASSUME NEW n \in Nullifier, Has(cache', n), n # seed[c]
          PROVE  /\ Has(cache, n) /\ cache'.entry[n] = cache.entry[n]
                 /\ ~Holds(c, n)
      BY <3>1, <3>2, <3>4 DEF Has, Holds
    <3>5. Has(cache', seed[c]) => cache'.entry[seed[c]].confirmed
      BY <3>1, <3>2, <3>3 DEF Has
    <3> QED BY <1>2, <1>3, <2>1, <2>2, <2>3, <3>4, <3>5
  <2>5. CASE c \notin cached
    BY <1>2, <1>3, <2>1, <2>2, <2>5 DEF Holds
  <2> QED BY <2>4, <2>5
<1>11. ASSUME NEW c \in Call, ChainStep(c) PROVE EntryInv'
  <2>1. UNCHANGED <<cache, phase, seed, cached>>
    BY <1>11 DEF ChainStep, Land, Miss, callVars
  <2>2. \A d \in Call, n \in Nullifier : Holds(d, n) => Holds(d, n)'
    BY <2>1 DEF Holds
  <2>3. \A n \in Nullifier : spentBy[n] # NoCall => spentBy'[n] # NoCall
    BY <1>1, <1>11, CallAssumption DEF ChainStep, Land, Miss
  <2> QED BY <1>2, <1>3, <2>1, <2>2, <2>3
<1>12. CASE Restart
  BY <1>12, EmptyCacheFacts DEF Restart, EntryInv, NoOrphanedMark, ConfirmedWasSpent, Has
<1>13. CASE Tick
  <2>1. UNCHANGED <<phase, seed, cached, spentBy>>
    BY <1>13 DEF Tick, callVars
  <2>2. /\ DOMAIN cache'.entry = DOMAIN cache.entry
        /\ \A m \in DOMAIN cache.entry :
              cache'.entry[m] = [age |-> Older(cache.entry[m].age),
                                 confirmed |-> cache.entry[m].confirmed]
    BY <1>1, <1>13, ElapseFacts DEF Tick
  <2>3. ASSUME NEW m \in DOMAIN cache.entry
        PROVE  cache'.entry[m].confirmed <=> cache.entry[m].confirmed
    <3>1. cache'.entry[m] = [age |-> Older(cache.entry[m].age),
                             confirmed |-> cache.entry[m].confirmed]
      BY <2>2
    <3> QED BY <3>1
  <2>4. \A d \in Call, n \in Nullifier : Holds(d, n) => Holds(d, n)'
    BY <2>1 DEF Holds
  <2> QED BY <1>2, <1>3, <2>1, <2>2, <2>3, <2>4 DEF Has
<1>14. CASE UNCHANGED vars
  BY <1>2, <1>3, <1>14 DEF vars, Has, Holds
<1> QED BY <1>6, <1>7, <1>8, <1>9, <1>10, <1>11, <1>12, <1>13, <1>14, CallSteps DEF Next

(***************************************************************************)
(* A confirmed nullifier is spent on chain, whoever confirmed it.          *)
(***************************************************************************)
THEOREM CompletionConfirmedWasSpent == Spec => []ConfirmedWasSpent
<1>1. EntryInv => ConfirmedWasSpent
  BY DEF EntryInv
<1> QED BY <1>1, InitTypeOK, NextTypeOK, GuardInit, GuardStep, ChainInit, ChainInvStep,
           EntryInit, EntryStep, PTL DEF Spec

(***************************************************************************)
(* No failure path leaves a mark behind.                                   *)
(***************************************************************************)
THEOREM CompletionNoOrphanedMark == Spec => []NoOrphanedMark
<1>1. EntryInv => NoOrphanedMark
  BY DEF EntryInv
<1> QED BY <1>1, InitTypeOK, NextTypeOK, GuardInit, GuardStep, ChainInit, ChainInvStep,
           EntryInit, EntryStep, PTL DEF Spec

-----------------------------------------------------------------------------
(***************************************************************************)
(* Refinement.                                                             *)
(***************************************************************************)
Told(c) == CASE phase[c] = "returned" -> "paid"
             [] phase[c] = "threw"    -> "error"
             [] OTHER                 -> "pending"

LEMMA ToldFacts ==
    \A c \in Call :
        /\ Told(c) = "paid"    <=> phase[c] = "returned"
        /\ Told(c) = "error"   <=> phase[c] = "threw"
        /\ Told(c) = "pending" <=> phase[c] \notin {"returned", "threw"}
BY DEF Told

\* What the callers were told, as the abstract specification sees it.
told == [c \in Call |-> CASE phase[c] = "returned" -> "paid"
                          [] phase[c] = "threw"    -> "error"
                          [] OTHER                 -> "pending"]

LEMMA OutcomeInit == Init => Outcome!Init
BY DEF Init, Outcome!Init

LEMMA OutcomeStep == TypeOK /\ ChainInv /\ [Next]_vars => [Outcome!Next]_(Outcome!vars)
<1> SUFFICES ASSUME TypeOK, ChainInv, [Next]_vars
             PROVE  Outcome!Next \/ (spentBy' = spentBy /\ told' = told)
  BY DEF Outcome!vars, told
<1>1. /\ phase \in [Call -> Phase]
      /\ seed \in [Call -> Nullifier]
      /\ spentBy \in [Nullifier -> Call \cup {NoCall}]
  BY DEF TypeOK
<1>2. /\ \A c \in Call : told[c] = Told(c)
      /\ \A c \in Call : told'[c] = Told(c)'
      /\ DOMAIN told = Call /\ DOMAIN told' = Call
      /\ told = [c \in Call |-> Told(c)] /\ told' = [c \in Call |-> Told(c)']
  BY DEF told, Told
<1>3. /\ Running \cup {"idle", "returned", "threw", "lost"} = Phase
      /\ \A p \in Running \cup {"idle", "lost"} : p \notin {"returned", "threw"}
  BY DEF Running, Phase
\* A step between two phases that tell the caller nothing.
<1>4. ASSUME NEW c \in Call, NEW p \in Running, Goto(c, p),
             phase[c] \notin {"returned", "threw"}
      PROVE  told' = told
  <2>1. phase'[c] = p /\ \A d \in Call \ {c} : phase'[d] = phase[d]
    BY <1>1, <1>3, <1>4, GotoFacts
  <2>2. \A d \in Call : Told(d)' = Told(d)
    BY <1>3, <1>4, <2>1 DEF Told
  <2> QED BY <1>2, <2>2
\* A step in which call c fails.
<1>5. ASSUME NEW c \in Call, Goto(c, "threw"), phase[c] \notin {"returned", "threw"},
             spentBy' = spentBy
      PROVE  Outcome!Fail(c)
  <2>1. phase'[c] = "threw" /\ \A d \in Call \ {c} : phase'[d] = phase[d]
    BY <1>1, <1>3, <1>5, GotoFacts
  <2>2. Told(c) = "pending" /\ Told(c)' = "error"
        /\ \A d \in Call \ {c} : Told(d)' = Told(d)
    BY <1>5, <2>1 DEF Told
  <2>3. told[c] = "pending" /\ told' = [told EXCEPT ![c] = "error"]
    BY <1>2, <2>2
  <2> QED BY <1>5, <2>3 DEF Outcome!Fail, told
<1>6. ASSUME NEW c \in Call, Refuse(c) PROVE Outcome!Next
  <2>1. Outcome!Fail(c)
    BY <1>5, <1>6 DEF Refuse
  <2> QED BY <2>1 DEF Outcome!Next
<1>7. ASSUME NEW c \in Call, Begin(c) PROVE spentBy' = spentBy /\ told' = told
  <2>1. PICK preflight \in PreflightModes :
           Goto(c, IF preflight THEN "preflight" ELSE "submit")
    BY <1>7 DEF Begin
  <2> DEFINE p == IF preflight THEN "preflight" ELSE "submit"
  <2>2. p \in Running
    BY DEF Running
  <2>3. phase[c] = "idle" /\ spentBy' = spentBy
    BY <1>7 DEF Begin
  <2> QED BY <1>4, <2>1, <2>2, <2>3
<1>8. ASSUME NEW c \in Call, Fails(c) PROVE Outcome!Next
  <2>1. Outcome!Fail(c)
    BY <1>3, <1>5, <1>8 DEF Fails, Rollback
  <2> QED BY <2>1 DEF Outcome!Next
<1>9. ASSUME NEW c \in Call, Advances(c) PROVE spentBy' = spentBy /\ told' = told
  BY <1>3, <1>4, <1>9 DEF Advances
<1>10. ASSUME NEW c \in Call, Succeeds(c) PROVE Outcome!Next
  <2>1. Goto(c, "returned") /\ phase[c] = "confirm" /\ spentBy' = spentBy
    BY <1>10 DEF Succeeds, ConfirmReturns
  <2>2. phase'[c] = "returned" /\ \A d \in Call \ {c} : phase'[d] = phase[d]
    BY <1>1, <1>3, <2>1, GotoFacts
  <2>3. Told(c) = "pending" /\ Told(c)' = "paid"
        /\ \A d \in Call \ {c} : Told(d)' = Told(d)
    BY <2>1, <2>2 DEF Told
  <2>4. told[c] = "pending" /\ told' = [told EXCEPT ![c] = "paid"]
    BY <1>2, <2>3
  <2>5. \E n \in Nullifier : spentBy[n] = c
    BY <1>1, <2>1 DEF ChainInv
  <2>6. Outcome!Pay(c)
    BY <2>1, <2>4, <2>5 DEF Outcome!Pay, told
  <2> QED BY <2>6 DEF Outcome!Next
<1>11. ASSUME NEW c \in Call, Land(c) PROVE Outcome!Next
  <2>1. /\ phase' = phase /\ tx[c] = "pending" /\ spentBy[seed[c]] = NoCall
        /\ spentBy' = [spentBy EXCEPT ![seed[c]] = c] /\ seed[c] \in Nullifier
    BY <1>1, <1>11 DEF Land
  <2>2. told' = told
    BY <2>1 DEF told
  <2>3. phase[c] # "returned" /\ spentBy[seed[c]] # c
    BY <2>1 DEF ChainInv
  <2>4. told[c] # "paid"
    BY <1>2, <2>3, ToldFacts
  <2>5. \A m \in Nullifier : spentBy[m] # c
    BY <2>3, CallAssumption DEF ChainInv
  <2>6. Outcome!Spend(c, seed[c])
    BY <2>1, <2>2, <2>4, <2>5 DEF Outcome!Spend, told
  <2> QED BY <2>1, <2>6 DEF Outcome!Next
<1>12. ASSUME NEW c \in Call, Miss(c) PROVE spentBy' = spentBy /\ told' = told
  BY <1>12 DEF Miss, told
<1>13. CASE Restart
  <2>1. \A c \in Call : Told(c)' = Told(c)
    <3> SUFFICES ASSUME NEW c \in Call PROVE Told(c)' = Told(c)
      OBVIOUS
    <3>1. phase'[c] = IF phase[c] \in Running THEN "lost" ELSE phase[c]
      BY <1>13 DEF Restart
    <3> QED BY <1>3, <3>1 DEF Told
  <2> QED BY <1>2, <1>13, <2>1 DEF Restart
<1>14. CASE Tick
  BY <1>14 DEF Tick, told
<1>15. CASE UNCHANGED vars
  BY <1>15 DEF vars, told
<1> QED BY <1>6, <1>7, <1>8, <1>9, <1>10, <1>11, <1>12, <1>13, <1>14, <1>15, CallSteps
        DEF Next, ChainStep

(***************************************************************************)
(* Private completion implements SpendOutcome: a nullifier pays at most    *)
(* one call, the one whose transaction spent it, through every             *)
(* interleaving of rollbacks, lost answers and restarts.                   *)
(***************************************************************************)
THEOREM CompletionImplementsOutcome == Spec => ImplementsOutcome
BY InitTypeOK, NextTypeOK, ChainInit, ChainInvStep, OutcomeInit, OutcomeStep, PTL
   DEF Spec, ImplementsOutcome, Outcome!Spec
=============================================================================
