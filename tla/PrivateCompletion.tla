-------------------------- MODULE PrivateCompletion --------------------------
(***************************************************************************)
(* Concurrent private completions in one session: the calls of             *)
(* completeTaskPrivateWithPreflight (src/tasks.ts) that share a            *)
(* NullifierCache, the chain that executes their transactions, and the     *)
(* network in between.                                                     *)
(*                                                                         *)
(* A call is an async function.  It runs without interruption from one     *)
(* await to the next, so an action is one such stretch of code:            *)
(*                                                                         *)
(*   idle -> preflight -> cleared -> submit -> rpc -> confirm -> returned  *)
(*                                                                         *)
(* and every await may throw, which runs the rollback and ends in "threw". *)
(* What the preflight and the account fetches look at is not kept here,    *)
(* except the last one, of the nullifierSpend account: a node answers it   *)
(* at one moment ("cleared") and the call acts on the answer at a later    *)
(* one.  They may fail at any time for other reasons.                      *)
(***************************************************************************)
EXTENDS NullifierCacheOps, FiniteSets

CONSTANTS Call,            \* invocations of the API, each made at most once
          NoCall,          \* not a call
          CacheModes,      \* options.nullifierCache given (TRUE) or not
          PreflightModes   \* options.runProofSubmissionPreflight

ASSUME CallAssumption == /\ NoCall \notin Call
                         /\ CacheModes \subseteq BOOLEAN
                         /\ PreflightModes \subseteq BOOLEAN

VARIABLES
    cache,     \* the session's NullifierCache
    phase,     \* where each call is
    seed,      \* proof.nullifierSeed of each call that has started
    cached,    \* calls that were given the cache
    tx,        \* the fate of each call's transaction, known to the chain
    spentBy,   \* chain: the call whose transaction created nullifierSpend
    breached,  \* history: nullifiers whose guard was lost
    session    \* history: calls started since the process last restarted

vars == <<cache, phase, seed, cached, tx, spentBy, breached, session>>
callVars == <<seed, cached, session>>

Running == {"preflight", "cleared", "submit", "rpc", "confirm"}
Phase   == Running \cup {"idle", "returned", "threw", "lost"}
TxFate  == {"none", "pending", "landed", "rejected", "dropped"}

TypeOK == /\ WellFormed(cache)
          /\ phase \in [Call -> Phase]
          /\ seed \in [Call -> Nullifier]
          /\ cached \subseteq Call
          /\ tx \in [Call -> TxFate]
          /\ spentBy \in [Nullifier -> Call \cup {NoCall}]
          /\ breached \subseteq Nullifier
          /\ session \subseteq Call

Init == /\ cache = EmptyCache
        /\ phase = [c \in Call |-> "idle"]
        /\ seed \in [Call -> Nullifier]
        /\ cached = {}
        /\ tx = [c \in Call |-> "none"]
        /\ spentBy = [n \in Nullifier |-> NoCall]
        /\ breached = {}
        /\ session = {}

\* Call c is running on nullifier n and was given the cache.
Holds(c, n) == c \in cached /\ seed[c] = n /\ phase[c] \in Running

Goto(c, p) == phase' = [phase EXCEPT ![c] = p]

-----------------------------------------------------------------------------
(* The calls.                                                              *)

\* Mutant: the check sits inside the try block, so its error is rolled back.
RefuseRollsBack(c) ==
    /\ phase[c] = "idle"
    /\ TRUE \in CacheModes
    /\ IsUsed(cache, seed[c])
    /\ cache' = Remove(cache, seed[c])
    /\ Goto(c, "threw")
    /\ cached' = cached \cup {c}
    /\ session' = session \cup {c}
    /\ UNCHANGED <<seed, tx, spentBy, breached>>

\* "Nullifier already submitted in this session": thrown before the try
\* block, so nothing is rolled back.
Refuse(c) ==
    /\ phase[c] = "idle"
    /\ TRUE \in CacheModes
    /\ IsUsed(cache, seed[c])
    /\ cache' = AfterIsUsed(cache, seed[c])
    /\ Goto(c, "threw")
    /\ cached' = cached \cup {c}
    /\ session' = session \cup {c}
    /\ UNCHANGED <<seed, tx, spentBy, breached>>

\* The nullifiers whose guard is lost when n is marked: n itself when the mark
\* of a call that is still running has expired, and the oldest one when
\* markUsed overfills the cache.
Expired(n) == {m \in {n} : Has(cache, m) /\ \E d \in Call : Holds(d, m)}
Evicted(n) == {m \in Nullifier \ {n} : Has(cache, m) /\ ~Has(cache', m)}

\* isUsed answered false; with no await in between, markUsed follows.
Begin(c) ==
    /\ phase[c] = "idle"
    /\ \E useCache \in CacheModes, preflight \in PreflightModes :
        /\ Goto(c, IF preflight THEN "preflight" ELSE "submit")
        /\ IF useCache
           THEN /\ ~IsUsed(cache, seed[c])
                /\ cache' = MarkUsed(AfterIsUsed(cache, seed[c]), seed[c])
                /\ cached' = cached \cup {c}
                /\ breached' = breached \cup Expired(seed[c]) \cup Evicted(seed[c])
           ELSE UNCHANGED <<cache, cached, breached>>
    /\ session' = session \cup {c}
    /\ UNCHANGED <<seed, tx, spentBy>>

\* The catch block: remove the nullifier and rethrow.
Rollback(c) ==
    /\ cache' = IF c \in cached THEN Remove(cache, seed[c]) ELSE cache
    /\ Goto(c, "threw")
    /\ UNCHANGED <<callVars, tx, spentBy, breached>>

\* connection.getAccountInfo(nullifierSpendPda), the last read of the
\* preflight, finds no account.
ReadsUnspent(c) ==
    /\ phase[c] = "preflight"
    /\ spentBy[seed[c]] = NoCall
    /\ Goto(c, "cleared")
    /\ UNCHANGED <<cache, callVars, tx, spentBy, breached>>

\* The answer arrives: runProofSubmissionPreflight found nothing wrong.
PreflightPasses(c) ==
    /\ phase[c] = "cleared"
    /\ Goto(c, "submit")
    /\ UNCHANGED <<cache, callVars, tx, spentBy, breached>>

\* Mutant: the preflight is awaited before the try block begins.
PreflightFailsUnrolled(c) ==
    /\ phase[c] \in {"preflight", "cleared"}
    /\ Goto(c, "threw")
    /\ UNCHANGED <<cache, callVars, tx, spentBy, breached>>

\* The result is not valid (ProofSubmissionPreflightError), or a read threw.
PreflightFails(c) == phase[c] \in {"preflight", "cleared"} /\ Rollback(c)

\* completeTaskPrivate throws before anything is sent: payload shape, account
\* fetches, zkConfig missing, image id no longer active, simulation failure.
SubmitFails(c) == phase[c] = "submit" /\ Rollback(c)

\* Mutant: the nullifier is confirmed when the transaction is sent.
SendConfirms(c) ==
    /\ phase[c] = "submit"
    /\ Goto(c, "rpc")
    /\ tx' = [tx EXCEPT ![c] = "pending"]
    /\ cache' = IF c \in cached THEN ConfirmUsed(cache, seed[c]) ELSE cache
    /\ UNCHANGED <<callVars, spentBy, breached>>

\* builder.rpc() sends the transaction.
Send(c) ==
    /\ phase[c] = "submit"
    /\ Goto(c, "rpc")
    /\ tx' = [tx EXCEPT ![c] = "pending"]
    /\ UNCHANGED <<cache, callVars, spentBy, breached>>

\* rpc() throws because the program rejected the transaction, or with no
\* knowledge of its fate: a timeout or a lost answer.
RpcThrows(c) == phase[c] = "rpc" /\ Rollback(c)

\* Mutant: rpc() hands out the signature without waiting for the status.
RpcReturnsUnchecked(c) ==
    /\ phase[c] = "rpc"
    /\ Goto(c, "confirm")
    /\ UNCHANGED <<cache, callVars, tx, spentBy, breached>>

\* rpc() of the Anchor provider returns once the transaction has executed
\* without an error.
RpcReturns(c) ==
    /\ phase[c] = "rpc"
    /\ tx[c] = "landed"
    /\ Goto(c, "confirm")
    /\ UNCHANGED <<cache, callVars, tx, spentBy, breached>>

\* connection.confirmTransaction times out on a transaction that landed.
ConfirmThrows(c) == phase[c] = "confirm" /\ Rollback(c)

\* Mutant: a success leaves the entry unconfirmed.
ConfirmReturnsUnrecorded(c) ==
    /\ phase[c] = "confirm"
    /\ Goto(c, "returned")
    /\ UNCHANGED <<cache, callVars, tx, spentBy, breached>>

ConfirmReturns(c) ==
    /\ phase[c] = "confirm"
    /\ cache' = IF c \in cached THEN ConfirmUsed(cache, seed[c]) ELSE cache
    /\ Goto(c, "returned")
    /\ UNCHANGED <<callVars, tx, spentBy, breached>>

-----------------------------------------------------------------------------
(* The chain.                                                              *)

\* The program creates the nullifierSpend account, which must not exist.
Land(c) ==
    /\ tx[c] = "pending"
    /\ spentBy[seed[c]] = NoCall
    /\ tx' = [tx EXCEPT ![c] = "landed"]
    /\ spentBy' = [spentBy EXCEPT ![seed[c]] = c]
    /\ UNCHANGED <<cache, phase, callVars, breached>>

\* Rejected by the program for this or another reason, or never included
\* before its blockhash expires.
Miss(c) ==
    /\ tx[c] = "pending"
    /\ \E fate \in {"rejected", "dropped"} : tx' = [tx EXCEPT ![c] = fate]
    /\ UNCHANGED <<cache, phase, callVars, spentBy, breached>>

-----------------------------------------------------------------------------
(* The process and its clock.                                              *)

\* The process dies and a new one starts with an empty cache; what was sent
\* stays sent.
Restart ==
    /\ session # {}
    /\ cache' = EmptyCache
    /\ phase' = [c \in Call |-> IF phase[c] \in Running THEN "lost" ELSE phase[c]]
    /\ session' = {}
    /\ breached' = {}
    /\ UNCHANGED <<seed, cached, tx, spentBy>>

Tick ==
    /\ cache' = Elapse(cache)
    /\ UNCHANGED <<phase, callVars, tx, spentBy, breached>>

CallStep(c) == \/ Refuse(c) \/ Begin(c)
               \/ ReadsUnspent(c) \/ PreflightPasses(c) \/ PreflightFails(c)
               \/ SubmitFails(c) \/ Send(c)
               \/ RpcThrows(c) \/ RpcReturns(c)
               \/ ConfirmThrows(c) \/ ConfirmReturns(c)

ChainStep(c) == Land(c) \/ Miss(c)

Next == \/ \E c \in Call : CallStep(c) \/ ChainStep(c)
        \/ Restart
        \/ Tick

Spec == Init /\ [][Next]_vars

\* Only time is sure to pass: no await of the SDK has a timeout of its own.
FairSpec == Spec /\ WF_vars(Tick)

-----------------------------------------------------------------------------
(***************************************************************************)
(* "Mark nullifier as used BEFORE submission to prevent concurrent         *)
(* duplicate submissions": two calls given the cache never have a          *)
(* submission of one nullifier under way at the same time.  The mark       *)
(* expires after timeoutMs and can be evicted while a call may run for     *)
(* longer, so the claim does not hold as it stands.                        *)
(***************************************************************************)
NoConcurrentDuplicates ==
    \A n \in Nullifier : \A c, d \in Call :
        /\ Holds(c, n) /\ phase[c] = "rpc"
        /\ Holds(d, n) /\ phase[d] = "rpc"
        => c = d

(***************************************************************************)
(* What the cache does guarantee: as long as no running call outlived the  *)
(* timeout on n and n was not evicted, at most one call runs on n.  In     *)
(* particular no failure of another call, refused or rolled back, lets a   *)
(* second one in.                                                          *)
(***************************************************************************)
UnbreachedExclusion ==
    \A n \in Nullifier \ breached : \A c, d \in Call :
        Holds(c, n) /\ Holds(d, n) => c = d

(***************************************************************************)
(* Under the same condition a success is remembered: once a call of this   *)
(* session returned, its nullifier stays blocked and confirmed, and no     *)
(* later call can submit it or roll it back.                               *)
(***************************************************************************)
UnbreachedSuccessRemembered ==
    \A c \in session \cap cached :
        phase[c] = "returned" /\ seed[c] \notin breached
            => IsUsed(cache, seed[c]) /\ cache.entry[seed[c]].confirmed

(***************************************************************************)
(* The cache never vouches for a spend that did not happen: a confirmed    *)
(* nullifier, whoever confirmed it and whoever marked it, is spent on      *)
(* chain.                                                                  *)
(***************************************************************************)
ConfirmedWasSpent ==
    \A n \in Nullifier :
        Has(cache, n) /\ cache.entry[n].confirmed => spentBy[n] # NoCall

(***************************************************************************)
(* No failure path leaks a mark: an unconfirmed entry always belongs to a  *)
(* call that is still running and will settle it.                          *)
(***************************************************************************)
NoOrphanedMark ==
    \A n \in Nullifier :
        Has(cache, n) /\ ~cache.entry[n].confirmed => \E c \in Call : Holds(c, n)

\* The promise to callers, read off the calls and the chain.
Outcome == INSTANCE SpendOutcome WITH
    outcome <- [c \in Call |-> CASE phase[c] = "returned" -> "paid"
                                 [] phase[c] = "threw"    -> "error"
                                 [] OTHER                 -> "pending"]

(***************************************************************************)
(* Private completion implements SpendOutcome: "success" is reported only  *)
(* to the call whose own transaction spent the nullifier, hence to one     *)
(* call per nullifier for ever, across rollbacks, retries and restarts.    *)
(***************************************************************************)
ImplementsOutcome == Outcome!Spec

(***************************************************************************)
(* "preventing stale entries from blocking retries after network           *)
(* timeouts": a mark that is never confirmed stops blocking its nullifier  *)
(* even if the network never answers.                                      *)
(***************************************************************************)
StaleMarkStopsBlocking ==
    \A n \in Nullifier :
        IsUsed(cache, n) ~> (~IsUsed(cache, n) \/ cache.entry[n].confirmed)
=============================================================================
