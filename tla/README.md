# A verification project for the AgenC SDK

These TLA+ modules model the parts of `@tetsuo-ai/sdk` that keep state, run for
more than one step, or draw a conclusion from several readings of the chain.
TLC checks them on small instances; TLAPS proves the main safety properties for
every value of the constants. Paths below are relative to the repository.

`PROJECT.json` has the details this text leaves out: which definition stands for
which lines of source (`map`), which run checks which property (`runs`), what a
plausible bug would have to break (`mutants`), and everything in this code that
is hard to test, at its line (`hazards`).

## 1. The system

The SDK is a TypeScript library over an on-chain program
(`agenc-coordination`, reached through Anchor) plus a set of scripts that drive
it on devnet. Almost every public function is an `async` function that reads
some accounts, builds one transaction, sends it, and waits for its confirmation.
What the program decides happens elsewhere; what is left to the SDK, and can go
wrong in it, is

* what it **remembers** between calls (the nullifier cache; the account and
  the prover a client has been given; the request ids of the daemon client);
* what it **concludes from several reads** of a chain that moves between them
  (preflights, lifecycle summaries, scans by actor);
* what it **does in several steps** of which one may fail (a task created in two
  transactions, a completion with its rollback, a script that resumes);
* what it **lays out**: the accounts a settlement must bring along.

JavaScript runs one stretch of code at a time, from one `await` to the next. So
an action of a model is one such stretch, and everything between two actions is
what the chain, the network, the clock, and other calls may do meanwhile.

### Inventory

| Component | State it keeps | Operations | What is hard | What makes it correct | Here |
|---|---|---|---|---|---|
| Nullifier cache (`nullifier-cache.ts`) | one `Map` in recency order, a capacity, a timeout | `isUsed`, `tryMarkUsed`, `markUsed`, `confirmUsed`, `remove`, `clear` | queries that mutate, eviction at the limit, expiry of unconfirmed marks only | blocks what was used, frees what was not, forgets only under pressure | modelled, proved |
| Private completion (`tasks.ts`, end of `client.ts`) | the session's cache; the call's place between its awaits | `completeTaskPrivate`, `completeTaskPrivateWithPreflight` | concurrent calls, a rollback racing a late landing, marks outliving their call, restarts | at most one call per nullifier is told it succeeded; no failure leaves a mark | modelled, proved |
| Proof preflight (`proof-validation.ts`, `validation.ts`) | what the earlier reads said | `runProofSubmissionPreflight` | six reads at six moments; errors taken for answers; checks that skip others | a failure was real, a lasting problem is found, a valid verdict had its moment | modelled, proved |
| Devnet marketplace validation (`scripts/devnet-marketplace-e2e.mjs`, `devnet-disputes.mjs`) | a report file, a dispute artifact | initial run, deferral, resume | a day between two runs, overlapping resumes, a file overwritten in place, children killed after their work | a report says "passed" only of work that was done; a deferred report can be resumed and gets settled | modelled, proved |
| Task lifecycle summary (`tasks.ts`, `queries.ts`) | what the earlier reads said | `getTaskLifecycleSummary` | five answers joined; a sort by whole seconds | the joined state, dispute flag, duration and timeline agree | modelled, proved |
| Task operations (`tasks.ts`) | none | create, claim, complete, submit and review results, cancel, expire | `createTask` is two transactions and a retry; accounts passed by position | what a call tells its caller is what the chain executed; right accounts, right order | modelled, proved |
| Bid marketplace (`bid-marketplace.ts`, `bids.ts`) | none | configuration, books, bids, acceptance | the accounts shared with the settlement of a task | the same | modelled and proved with the tasks |
| Disputes (`disputes.ts`) | none | initiate, vote, resolve, expire, cancel, slash | who voted and who still works decides the accounts | the same | modelled and proved with the tasks |
| Governance (`governance.ts`, `scripts/devnet-governance.mjs`) | an artifact file; the run's place | initialise, propose, vote, execute, cancel; plan, register, clean up, resume | `Promise.all` gives up while the others go on; delays longer than the script; a plan made before the quorum is fixed | the stake is the least that suffices, reports are true, nobody is left registered silently, a deferral is settled | modelled, proved |
| Agents, reputation, skills (`agents.ts`, `reputation.ts`, `skills.ts`) | none | one transaction each, readers | readers that turn every error into "null" | what is taken for gone is gone | as the runners use them |
| Reputation and deep runners (`scripts/devnet-*.mjs`) | an artifact file; a list of what was made | stake, delegate, resume; probe, clean up | resumed by two processes, killed half-way; a `finally` that swallows errors | reports and verdicts are true; what is left behind has a reason | modelled, proved |
| Private client (`client.ts`) | connection, program, prover, wallet | `init`, `generateProof`, `completeTaskPrivate` | `init` again while a proof is being made | a proof is submitted for the wallet it was made for | last step modelled |
| Prover and proofs (`prover.ts`, `proofs.ts`) | none | one HTTP request; hashing | a timeout that races the answer | field and shape checks on both sides | not modelled |
| Validation (`validation.ts`) | none | predicates on payloads, endpoints, bytes | lengths checked in an order | same answer on both sides of a submission | payload part modelled |
| Protocol configuration (`protocol.ts`, `state.ts`) | none | initialise, update, read | config changing under a submission; a list of signers | the signers are counted once | `getZkConfig` and the operations of several signers modelled |
| Error catalogue (`errors.ts`) | none | lookup | — | — | as the refusals of the program |
| Queries (`queries.ts`) | none | scans by dependency, actor, replay health | one answer from several scans | an actor's history has each dispute once | summary's reads modelled |
| Version, daemon client, process identity, tokens, helpers, maintenance scripts, examples | a request counter in the daemon client | — | — | — | not modelled, see section 6 |

The components meet in a few places. A completion calls the preflight, shares
one cache with every other call of the session, and ends in the transaction that
`PrivacyClient` also uses. The preflight uses `getTask` and `getZkConfig`, whose
errors it sometimes lets through. The marketplace validation spawns the dispute
script, which calls `resolveDispute` and `getDispute`, and learns the result
from its output and its exit code. Task operations, bids and disputes meet in
the accounts of one task: whether it was given out by a bid decides what a
completion, a cancellation and a resolution must bring along, and every
operation may find the task moved by another. The governance, reputation and
deep runners call the operations of `governance.ts`, `agents.ts`,
`reputation.ts` and `tasks.ts`, and a later process takes up from the artifact
file an earlier one has written.

## 2. The modules

```
NullifierCacheOps ── NullifierCache ── MCNullifierCache
        │   │               └──────── NullifierCacheProofs ─┐
        │   └── NullifierCacheOpsProofs ────────────────────┤
        └── PrivateCompletion ── MCPrivateCompletion        │
                 │   └────────────── PrivateCompletionProofs ┘
                 └── implements SpendOutcome
ProofPreflight ── MCProofPreflight,  ProofPreflightProofs
LifecycleSummary ── MCLifecycleSummary,  LifecycleSummaryProofs
MarketplaceValidation ── MCMarketplaceValidation,  DevnetRunnerProofs
MarketAccounts ── MarketProgram ── TaskMarket ── MCTaskMarket,  TaskMarketProofs
                                       └── implements CallOutcome
StakePlan ── GovernanceRun ── MCGovernanceRun,  GovernanceRunProofs
ReputationRun ──┐
DeepRun ────────┴── MCDevnetScripts ── DevnetRunnerProofs
```

### NullifierCacheOps, NullifierCache

`NullifierCacheOps` is the class as a value. The code keeps one JavaScript `Map`
and deletes and re-inserts a key to promote it, so the value has two views:
`order`, the keys in insertion order (its head is the next to be evicted), and
`entry`, a function from the keys to `[age, confirmed]`. `markedAt` is kept as
an age that saturates just past the timeout, since the code only compares
`Date.now() - markedAt` with `timeoutMs`. One operator per method:
`AfterIsUsed` with `IsUsed` (what a query leaves behind and what it answers),
`MarkUsed`, `TryMarkUsed`, `ConfirmUsed`, `Remove`; `Delete`, `Insert` and
`EvictOldest` are the `Map` calls they are made of; `Elapse` is the clock.

`NullifierCache` is one instance under every sequence of calls. Two history
variables say what it ought to know: `registry`, the same facts without a
capacity, and `since[n]`, which other nullifiers were used after `n`.

### SpendOutcome, PrivateCompletion

`SpendOutcome` is the promise to callers, without cache, network or retry: every
nullifier is spent once, by one call's transaction, and only that call is told
"paid". "error" promises nothing.

`PrivateCompletion` has any number of calls of
`completeTaskPrivateWithPreflight` that share one cache:

    idle -> preflight -> cleared -> submit -> rpc -> confirm -> returned

Each name is the await the call is in. `Begin` is the synchronous stretch from
`isUsed` to `markUsed`; `Refuse` the error thrown before the `try`; the actions
ending in `Fails` or `Throws` run the `catch` block (`Rollback`). The preflight
is its verdict and its last read: `ReadsUnspent` is the moment at which a node
answers, `PreflightPasses` the later one at which the call acts on it.
`completeTaskPrivate` without cache or preflight is a call that takes neither,
chosen by `CacheModes` and `PreflightModes`. `Land` and `Miss` are the chain: a
transaction lands or not whatever its call has been told, also after it gave
up. `Restart` empties the cache and loses the running calls; what was sent stays
sent. The history variable `breached` holds the nullifiers whose guard was lost,
either because the mark of a running call expired and was replaced, or because
it was evicted.

### ProofPreflight

One run of `runProofSubmissionPreflight`, read by read:

    idle -> task -> zk -> raw -> claim -> binding -> nullifier -> done

A payload is the set of local checks it does not satisfy, and a failure is the
name of its check, so that `JournalFailures` and `ShapeFailures` are about which
check makes which other one unreachable. `ReadZk` also judges the task's state
and deadline, from the *first* task read and today's clock, as the code does.
`ReadClaimThrows` is the `catch` around the claim; every other read lets its
error through and ends in "threw". A task's type is a number or an object, as the
account decoder hands it over, and `toNumber` takes an object for 0; so
`CompetitiveFailures` never fires on a task whose type came as an object, and
`Overlooked` names that check for such a task (section 5). Between the reads the chain moves by
`MoveTask`, `Complete`, `ClaimTask`, `ExpireClaim`, `SetImage`, `Spend`, and the
clock by `Tick`; these say no more than what the SDK can observe of the program.
The history variables follow one arbitrary check (`watched`) through the run and
remember whether the program would have taken the payload when the task was
first read (`moment`).

### LifecycleSummary

One run of `getTaskLifecycleSummary`, answer by answer:

    idle -> task -> raw -> claims -> disputes -> dependents -> done

Each `Read...` action keeps one answer (`state1`, `createdAt` and `completedAt`,
`claims1`, `disputes1`). What the code computes from them is operators:
`ClaimEvents`, `EndEvents`, `DisputeEvents` and their union `Timeline`,
`HasActiveDispute`, and `Precedes`, the order of a stable sort by time, in which
events of one second keep the order in which they were pushed. An event is a
record of its name, its subject and its time. The chain's actions create,
claim, complete, dispute, settle and end the task between the answers; the model
takes from the SDK's types and errors that a dispute holds its task until it is
settled, and that a task which is over stays so. The properties rest on these
two. Not covered: a cancellation that has no time of its own, which the code
shows at the time of the creation, and a dispute settled in the second in which
the task ends, which it shows after the end.

### MarketplaceValidation

The combined report of `devnet-marketplace-e2e.mjs`. `RunDeep`, `RunBid`,
`Initiate`, `Defer`, `ResolveAtOnce` and `WriteReport` are the initial run; a
child process is the set of outcomes the runner reads from its output and its
exit code. `ReadReport`, the script steps and `WriteBack` are a resume, of which
any number may overlap: each keeps its own `copy` of the report and writes it
back whole. `Crash` may tear the file, which is overwritten in place.

Two report values, "unknown" and "partial", that the readers accept are never
written by the runner and are left out. A temporary artifact is assumed to stay
where it was written.

### MarketAccounts, MarketProgram, TaskMarket, CallOutcome

`CallOutcome` is what a call that changes the chain promises: "returned" that
all its transactions were executed, "refused" that none was or will be, "threw"
nothing. `TaskMarket` is one call of any operation of `tasks.ts`,
`disputes.ts` and `bid-marketplace.ts` that sends a transaction, on a task that everybody else keeps
working on:

    idle -> reading -> sent -> landed -> returned
               \-> refused  \-> threw, late

with "sent" and "landed" passed twice by a `createTask` with a job spec.
`Start` picks operation, caller and options; each operation has an operator of
its own name that builds its instruction, and `Refused` has the errors the SDK
itself throws. `Read` is the first await (the facts that are read never change,
so the instruction is a function of the call). `RpcThrows` gives up on a
transaction that may still land; `ConfirmReturns` goes on to the next
transaction or returns. `Others` is any other call on the same task,
executed at once.

`MarketAccounts` is the lists of accounts: one operator per helper of the code
(`TaskCompletionRemainingAccounts`, `CancelTaskRemainingAccounts`,
`DisputeRemainingAccounts`, ...), where an address is the tuple of its seeds, so
that two are equal exactly when their derivations are. `MarketProgram` is
the external program: the refusals of the error catalogue (`StatusErrors`), the
accounts it reads by position (`AccountErrors`) and its effects (`After`). A call
is *informed* when its options fit the task its caller has seen, in the form the
SDK's types and the devnet scripts give them, and *moved* says that somebody else
has executed something since.

The accounts of a dispute are those of `devnet-disputes.mjs`: a resolution or an
expiry brings the votes, then a pair for everybody who still works, the defendant
included (475-480, 504-509), then the accepted bid, and names the defendant's
claim, agent and wallet besides. An initiation passes no claim of the creator's
and by default the caller's own for anybody else (`InitiatorClaim`), the worker
the creator complains of, the submission if the caller likes, and the pairs of
`defendantWorkers`. A vote may name the defendant, a slash must. The repository
does not say which workers the program wants listed when a dispute begins, so
the program of the model takes any subset of them (`InitiationErrors`).

### StakePlan, GovernanceRun

`StakePlan` is `computeStakePlan`, a binary search whose interval is `low` and
`high`; it is a specification of its own, and one phase of `GovernanceRun`.
`GovernanceRun` is `devnet-governance.mjs`: an initial run from `ReadProtocol` to
the clean-up (`Deregister`, `Deregistered`, `Finish`), and a resumed run started
as often as the operator likes. Every transaction has its own life in
`tx[<<operation, participant>>]`, because registrations and votes are sent
together: `Rejected` is the moment at which `Promise.all` gives up, and the
others may still land, also after the clean-up has passed. `OthersRegister`,
`OthersChangeFee` and `CancelProposal` are other people.

### ReputationRun, DeepRun, MCDevnetScripts

`ReputationRun` is `devnet-reputation.mjs`: `Prepare`, `StakeReputation`,
`DelegateReputation` and `Review` are the initial run; `ReadBefore`,
`revokeDelegation`, `ReadStake`, `withdrawReputationStake` and `ReadAfter` a
resumed one, which any number of processes may run at once and may be killed in
(`Killed`). A reader's argument `failed` says whether its null is an error;
`misread` remembers it.

`DeepRun` is `devnet-integration-deep.mjs`. The script is a sequence of steps
(`Script`), each a call that must succeed or one that is expected to fail with
some error; `Throw` leaves for the `finally` block, whose steps are `CleanUp` of
what was created. `DriftAshore` is a transaction that lands after the run gave
up on it. `deviated` says that the deployed program has behaved otherwise than
its sources, once.

The two share nothing; `MCDevnetScripts` runs one or the other, and the proofs are
about that composition, so each run's step leaves the other's state alone.

## 3. The runs

| Run | Instance | Asks |
|---|---|---|
| `nullifier_cache` | 4 nullifiers, `MaxSize` 2, `TimeoutMs` 2 | does the cache block too much or forget too soon? |
| `private_completion` | 3 calls, 2 nullifiers, `MaxSize` 1, `TimeoutMs` 1, with and without cache and preflight, restarts | exclusion, memory, confirmation, rollback, and the refinement of `SpendOutcome` |
| `private_completion_liveness` | 2 calls, 2 nullifiers, `MaxSize` 1, `TimeoutMs` 2 | does an abandoned mark stop blocking? |
| `duplicate_submissions` | 2 calls, 1 nullifier | expected violation, finding 1 |
| `proof_preflight` | 2 images, 2 payloads, 3 kinds of task, clock to 2 | what does a verdict say of a chain that moved? |
| `claim_fetch_error` | the same | expected violation, finding 2 |
| `lifecycle_summary` | 2 workers, 2 disputes, 2 seconds | do the parts of a summary, read apart, agree? |
| `marketplace_validation` | 2 resumes, repeated at will, 2 faults | what does a report say of the work done, and does a deferred one get settled? |
| `settled_without_resolution` | the same, safety only | expected violation, finding 3 |
| `task_market` | 2 kinds of task, 2 agents, 1 arbiter, threshold 2, 4 lists of signers | does every operation keep its promise, and bring the right accounts? |
| `governance_run` | 2 participants, 2 protocols, 3 wallets, clock to 3 | is the plan right, are reports true, what is left behind, is a deferral settled? |
| `devnet_scripts` | 2 resuming processes, 2 drift modes, 1 transaction adrift, clock to 3 | are reports and verdicts true, and is what was staked released? |

**Why the bounds are enough.** *Cache*: forgetting needs `MaxSize` other
nullifiers and a promotion needs one more than fit; 4 over 2 gives both with one
to spare, and a timeout of 2 separates "just marked", "at the limit" (still
valid: the code asks for *more than* `timeoutMs`) and "past it". *Completion*:
the hard cases are two calls on one nullifier and a third that evicts or retries;
capacity 1 makes every second mark an eviction and timeout 1 lets a mark expire
while its call runs. The liveness run has a mark that is asked for, hence
promoted, several times before it expires. Symmetry permutes calls and
nullifiers in safety runs only; no property names one of them. `ImplementsOutcome`
is checked under symmetry as a step property, which is sound since both specs are
symmetric and it has no fairness. *Preflight*: two images tell "not configured",
"another" and "this one" apart; the sloppy payload makes the image check and one
spend check skip; the clock passes the task's deadline, the claim's expiry and
the proof's age. The three kinds of task (competitive with its type decoded as a
number, competitive with its type decoded as an object, public) let each failure
decide a verdict alone. *Summary*: two workers, so that one completes while the other
still works; two disputes, so that work resumes between them; two seconds, so
that most events share one and the order of insertion decides (more seconds only
separate events, which is the easy case). *Validation*: two overlapping resumes undo each other's reports; two
faults allow a failure in each, or a failure and a crash. *Market*: a token
task for several workers, and a SOL task that takes bids and depends on another
(bid tasks are for SOL only) have between them every list of accounts, the
longest ones included; two agents are a defendant and another worker, a winning
bid and a losing one. The four lists of signers are none, too few, enough, and
enough with one named twice. One call is observed, and others act only while it
still has something to send, since nothing it does or says depends on the task
afterwards; operations of several signers are called only before there is a
task, which they do not touch. *Governance*: with 17 agents
of other people the quorum is the same after the participants have registered,
with 18 it has gone up, and the second protocol's fee is at its limit; one
wallet can wait for the execution, one defers, one is too poor. The clock passes
the end of the vote and the delay. *Scripts*: two processes overlap, and each
starts again when it likes; the clock passes both locks, and the run may wait
not at all, and defers, or long enough for both.

**Deadlock** is checked wherever the system goes on. `proof_preflight` and its
companion, `lifecycle_summary`, `task_market`, `governance_run` and
`devnet_scripts` end when their call or run ends, and `marketplace_validation`
ends when nothing is left to settle, so these say `CHECK_DEADLOCK FALSE`.

**Fairness.** `private_completion_liveness` assumes only that time passes
(`WF_vars(Tick)`): no await of the SDK has a timeout of its own, so a node may
keep a call waiting for ever, and the property holds all the same.
`marketplace_validation` assumes that the voting deadline comes, that a script
that runs comes to its next step (Node runs it; failures are separate steps and
bounded by `MaxFaults`), and that a pending report is resumed, which is what
`docs/devnet-marketplace-runbook.md` tells its reader to do. The initial run has no
fairness: nothing is claimed of it before the report is written.
`governance_run` assumes that time passes, that a run comes to its next step,
that a transaction is executed, given up or rejected in the end, and that the operator resumes a deferred run again; a
read or an execution that is tried again and again goes through some time (`SF`), since
without that a node could fail every attempt. `devnet_scripts` assumes the same
of the process `Operator` and nothing of the other one, which may be killed in
the middle or revoke under the operator's hands. `task_market` and the deep run
have no liveness: a call may wait for its node for ever.

**Mutants.** Every property has a bug in the modelled code that breaks it: a
dropped guard, a promotion that refreshes, a confirmation before the answer, a
preflight outside the `try`. They stand beside the definitions they change,
marked "Mutant".

### Findings

Three statements of the repository do not hold of its code.

1. *"Mark nullifier as used BEFORE submission to prevent concurrent duplicate
   submissions"* (`src/tasks.ts:1481`). A mark expires after `timeoutMs` and may be
   evicted while its call is still waiting for the network; the next call then
   submits the same nullifier. The program rejects the second transaction, so
   the loss is a fee. `NoConcurrentDuplicates`; what does hold is
   `UnbreachedExclusion`.
2. *"Claim account not found for worker/task pair"*, not retriable
   (`src/proof-validation.ts:546`). Any error of that read is reported so.
   `ClaimReportedMissingWasMissing`.
3. The marketplace runner lists *"final dispute resolution when a deferred
   artifact is resumed later"* among what succeeded
   (`scripts/devnet-marketplace-e2e.mjs:390`) also when the dispute was cancelled
   or expired. `PassedReportWasResolved`.

## 4. The proofs

All theorems are of the form `Spec => []P` (or a refinement) and hold for every
value of the constants the `ASSUME`s admit: any sets of nullifiers, calls,
payloads, workers, disputes, agents, processes and resumes, any capacity, timeout
and clock bound, any number of transactions adrift. The assumptions say
what the constructor checks (`MaxSize` a positive integer, `TimeoutMs` positive)
and what the types are. They are evaluated by TLC in every run. Every invariant
and every action property of a passing run is a theorem.

**Cache** (`NullifierCacheOpsProofs`, `NullifierCacheProofs`). The lemmas say of
each method what it returns: that the two views of the `Map` stay in agreement
and that at most `MaxSize` keys remain (`DeleteFacts`, `InsertFacts`,
`MarkUsedFacts`, ...). With them:
*`CacheTypeCorrect`*; *`CacheNeverOverblocks`*, from `Agreement` (whatever the
cache holds, it holds as the registry knows it); *`CacheForgetsOnlyUnderPressure`*,
from `PressureInv`: "in order" implies "in `since`" (`Recency`), so the key that
falls off a full cache was followed by all the others.

**Completion** (`PrivateCompletionProofs`). The exclusion is not inductive: a
rollback removes the mark whoever holds it. `GuardInv` adds that an unbreached
nullifier with a running call is in the cache and is unconfirmed while that is
so, and is confirmed after a success. `ChainInv` ties the fate of a transaction
to its call and the spend to its transaction. `EntryInv` is what the cache says
of calls and chain. They give *`CompletionTypeCorrect`*, *`CompletionExclusion`*,
*`CompletionRemembered`*, *`CompletionConfirmedWasSpent`*,
*`CompletionNoOrphanedMark`* and *`CompletionImplementsOutcome`*, the refinement,
by showing that each step is a step of `SpendOutcome` or changes nothing there.

**Preflight** (`ProofPreflightProofs`). *`PassedShapeIsSubmittable`*: what the
shape checks pass, the submission's own shape check passes.
*`PreflightTypeCorrect`*. *`PreflightFailuresWereReal`* by `RealInv`, which
carries the first task reading along until it is judged: the deadline may only
have passed since. *`PreflightValidHadItsMoment`* by `MomentInv`: as long as
nothing has failed and nothing has disturbed the run, if the first reading was
not acceptable then a reason for that still stands ahead of the reads to come
(no chain step but a claim or a new image removes a reason).
*`PreflightProblemsNeverPass`* by `LastingInv`: a lasting problem of the watched
check is either found already or still ahead. The last two leave out, for a task
whose type is decoded as an object, the one check that `toNumber` blinds;
`SeenCompetitive` is the step from the decoded number to the task's type.

**Summary** (`LifecycleSummaryProofs`). `ChainInv` relates the times of claims and
disputes to those of the task and says that a task is disputed exactly as long
as it has its one active dispute. `ReadInv` says of each answer what the chain
can have made obsolete since, and what it cannot: a task seen ended is still
ended, at the same time (`TaskMoves` is what any step may do to it). From them
*`LifecycleTypeCorrect`*, *`LifecycleEndedHasNoActiveDispute`*,
*`LifecycleDisputedShowsDispute`*, *`LifecycleCompletedIsTimed`* and, through
`EveryEventTells` (an event says what its account said), *`LifecycleTimelineIsCausal`*.

**Validation** (`DevnetRunnerProofs`). *`ValidationTypeCorrect`*, and by
`ValidationInv` *`ValidationPassedIsEarned`*, *`ValidationPassedPhaseWasResolved`*
and *`ValidationDeferredIsResumable`*. The invariant says the three of every copy
of the report there is (the draft, the file, what each resume has read) and of
each script's outcome; that history only grows (a settled dispute stays settled,
`EarnedStays`) makes it survive being written back late.

**Market** (`TaskMarketProofs`). *`TaskMarketTypesCorrect`*: no instruction, of the
observed call or of others, takes the task out of the states described (one step
per operation; `ChainInv` is the set of those states). *`CallInvariant`*, from
`CallInv`, bounds what a call has executed by its phase and says that whatever
was sent had passed the checks of the SDK; with it *`CallsImplementOutcome`*, the
refinement, in which a step of somebody else is a stutter. `SpecInv` says that a
creation past its second transaction has set the spec, and gives
*`HalfCreationsThrow`*. For *`InformedAreNotRefused`* each group of operations with
the same options is shown to pass the SDK's guards whatever the state of the
task from which they were chosen (`InformedInv`); options do not change while
the call runs. *`InformedAccountsAreAccepted`* is about the lists of accounts: what the SDK lays
out, for the task its caller has seen, is what the program reads off by position. Two more
invariants carry it. `OrderedInv` says how the parts of a task hang together in
every state the program can bring it to (only a task for bids has a book, at most
one agent works on it and then by an accepted bid, an active dispute has a
defendant), because a list that is put together from one part is read against
another. `FreshInv` says that the options still fit the task as long as nothing of the call
has been executed and nobody else has moved it; at that moment one lemma per group of operations (`CompletionAccepted`,
`InitiateDisputeAccepted`, `MultisigAccepted`, ...) compares the list with what the
program asks for. The lists are flattened from sets in the order in which the
program walks them. An induction theorem that takes the predicate as an
operator cannot be instantiated by the provers, so those facts go by the least
counterexample (`WFMin`). Of the constants it assumes that `Null` and `Creator`
are not agents, that agents and arbiters are finitely many, that the threshold is positive
(`MarketAssumption`) and that signers are passed as an array (`SignersAssumption`).

**Governance** (`GovernanceRunProofs`). Four invariants. `TypeInv` includes the loop
invariant of the search: nothing below `low` suffices and `high` does, which rests
on `WeightMonotone`, that capping, halving and the least weight of 1 never make a
larger stake lighter; with it *`GovTypesCorrect`* and *`StakeIsCheapest`*. `LeftInv` is about
whose registration may still land: an agent that is registered and not warned of
is one the clean-up has not passed (*`NobodyLeftSilently`*). `ReportInv` gives
*`ReportsHold`*. `QuorumInv` says that the plan still describes the protocol it
was made for and that the weight of the votes is the number of ballots times
the planned one (*`QuorumIsReached`*).

**Reputation and deep runs** (`DevnetRunnerProofs`, with `MCDevnetScripts`).
*`ScriptsTypesCorrect`* covers both. *`ReportsAreHonest`* rests on `RepInv`: once an artifact
is written the chain only gives back (`KnowsStays`), whoever sends the transaction and
however late it lands, so what a process has learnt at a stage (`Knows`: the
delegation is gone by "reviewing", the stake by "closing", or a read failed and was
taken for an answer) stays true while other processes go on or are killed. *`DeepVerdictIsRight`* and
*`DeepLeavesExplained`* rest on `DeepInv`. In the `try` block some number `n` of the
script's steps is behind the run (`Position`); unless something went wrong, the
chain is then exactly the one a program makes that answers as its sources do
(`Sound`), so the next probe must be refused with the error it names and no
verdict can come out wrong without a cause; and everything left on the
chain is known to the run. In the `finally` block whatever is left is still to be
cleared away (`Scheduled`), or has been warned about for a reason out of the
run's reach (`Explained`), or a transaction that the run had given up on is making it.

**Only model-checked**: the liveness properties `StaleMarkStopsBlocking`,
`DeferredIsSettled`, `DeferredSettles` and `DeferredReleases`. They rest on
fairness, hence on `ENABLED`, which the provers at hand cannot treat.

## 5. Limits of the models

* The on-chain program is external. Its actions allow whatever the SDK can
  observe of it, and nothing is claimed about it.
* A read sees the chain at one moment, the one at which the node answers.
  A node that answers from an older slot is not modelled, except that the answer
  may arrive as late as it likes.
* Warnings, logging, the wording of errors and byte layouts are left out; a
  payload is what checks it fails, a nullifier and an image are atoms.
* Whether a competitive task was won is decided by `taskType === 2` after
  `toNumber` (`src/proof-validation.ts:493`), which gives 0 for an object. The SDK
  itself says that *"Anchor returns enums as objects"* (`src/tasks.ts:2499`) and
  calls the field a *"Task type enum"* (`src/queries.ts:75`); its test passes the
  number 2 (`src/__tests__/proof-validation.test.ts:698`). If the deployed account
  decodes the type as an object, a competitive task already won passes the
  preflight, and only the program refuses the submission. Nothing in the
  repository tells which of the two happens, so both are in the model, and
  `ProblemsNeverPass` and `ValidHadItsMoment` exempt the second by name.
* `applyInitiatorSlash` takes the initiator's agent as an account; which agent
  complained is not kept in the model, so that account is not compared.
* What the program reads by position is taken from the error catalogue, the
  tests of the lists and the devnet scripts; in a dispute the scripts are the only
  source for which workers belong there.
* `MarketProgram` leaves out times, stakes, amounts and rate limits. So the
  program may refuse any transaction for a reason that is not listed, and no
  property of `task_market` rests on one being accepted.
* A deep run meets one deviation of the deployed program; it has one
  transaction adrift at a time in the run, any number in the theorems. In the governance run other people register up
  to `MaxOthers` agents and change the fee once.
* Time is a counter; the preflight's stops at `MaxTime`. Ages saturate past the
  timeout, which loses nothing.

## 6. Not modelled

* **Readers** of agents, bids, skills and protocol state: one fetch each,
  without effect. The scans of `queries.ts` promise nothing about the several
  moments they are made of, so there is nothing to check their answers against.
* **`init` while a proof is being made** (`src/client.ts:228`): what keeps the two
  apart is the caller alone; no line of the code or its documentation says
  which of the two wins.
* **Prover and proofs**: one HTTP request, shape checks and hashes; I/O and
  cryptography without state.
* **Version compatibility**: a pure decision over four numbers and a table,
  whose boundaries its unit tests cover.
* **Daemon client**: most of the file is protocol types; the client keeps a counter,
  and which answer reaches which call is the doing of a transport that the host
  supplies.
* **Process identity**: parsing of `/proc` and `ps`, and a comparison field by field.
* **Tokens, helpers**: layouts, seeds, number conversion, logging.
* **`updateAgent`, suspension, the skill registry, state entries, initialisation
  of the protocol**: one transaction each, on which no sequence depends. They
  have the life of the calls in `TaskMarket`.
* **Skills and integration runners, release check, maintenance scripts,
  examples**: straight sequences that stop at the first error and deregister
  two agents at the end, which the deep runner does among other things; checks
  of the build; demonstrations.

## 7. Running it

    tlc -workers 2 -config ProofPreflight.cfg MCProofPreflight
    tlapm PrivateCompletionProofs.tla

`proof_preflight` is the longest run (5.6 million states, two to three minutes);
`task_market` and `governance_run` take under two minutes each, the others a
minute at most. From nothing, `TaskMarketProofs` and `DevnetRunnerProofs` take
about five minutes each, `GovernanceRunProofs` about two.
