---------------------------- MODULE MarketAccounts ----------------------------
(***************************************************************************)
(* The addresses and the account lists of the task market, as src/tasks.ts,*)
(* src/disputes.ts and src/bid-marketplace.ts derive and order them.       *)
(*                                                                         *)
(* A derived address is the tuple of its seeds; wallets are tuples too.    *)
(* The remaining accounts of an instruction are a sequence of addresses    *)
(* that the on-chain program reads by position; whether an account is      *)
(* writable or signs is left out.  Optional arguments that the SDK tells   *)
(* apart from empty ones carry a flag.                                     *)
(***************************************************************************)
EXTENDS Sequences, SequencesExt

Null == <<"null">>

Wallet(who) == <<"wallet", who>>
AgentPda(id) == <<"agent", id>>
TaskPda(creator, taskId) == <<"task", creator, taskId>>
ClaimPda(task, agent) == <<"claim", task, AgentPda(agent)>>
EscrowPda(task) == <<"escrow", task>>
TaskJobSpecPda(task) == <<"task_job_spec", task>>
TaskAttestorConfigPda(task) == <<"task_attestor", task>>
TaskSubmissionPda(claim) == <<"task_submission", claim>>
BidMarketplacePda == <<"bid_marketplace">>
BidBookPda(task) == <<"bid_book", task>>
BidPda(task, agent) == <<"bid", task, AgentPda(agent)>>
BidderMarketStatePda(agent) == <<"bidder_market", AgentPda(agent)>>
DisputePda(disputeId) == <<"dispute", disputeId>>
VotePda(dispute, agent) == <<"vote", dispute, AgentPda(agent)>>

\* The associated token account of an owner.
Ata(mint, owner) == <<"ata", mint, owner>>

\* The accounts of every member of S, in some fixed order.
Each(S, Accounts(_)) == FlattenSeq([i \in 1..Len(SetToSeq(S)) |-> Accounts(SetToSeq(S)[i])])

ClaimAndAgent(task, agent) == <<ClaimPda(task, agent), AgentPda(agent)>>

-----------------------------------------------------------------------------
(* Token accounts: all of them for a token task, none for a SOL task.      *)

CreationTokenAccounts(mint, creator, task, given) ==
    IF mint = Null
    THEN [creator |-> Null, escrow |-> Null]
    ELSE [creator |-> IF given = Null THEN Ata(mint, creator) ELSE given,
          escrow  |-> Ata(mint, EscrowPda(task))]

CompletionTokenAccounts(mint, task, worker, treasury) ==
    IF mint = Null
    THEN [escrow |-> Null, worker |-> Null, treasury |-> Null]
    ELSE [escrow   |-> Ata(mint, EscrowPda(task)),
          worker   |-> Ata(mint, worker),
          treasury |-> Ata(mint, treasury)]

CancelTokenAccounts(mint, task, creator) ==
    IF mint = Null
    THEN [escrow |-> Null, creator |-> Null]
    ELSE [escrow |-> Ata(mint, EscrowPda(task)), creator |-> Ata(mint, creator)]

\* A worker of Null has no token account; so has a treasury nobody is paid to.
ResolveTokenAccounts(mint, task, creator, worker, treasury) ==
    IF mint = Null
    THEN [escrow |-> Null, creator |-> Null, worker |-> Null, treasury |-> Null]
    ELSE [escrow   |-> Ata(mint, EscrowPda(task)),
          creator  |-> Ata(mint, creator),
          worker   |-> IF worker = Null THEN Null ELSE Ata(mint, worker),
          treasury |-> IF treasury = Null THEN Null ELSE Ata(mint, treasury)]

ExpireTokenAccounts(mint, task, creator, worker) ==
    ResolveTokenAccounts(mint, task, creator, worker, Null)

ApplySlashTokenAccounts(mint, task, treasury) ==
    IF mint = Null
    THEN [escrow |-> Null, treasury |-> Null]
    ELSE [escrow |-> Ata(mint, EscrowPda(task)), treasury |-> Ata(mint, treasury)]

-----------------------------------------------------------------------------
(* Remaining accounts.                                                     *)

\* parent is <<>> or one address; settlement is <<>> or <<book, bid, state>>.
TaskCompletionRemainingAccounts(parent, settlement, bidderAuthority) ==
    parent \o (IF settlement = <<>> THEN <<>> ELSE Append(settlement, bidderAuthority))

AcceptedBidSettlement(task, agent) ==
    <<BidBookPda(task), BidPda(task, agent), BidderMarketStatePda(agent)>>

ExpireClaimRemainingAccounts(settlement, creator) ==
    IF settlement = <<>> THEN <<>> ELSE <<BidMarketplacePda>> \o settlement \o <<creator>>

LegacyCancelTaskRemainingAccounts(task, pairs) ==
    Each(pairs, LAMBDA a : ClaimAndAgent(task, a))

\* The options of a cancellation: the workers given as pairs and as triples,
\* whether triples were given at all, and which settlement accounts were.
CancelHasSettlement(o) == o.settlement # "none"
CancelHasSuffix(o) == o.settlement \in {"accepted", "bidOnly"}

\* Mutant: pairs are refused beside an accepted bid even if triples are given.
CancelRefusedTriplesUnchecked(o) ==
    \/ ~CancelHasSettlement(o) /\ o.triples # {}
    \/ o.settlement = "bidOnly"
    \/ CancelHasSuffix(o) /\ o.pairs # {}
    \/ CancelHasSettlement(o) /\ ~CancelHasSuffix(o) /\ o.triples # {}

\* The options that cancelTask refuses by itself.
CancelRefused(o) ==
    \/ ~CancelHasSettlement(o) /\ o.triples # {}
    \/ o.settlement = "bidOnly"
    \/ CancelHasSuffix(o) /\ ~o.triplesGiven /\ o.pairs # {}
    \/ CancelHasSettlement(o) /\ ~CancelHasSuffix(o) /\ o.triples # {}

\* Without settlement and triples the pairs, else the triples and the
\* settlement: pairs given beside a settlement are dropped.
CancelTaskRemainingAccounts(task, o, bidder) ==
    IF ~CancelHasSettlement(o) /\ o.triples = {}
    THEN LegacyCancelTaskRemainingAccounts(task, o.pairs)
    ELSE Each(o.triples, LAMBDA a : Append(ClaimAndAgent(task, a), Wallet(a)))
         \o <<BidBookPda(task)>>
         \o (IF CancelHasSuffix(o)
             THEN <<BidPda(task, bidder), BidderMarketStatePda(bidder)>> ELSE <<>>)

\* Of a dispute: the votes, then the workers, then the accepted bid; of its
\* initiation the workers only.
DisputeRemainingAccounts(task, dispute, arbiters, workers, settlement) ==
    Each(arbiters, LAMBDA v : <<VotePda(dispute, v), AgentPda(v)>>)
    \o Each(workers, LAMBDA a : ClaimAndAgent(task, a))
    \o settlement

\* The multisig signers, each once, in the order given.
MultisigRemainingAccounts(signers) ==
    FoldLeft(LAMBDA seen, s : IF Contains(seen, s) THEN seen ELSE Append(seen, s),
             <<>>, signers)

\* The bidder's agent account from its id, its address or both.
ResolveBidderAgentPda(id, pda) ==
    IF pda # Null THEN pda ELSE IF id # Null THEN AgentPda(id) ELSE Null

BidderRefused(id, pda) ==
    \/ id = Null /\ pda = Null
    \/ id # Null /\ pda # Null /\ pda # AgentPda(id)
=============================================================================
