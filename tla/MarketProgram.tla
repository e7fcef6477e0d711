---------------------------- MODULE MarketProgram ----------------------------
(***************************************************************************)
(* The on-chain program as the task market of the SDK sees it.  It is not  *)
(* in the repository: its refusals are those of the error catalogue in     *)
(* src/errors.ts, the accounts it reads by position those that the         *)
(* contract tests pin down, its effects those that the SDK's types,        *)
(* readers and devnet runners observe.  Times, stakes, amounts and rate    *)
(* limits are left out: whoever sends an instruction has to be prepared    *)
(* for a refusal that is not listed here.                                  *)
(*                                                                         *)
(* c is the state of one task with everything that hangs on it, ix an      *)
(* instruction: op, the agent it is about, who sent it, the accounts that  *)
(* are not fixed by the two, and the remaining accounts.                   *)
(***************************************************************************)
EXTENDS Naturals, FiniteSets, MarketAccounts

CONSTANTS Creator,     \* the wallet that creates the task
          Agent,       \* the agents that may work on it
          Arbiter,     \* the agents that may vote on a dispute
          Threshold    \* signatures a protocol operation needs

\* An absent optional argument is not an agent, nor is the creator of the task
\* (SelfTaskNotAllowed); only so many agents and arbiters are registered, and a
\* protocol operation needs at least one signature.
ASSUME MarketAssumption ==
    /\ Agent # {} /\ {Null, Creator} \cap Agent = {}
    /\ IsFiniteSet(Agent) /\ IsFiniteSet(Arbiter)
    /\ Threshold \in Nat \ {0}

Task == TaskPda(Creator, 1)
Parent == TaskPda(Creator, 0)
Dispute == DisputePda(1)
Treasury == Wallet("treasury")

Missing(kind) ==
    [kind |-> kind, status |-> "missing", mode |-> "Auto", spec |-> FALSE,
     claims |-> [a \in Agent |-> "none"], results |-> [a \in Agent |-> "none"],
     market |-> FALSE, book |-> "none", bids |-> [a \in Agent |-> "none"],
     dispute |-> "none", defendant |-> Creator, votes |-> {},
     slashed |-> FALSE]

Working(c) == {a \in Agent : c.claims[a] = "open"}
Accepted(c) == {a \in Agent : c.bids[a] = "Accepted"}
MaxWorkers(c) == IF c.kind.bid \/ c.mode # "Auto" THEN 1 ELSE Cardinality(Agent)
Ended == {"Completed", "Cancelled"}

Err(condition, name) == IF condition THEN {name} ELSE {}

-----------------------------------------------------------------------------
(* What the program refuses for the state it is in.                        *)

ClaimErrors(c, a) ==
    Err(c.status \notin {"Open", "InProgress"}, "TaskNotOpen")
    \cup Err(Cardinality({b \in Agent : c.claims[b] # "none"}) >= MaxWorkers(c), "TaskFullyClaimed")
    \cup Err(c.kind.bid, "BidTaskRequiresAcceptance")
    \cup Err(c.claims[a] # "none", "AlreadyClaimed")

WorkErrors(c, a) == Err(c.claims[a] # "open", "NotClaimed")
                    \cup Err(c.status # "InProgress", "TaskNotInProgress")

TaskErrors(c, ix) ==
    CASE ix.op \in {"createTask", "createDependentTask"} ->
            Err(c.status # "missing", "AccountInUse")
            \cup Err(c.kind.parent # (ix.op = "createDependentTask"), "InvalidDependencyType")
      [] ix.op = "setTaskJobSpec" -> Err(c.status # "Open", "TaskNotOpen")
      [] ix.op = "claimTask" -> ClaimErrors(c, ix.agent)
      [] ix.op = "claimTaskWithJobSpec" ->
            ClaimErrors(c, ix.agent) \cup Err(~c.spec, "AccountNotInitialized")
      [] ix.op = "expireClaim" -> WorkErrors(c, ix.agent)
      [] ix.op = "completeTask" ->
            WorkErrors(c, ix.agent) \cup Err(c.mode # "Auto", "ManualValidationRequiresReviewFlow")
      [] ix.op = "cancelTask" ->
            Err(c.status \notin {"Open", "InProgress"}, "TaskCannotBeCancelled")

ReviewErrors(c, a, mode) ==
    Err(c.status # "PendingValidation", "TaskNotPendingValidation")
    \cup Err(c.results[a] # "Submitted", "SubmissionNotPending")
    \cup Err((c.mode = "CreatorReview") # (mode = "CreatorReview"), "InvalidValidationMode")

ValidationErrors(c, ix) ==
    CASE ix.op = "configureTaskValidation" ->
            Err(c.status # "Open" \/ Working(c) # {}, "TaskValidationImmutableAfterClaim")
            \cup Err(c.mode # "Auto", "TaskValidationAlreadyConfigured")
            \cup Err(c.kind.bid, "ValidationModeUnsupportedTaskType")
      [] ix.op = "submitTaskResult" ->
            WorkErrors(c, ix.agent) \cup Err(c.mode = "Auto", "TaskValidationConfigRequired")
      [] ix.op = "validateTaskResult" -> ReviewErrors(c, ix.agent, "other")
      [] OTHER -> ReviewErrors(c, ix.agent, "CreatorReview")

BidErrors(c, ix) ==
    Err(~c.kind.bid, "TaskNotBidExclusive") \cup
    CASE ix.op = "initializeBidBook" ->
            Err(c.book # "none", "AccountInUse") \cup Err(c.status # "Open", "TaskNotOpen")
      [] ix.op = "createBid" ->
            Err(c.bids[ix.agent] # "none", "AccountInUse")
            \cup Err(c.book # "Open", "BidBookNotOpen") \cup Err(~c.market, "AccountNotInitialized")
      [] ix.op \in {"updateBid", "acceptBid"} ->
            Err(c.bids[ix.agent] # "Active", "BidNotActive") \cup Err(c.book # "Open", "BidBookNotOpen")
      [] OTHER -> Err(c.bids[ix.agent] # "Active", "BidNotActive") \* cancelBid, expireBid

DisputeErrors(c, ix) ==
    CASE ix.op = "initiateDispute" ->
            Err(c.status \notin {"InProgress", "PendingValidation"}, "TaskNotInProgress")
            \cup Err(c.dispute # "none", "AccountInUse")
            \cup Err(c.claims[ix.agent] # "open", "NotTaskParticipant")
      [] ix.op \in {"applyDisputeSlash", "applyInitiatorSlash"} ->
            Err(c.dispute # "Resolved", "DisputeNotResolved")
            \cup Err(c.slashed, "SlashAlreadyApplied")
      [] OTHER ->
            Err(c.dispute # "Active", "DisputeNotActive")
            \cup Err(ix.op = "voteDispute" /\ ix.by \in c.votes, "AlreadyVoted")
            \cup Err(ix.op = "resolveDispute" /\ c.votes = {}, "InsufficientVotes")
            \cup Err(ix.op = "cancelDispute" /\ c.votes # {}, "ActiveDisputeVotes")

CreateOp == {"createTask", "createDependentTask"}
TaskOp == {"setTaskJobSpec", "claimTask", "claimTaskWithJobSpec", "expireClaim",
           "completeTask", "cancelTask"}
ValidationOp == {"configureTaskValidation", "submitTaskResult", "acceptTaskResult",
                 "rejectTaskResult", "autoAcceptTaskResult", "validateTaskResult"}
BidOp == {"initializeBidBook", "createBid", "updateBid", "cancelBid", "acceptBid", "expireBid"}
DisputeOp == {"initiateDispute", "voteDispute", "resolveDispute", "expireDispute",
              "cancelDispute", "applyDisputeSlash", "applyInitiatorSlash"}
ProtocolOp == {"updateProtocolFee", "updateRateLimits", "migrateProtocol", "updateMinVersion"}
MultisigOp == {"initializeBidMarketplace", "updateBidMarketplaceConfig"} \cup ProtocolOp
Op == CreateOp \cup TaskOp \cup ValidationOp \cup BidOp \cup DisputeOp \cup MultisigOp

StatusErrors(c, ix) ==
    IF ix.op \in MultisigOp
    THEN Err(ix.op \notin ProtocolOp /\ c.market # (ix.op = "updateBidMarketplaceConfig"), "AccountInUse")
    ELSE Err(ix.op \notin CreateOp /\ c.status = "missing", "TaskNotFound") \cup
    CASE ix.op \in ValidationOp -> ValidationErrors(c, ix)
      [] ix.op \in BidOp -> BidErrors(c, ix)
      [] ix.op \in DisputeOp -> DisputeErrors(c, ix)
      [] OTHER -> TaskErrors(c, ix)

-----------------------------------------------------------------------------
(* What it refuses for the accounts it is given.                           *)

TokenErrors(c, tokens, expected) ==
    IF tokens = expected THEN {}
    ELSE Err(tokens.escrow = Null, "MissingTokenAccounts")
         \cup Err(tokens.escrow # Null, "InvalidTokenAccountOwner")

\* A parent first if the task has one, then the accepted bid of a bid task.
CompletionErrors(c, ix) ==
    LET a == ix.agent
        rest == IF c.kind.parent /\ ix.remaining # <<>> THEN Tail(ix.remaining) ELSE ix.remaining
    IN  Err(c.kind.parent /\ (ix.remaining = <<>> \/ ix.remaining[1] # Parent),
            "ParentTaskAccountRequired")
        \cup Err(c.kind.bid /\ rest # Append(AcceptedBidSettlement(Task, a), Wallet(a)),
                 "BidSettlementAccountsRequired")
        \cup Err(ix.creator # Wallet(Creator), "InvalidCreator")
        \cup Err(ix.treasury # Treasury, "InvalidTreasury")
        \cup Err(ix.worker # Wallet(a), "InvalidInput")
        \cup TokenErrors(c, ix.tokens,
                         CompletionTokenAccounts(c.kind.mint, Task, Wallet(a), Treasury))

\* The claims and their agents of exactly the workers in S, in any order.
PairsOf(S, accounts) ==
    /\ Len(accounts) = 2 * Cardinality(S)
    /\ \A a \in S : \E i \in 1..Cardinality(S) :
          SubSeq(accounts, 2 * i - 1, 2 * i) = ClaimAndAgent(Task, a)

\* The same with the worker's wallet, which gets the rent back.
TriplesOf(S, accounts) ==
    /\ Len(accounts) = 3 * Cardinality(S)
    /\ \A a \in S : \E i \in 1..Cardinality(S) :
          SubSeq(accounts, 3 * i - 2, 3 * i) = Append(ClaimAndAgent(Task, a), Wallet(a))

CancelErrors(c, ix) ==
    LET r == ix.remaining
        settlement == IF c.book = "Accepted"
                      THEN AcceptedBidSettlement(Task, CHOOSE a \in Accepted(c) : TRUE)
                      ELSE <<BidBookPda(Task)>>
        workers == SubSeq(r, 1, Len(r) - Len(settlement))
    IN  (IF c.book = "none"
         THEN Err(Working(c) # {} /\ r = <<>>, "WorkerAccountsRequired")
              \cup Err(r # <<>> /\ ~PairsOf(Working(c), r), "IncompleteWorkerAccounts")
         ELSE IF Len(r) < Len(settlement) \/ ~IsSuffix(settlement, r)
         THEN {"BidSettlementAccountsRequired"}
         ELSE Err(~TriplesOf(Working(c), workers), "IncompleteWorkerAccounts"))
        \cup TokenErrors(c, ix.tokens, CancelTokenAccounts(c.kind.mint, Task, Wallet(Creator)))

\* The accounts of the worker a dispute is about.
AboutDefendant(c, ix) ==
    ix.claim = ClaimPda(Task, c.defendant) /\ ix.workerAgent = AgentPda(c.defendant)

\* Who complains of whom; the creator has to name the worker.  The claims of
\* workers may follow, each with its agent.
InitiationErrors(c, ix) ==
    LET a == ix.agent
        own == ClaimPda(Task, a)
    IN  (IF ix.by = Creator
         THEN Err(ix.initiatorClaim # Null, "AccountNotInitialized")
              \cup Err(ix.claim # own, "WorkerClaimRequired")
              \cup Err(ix.workerAgent # AgentPda(a), "WorkerAgentRequired")
         ELSE Err(ix.initiatorClaim # own, "NotTaskParticipant"))
        \cup Err(ix.submission # Null
                     /\ (ix.submission # TaskSubmissionPda(own) \/ c.results[a] = "none"),
                 "AccountNotInitialized")
        \cup Err(\A S \in SUBSET Working(c) : ~PairsOf(S, ix.remaining), "InvalidInput")

\* Votes, then whoever works on the task (scripts/devnet-disputes.mjs passes the
\* defendant again), then the accepted bid.
SettlementErrors(c, ix, treasury) ==
    LET r == ix.remaining
        n == 2 * Cardinality(c.votes)
        bid == IF c.kind.bid THEN AcceptedBidSettlement(Task, c.defendant) ELSE <<>>
    IN  Err(Len(r) < n \/ \E v \in c.votes : \A i \in 1..Cardinality(c.votes) :
                SubSeq(r, 2 * i - 1, 2 * i) # <<VotePda(Dispute, v), AgentPda(v)>>, "InvalidInput")
        \cup Err(Len(r) >= n /\ ~IsSuffix(bid, r), "BidSettlementAccountsRequired")
        \cup Err(~PairsOf(Working(c), SubSeq(r, n + 1, Len(r) - Len(bid))), "IncompleteWorkerAccounts")
        \cup Err(~AboutDefendant(c, ix) \/ ix.worker # Wallet(c.defendant), "WorkerNotInDispute")
        \cup TokenErrors(c, ix.tokens, ResolveTokenAccounts(c.kind.mint, Task, Wallet(Creator),
                                                            Wallet(c.defendant), treasury))

AccountErrors(c, ix) ==
    LET a == ix.agent IN
    CASE ix.op \in {"completeTask", "acceptTaskResult", "autoAcceptTaskResult"} ->
            CompletionErrors(c, ix)
      [] ix.op = "validateTaskResult" ->
            CompletionErrors(c, ix)
            \cup Err((c.mode = "ValidatorQuorum") # (ix.attestor = Null), "InvalidInput")
      [] ix.op = "rejectTaskResult" -> Err(ix.worker # Wallet(a), "InvalidInput")
      [] ix.op = "expireClaim" ->
            Err(ix.rent # Wallet(a), "InvalidRentRecipient")
            \cup Err(c.kind.bid /\ ix.remaining # <<BidMarketplacePda>>
                        \o AcceptedBidSettlement(Task, a) \o <<Wallet(Creator)>>,
                     "BidSettlementAccountsRequired")
      [] ix.op = "cancelTask" -> CancelErrors(c, ix)
      [] ix.op = "expireBid" -> Err(ix.bidder # Wallet(a), "InvalidInput")
      [] ix.op \in {"createBid", "updateBid", "cancelBid", "acceptBid"} ->
            Err(ix.bidder # AgentPda(a), "InvalidInput")
      [] ix.op = "initiateDispute" -> InitiationErrors(c, ix)
      [] ix.op = "voteDispute" ->
            Err((ix.claim # Null \/ ix.workerAgent # Null) /\ ~AboutDefendant(c, ix),
                "WorkerNotInDispute")
      [] ix.op = "resolveDispute" -> SettlementErrors(c, ix, Treasury)
      [] ix.op = "expireDispute" -> SettlementErrors(c, ix, Null)
      [] ix.op = "cancelDispute" ->
            Err(ix.remaining # <<AgentPda(c.defendant)>>, "WorkerAgentRequired")
      [] ix.op = "applyDisputeSlash" ->
            Err(ix.treasury # Treasury, "InvalidTreasury")
            \cup Err(~AboutDefendant(c, ix), "WorkerNotInDispute")
            \cup TokenErrors(c, ix.tokens, ApplySlashTokenAccounts(c.kind.mint, Task, Treasury))
      [] ix.op = "applyInitiatorSlash" -> Err(ix.treasury # Treasury, "InvalidTreasury")
      [] ix.op \in MultisigOp ->
            Err(Cardinality(ToSet(ix.remaining)) < Threshold, "MultisigNotEnoughSigners")
            \cup Err(~IsInjective(ix.remaining), "MultisigDuplicateSigner")
      [] ix.op \in {"createTask", "createDependentTask"} ->
            TokenErrors(c, ix.tokens,
                        CreationTokenAccounts(c.kind.mint, Wallet(Creator), Task, Null))
      [] OTHER -> {}

-----------------------------------------------------------------------------
(* What an instruction does that is not refused.                           *)

\* The work of a is paid: the claim ends, and with it the accepted bid.
Pay(c, a) ==
    [c EXCEPT !.status = "Completed", !.claims[a] = "done",
              !.results[a] = IF @ = "Submitted" THEN "Accepted" ELSE @,
              !.bids[a] = "none", !.book = IF c.kind.bid THEN "Closed" ELSE @]

\* The task ends with the claims of everybody and the accepted bid closed.
CloseAll(c, status) ==
    [c EXCEPT !.status = status, !.claims = [a \in Agent |-> "none"],
              !.bids = [a \in Agent |-> IF c.bids[a] = "Accepted" THEN "none" ELSE c.bids[a]],
              !.book = IF @ = "none" THEN "none" ELSE "Closed"]

Reopen(c, a) ==
    LET d == [c EXCEPT !.claims[a] = "none", !.bids[a] = "none",
                       !.book = IF c.kind.bid THEN "Open" ELSE @]
    IN  [d EXCEPT !.status = IF Working(d) = {} THEN "Open" ELSE @]

\* A review that turns the result down; the worker may submit again.
TurnDown(c, a) == [c EXCEPT !.results[a] = "Rejected", !.status = "InProgress"]

After(c, ix) ==
    LET a == ix.agent IN
    CASE ix.op \in {"createTask", "createDependentTask"} -> [c EXCEPT !.status = "Open"]
      [] ix.op = "setTaskJobSpec" -> [c EXCEPT !.spec = TRUE]
      [] ix.op \in {"claimTask", "claimTaskWithJobSpec"} ->
            [c EXCEPT !.claims[a] = "open", !.status = "InProgress"]
      [] ix.op = "expireClaim" -> Reopen(c, a)
      [] ix.op \in {"completeTask", "acceptTaskResult", "autoAcceptTaskResult"} -> Pay(c, a)
      [] ix.op = "validateTaskResult" -> IF ix.approved THEN Pay(c, a) ELSE TurnDown(c, a)
      [] ix.op = "rejectTaskResult" -> TurnDown(c, a)
      [] ix.op = "configureTaskValidation" -> [c EXCEPT !.mode = ix.mode]
      [] ix.op = "submitTaskResult" ->
            [c EXCEPT !.results[a] = "Submitted", !.status = "PendingValidation"]
      [] ix.op = "cancelTask" -> CloseAll(c, "Cancelled")
      [] ix.op = "initializeBidBook" -> [c EXCEPT !.book = "Open"]
      [] ix.op = "createBid" -> [c EXCEPT !.bids[a] = "Active"]
      [] ix.op \in {"cancelBid", "expireBid"} -> [c EXCEPT !.bids[a] = "none"]
      [] ix.op = "acceptBid" ->
            [c EXCEPT !.bids[a] = "Accepted", !.book = "Accepted", !.claims[a] = "open",
                      !.status = "InProgress"]
      [] ix.op = "initiateDispute" ->
            [c EXCEPT !.dispute = "Active", !.defendant = a, !.status = "Disputed"]
      [] ix.op = "voteDispute" -> [c EXCEPT !.votes = @ \cup {ix.by}]
      [] ix.op = "resolveDispute" -> [CloseAll(c, "Completed") EXCEPT !.dispute = "Resolved"]
      [] ix.op = "expireDispute" -> [CloseAll(c, "Cancelled") EXCEPT !.dispute = "Expired"]
      [] ix.op = "cancelDispute" ->
            [c EXCEPT !.dispute = "Cancelled",
                      !.status = IF \E b \in Agent : c.results[b] = "Submitted"
                                 THEN "PendingValidation" ELSE "InProgress"]
      [] ix.op \in {"applyDisputeSlash", "applyInitiatorSlash"} -> [c EXCEPT !.slashed = TRUE]
      [] ix.op = "initializeBidMarketplace" -> [c EXCEPT !.market = TRUE]
      [] OTHER -> c \* updateBid, and the configuration of the protocol
=============================================================================
