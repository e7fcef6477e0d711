------------------------------ MODULE GovernanceRun ------------------------------
(***************************************************************************)
(* scripts/devnet-governance.mjs: a run that registers agents, has them    *)
(* vote for a change of the fee, executes it, or leaves an artifact from   *)
(* which a later run resumes, and deregisters the agents whatever happened.*)
(*                                                                         *)
(* Registrations and votes are sent together and awaited with Promise.all, *)
(* which gives up at the first that fails while the others go on: a        *)
(* registration may be executed after the clean-up has passed.             *)
(*                                                                         *)
(* Every transaction has the same life, kept in tx[<<operation, p>>]:      *)
(*                                                                         *)
(*   none -> sent -> landed -> ok                                          *)
(*              \-> lost  \-> failed                                       *)
(*                                                                         *)
(* "lost" is one that rpc() gave up on and that may still be executed;     *)
(* "ok" and "failed" are those that are over.                              *)
(***************************************************************************)
EXTENDS StakePlan, FiniteSets

CONSTANTS N,            \* participants; the first one is the proposer
          World,        \* protocols the run may find
          Wallets,      \* wallets it may be started with, and how long it may wait
          FeeBuffer,    \* left in every wallet for fees
          VotingPeriod, ExecutionDelay,
          RivalFee,     \* what other people's proposals set the fee to
          MaxOthers,    \* bound: agents of other people
          MaxClock      \* bound: the time

VARIABLES chain,    \* the accounts the run deals with
          clock,
          run,      \* the initial run
          resume,   \* the run with --resume, as often as the operator starts it
          tx

govVars == <<chain, clock, run, resume, tx, terms, low, high>>

Participant == 1..N
Proposer == 1

Operation == {"initializeGovernance", "registerAgent", "createProposal", "voteProposal",
              "executeProposal", "deregisterAgent", "resume"}
Status == {"none", "sent", "lost", "landed", "ok", "failed"}

Governance == [exists : BOOLEAN, minProposalStake : Nat, quorumBps : Nat]

ASSUME GovAssumption ==
    /\ N \in Nat \ {0}
    /\ World \subseteq [fee : Nat, governance : Governance, minAgentStake : Nat,
                       minArbiterStake : Nat, others : Nat]
    /\ Wallets \subseteq [authority : {"none", "protocol", "other"}, balance : [1..N -> Nat],
                         maxWait : Nat]
    /\ {FeeBuffer, VotingPeriod, ExecutionDelay, RivalFee, MaxOthers, MaxClock} \subseteq Nat

GovernanceDefaults(c) == [exists |-> TRUE, minProposalStake |-> c.minAgentStake, quorumBps |-> 2000]

NoPlan == [minProposalStake |-> 0, minArbiterStake |-> 0, quorumBps |-> 0, totalAgents |-> 0,
           participantCount |-> 0, maxAffordableStake |-> 0]
NoProposal == [status |-> "none", quorum |-> 0, votes |-> 0, deadline |-> 0, executionAfter |-> 0,
               fee |-> 0]

-----------------------------------------------------------------------------
(* The program.  A vote is an account of the proposal and the voter's      *)
(* wallet, so a wallet votes once.                                         *)

stake == low

TotalAgents(c) == c.others + Cardinality(c.mine)

VoteWeight(c) == computeVoteWeight(stake, c.minArbiterStake)

Accepts(c, op, p) ==
    CASE op = "initializeGovernance" -> ~c.governance.exists
      [] op = "registerAgent" -> p \notin c.mine /\ stake >= c.minAgentStake
      [] op = "deregisterAgent" -> p \in c.mine
      [] op = "createProposal" -> p \in c.mine /\ c.proposal.status = "none"
      [] op = "voteProposal" -> /\ p \in c.mine /\ p \notin c.ballots
                                /\ c.proposal.status = "Active"
                                /\ clock < c.proposal.deadline
      [] OTHER -> c.proposal.status = "Active" /\ clock >= c.proposal.executionAfter

After(c, op, p) ==
    CASE op = "initializeGovernance" -> [c EXCEPT !.governance = GovernanceDefaults(c)]
      [] op = "registerAgent" -> [c EXCEPT !.mine = @ \cup {p}]
      [] op = "deregisterAgent" -> [c EXCEPT !.mine = @ \ {p}]
      [] op = "createProposal" ->
            [c EXCEPT !.proposal =
                [status |-> "Active",
                 quorum |-> RequiredVoteWeight(TotalAgents(c), c.governance.quorumBps,
                                               c.governance.minProposalStake),
                 votes |-> 0, deadline |-> clock + VotingPeriod,
                 executionAfter |-> clock + VotingPeriod + ExecutionDelay, fee |-> run.nextFee]]
      [] op = "voteProposal" -> [c EXCEPT !.ballots = @ \cup {p}, !.proposal.votes = @ + VoteWeight(c)]
      [] op \in {"executeProposal", "resume"} /\ c.proposal.votes >= c.proposal.quorum ->
            [c EXCEPT !.proposal.status = "Executed", !.fee = c.proposal.fee]
      [] OTHER -> [c EXCEPT !.proposal.status = "Defeated"]

Send(calls) == tx' = [t \in DOMAIN tx |-> IF t \in calls THEN "sent" ELSE tx[t]]

\* The wrappers of the SDK: each builds one instruction and sends it.
initializeGovernance == Send({<<"initializeGovernance", Proposer>>})

registerAgent(ps) == Send({"registerAgent"} \X ps)

createProposal == Send({<<"createProposal", Proposer>>})

voteProposal(ps) == Send({"voteProposal"} \X ps)

executeProposal(op) == Send({<<op, Proposer>>})

deregisterAgent(p) == Send({<<"deregisterAgent", p>>})

Becomes(t, status) == tx' = [tx EXCEPT ![t] = status]

TxLand(t) ==
    /\ tx[t] \in {"sent", "lost"}
    /\ Accepts(chain, t[1], t[2])
    /\ chain' = After(chain, t[1], t[2])
    /\ Becomes(t, IF tx[t] = "sent" THEN "landed" ELSE "failed")
    /\ UNCHANGED <<clock, run, resume, terms, low, high>>

\* The program refuses it, or the network forgets one that was lost.
TxReject(t) == /\ tx[t] \in {"sent", "lost"}
               /\ Becomes(t, "failed")
               /\ UNCHANGED <<chain, clock, run, resume, terms, low, high>>

RpcLosesTx(t) == /\ tx[t] = "sent"
                 /\ Becomes(t, "lost")
                 /\ UNCHANGED <<chain, clock, run, resume, terms, low, high>>

TxConfirmed(t) == /\ tx[t] = "landed"
                  /\ Becomes(t, "ok")
                  /\ UNCHANGED <<chain, clock, run, resume, terms, low, high>>

ConfirmationThrows(t) == /\ tx[t] = "landed"
                         /\ Becomes(t, "failed")
                         /\ UNCHANGED <<chain, clock, run, resume, terms, low, high>>

AllOk(op) == \A p \in Participant : tx[<<op, p>>] = "ok"

Rejected(op) == \E p \in Participant : tx[<<op, p>>] \in {"lost", "failed"}

-----------------------------------------------------------------------------
(* The initial run.                                                        *)

At(phase) == run.phase = phase

Goto(phase) == run' = [run EXCEPT !.phase = phase]

\* Mutant: an error before the agents are registered ends the run without an outcome.
FailUnreported == run' = [run EXCEPT !.phase = "over"]

\* An error before the agents are registered ends the run, a later one goes
\* through the finally block.
Fail == run' = [run EXCEPT !.phase = "over", !.outcome = "threw"]

CleanUp(outcome) == run' = [run EXCEPT !.phase = "cleanup", !.outcome = outcome]

ReadProtocol ==
    /\ At("start")
    /\ \/ run' = [run EXCEPT !.phase = "totals",
                             !.nextFee = IF chain.fee >= 999 THEN chain.fee - 1 ELSE chain.fee + 1]
       \/ Fail
    /\ UNCHANGED <<chain, clock, resume, tx, terms, low, high>>

ReadTotals ==
    /\ At("totals")
    /\ run' = [run EXCEPT !.phase = "config", !.totalAgents = TotalAgents(chain)] \/ Fail
    /\ UNCHANGED <<chain, clock, resume, tx, terms, low, high>>

ReadGovernance ==
    /\ At("config")
    /\ \/ /\ chain.governance.exists
          /\ Goto("balances")
          /\ UNCHANGED tx
       \/ /\ ~chain.governance.exists /\ run.authority = "protocol"
          /\ Goto("initializing")
          /\ initializeGovernance
       \/ /\ ~chain.governance.exists /\ run.authority # "protocol"
          /\ Fail
          /\ UNCHANGED tx
       \/ Fail /\ UNCHANGED tx
    /\ UNCHANGED <<chain, clock, resume, terms, low, high>>

\* The configuration is read again after it was initialized.
GovernanceInitialized ==
    /\ At("initializing")
    /\ \/ tx[<<"initializeGovernance", Proposer>>] = "ok" /\ chain.governance.exists /\ Goto("balances")
       \/ tx[<<"initializeGovernance", Proposer>>] \in {"ok", "lost", "failed"} /\ Fail
    /\ UNCHANGED <<chain, clock, resume, tx, terms, low, high>>

BalancesSuffice ==
    \A p \in Participant : run.balance[p] >= chain.governance.minProposalStake + FeeBuffer

PlanTerms ==
    [minProposalStake |-> chain.governance.minProposalStake, minArbiterStake |-> chain.minArbiterStake,
     quorumBps |-> chain.governance.quorumBps, totalAgents |-> run.totalAgents, participantCount |-> N,
     maxAffordableStake |->
        CHOOSE b \in {run.balance[p] - FeeBuffer : p \in Participant} :
            \A p \in Participant : b <= run.balance[p] - FeeBuffer]

ReadBalances ==
    /\ At("balances")
    /\ \/ BalancesSuffice /\ BeginPlan(PlanTerms) /\ Goto("planning")
       \/ (~BalancesSuffice \/ PlanRefused(PlanTerms)) /\ Fail /\ UNCHANGED planVars
       \/ Fail /\ UNCHANGED planVars
    /\ UNCHANGED <<chain, clock, resume, tx>>

SearchStake == At("planning") /\ Narrow /\ UNCHANGED <<chain, clock, run, resume, tx>>

RegisterAgents ==
    /\ At("planning") /\ low = high
    /\ Goto("registering") /\ registerAgent(Participant)
    /\ UNCHANGED <<chain, clock, resume, terms, low, high>>

CreateProposal ==
    /\ At("registering")
    /\ \/ AllOk("registerAgent") /\ Goto("creating") /\ createProposal
       \/ Rejected("registerAgent") /\ CleanUp("threw") /\ UNCHANGED tx
    /\ UNCHANGED <<chain, clock, resume, terms, low, high>>

CastVotes ==
    /\ At("creating")
    /\ \/ tx[<<"createProposal", Proposer>>] = "ok" /\ Goto("voting") /\ voteProposal(Participant)
       \/ tx[<<"createProposal", Proposer>>] \in {"lost", "failed"} /\ CleanUp("threw") /\ UNCHANGED tx
    /\ UNCHANGED <<chain, clock, resume, terms, low, high>>

\* getProposal, then waitUntilUnix: too long a wait is deferred to --resume.
ReadProposal ==
    /\ At("voting")
    /\ LET waitSeconds == Larger(chain.proposal.executionAfter - clock, 0) IN
       \/ /\ AllOk("voteProposal") /\ waitSeconds > run.maxWait
          /\ CleanUp("deferred")
       \/ /\ AllOk("voteProposal") /\ waitSeconds <= run.maxWait
          /\ run' = [run EXCEPT !.phase = "waiting",
                                !.wake = IF waitSeconds > 0 THEN clock + waitSeconds + 1 ELSE clock]
       \/ CleanUp("threw") /\ (AllOk("voteProposal") \/ Rejected("voteProposal"))
    /\ UNCHANGED <<chain, clock, resume, tx, terms, low, high>>

\* executeProposal reads the protocol's treasury before it sends.
ExecuteProposal ==
    /\ At("waiting") /\ clock >= run.wake
    /\ \/ Goto("executing") /\ executeProposal("executeProposal")
       \/ CleanUp("threw") /\ UNCHANGED tx
    /\ UNCHANGED <<chain, clock, resume, terms, low, high>>

\* Mutant: the fee is not compared.
CheckFeeNot ==
    /\ At("executing")
    /\ \/ tx[<<"executeProposal", Proposer>>] = "ok" /\ CleanUp("final")
       \/ tx[<<"executeProposal", Proposer>>] \in {"ok", "lost", "failed"} /\ CleanUp("threw")
    /\ UNCHANGED <<chain, clock, resume, tx, terms, low, high>>

CheckFee ==
    /\ At("executing")
    /\ \/ tx[<<"executeProposal", Proposer>>] = "ok" /\ chain.fee = run.nextFee /\ CleanUp("final")
       \/ tx[<<"executeProposal", Proposer>>] \in {"ok", "lost", "failed"} /\ CleanUp("threw")
    /\ UNCHANGED <<chain, clock, resume, tx, terms, low, high>>

\* The finally block: one participant after the other.
Deregister ==
    /\ At("cleanup") /\ run.next \in Participant
    /\ tx[<<"deregisterAgent", run.next>>] = "none"
    /\ deregisterAgent(run.next)
    /\ UNCHANGED <<chain, clock, run, resume, terms, low, high>>

\* Mutant: a registration that failed is not cleaned up.
DeregisteredRegisteredOnly ==
    /\ At("cleanup") /\ run.next \in Participant
    /\ \/ /\ tx[<<"deregisterAgent", run.next>>] = "ok" \/ tx[<<"registerAgent", run.next>>] # "ok"
          /\ run' = [run EXCEPT !.next = @ + 1]
       \/ /\ tx[<<"deregisterAgent", run.next>>] \in {"lost", "failed"}
          /\ run' = [run EXCEPT !.next = @ + 1, !.warned = @ \cup {run.next}]
    /\ UNCHANGED <<chain, clock, resume, tx, terms, low, high>>

Deregistered ==
    /\ At("cleanup") /\ run.next \in Participant
    /\ \/ /\ tx[<<"deregisterAgent", run.next>>] = "ok"
          /\ run' = [run EXCEPT !.next = @ + 1]
       \/ /\ tx[<<"deregisterAgent", run.next>>] \in {"lost", "failed"}
          /\ run' = [run EXCEPT !.next = @ + 1, !.warned = @ \cup {run.next}]
    /\ UNCHANGED <<chain, clock, resume, tx, terms, low, high>>

Finish == /\ At("cleanup") /\ run.next \notin Participant
          /\ Goto("over")
          /\ UNCHANGED <<chain, clock, resume, tx, terms, low, high>>

-----------------------------------------------------------------------------
(* The run with --resume.                                                  *)

Stop(reported) == resume' = [phase |-> "idle", reported |-> resume.reported \/ reported]

ResumeStart ==
    /\ At("over") /\ run.outcome = "deferred"
    /\ resume.phase = "idle" /\ tx[<<"resume", Proposer>>] # "lost"
    /\ resume' = [resume EXCEPT !.phase = "reading"]
    /\ UNCHANGED <<chain, clock, run, tx, terms, low, high>>

\* Mutant: the lock is compared the wrong way round.
ResumeReadsEarly ==
    /\ resume.phase = "reading"
    /\ IF clock < chain.proposal.executionAfter
       THEN resume' = [resume EXCEPT !.phase = "executing"] /\ executeProposal("resume")
       ELSE Stop(FALSE) /\ UNCHANGED tx
    /\ UNCHANGED <<chain, clock, run, terms, low, high>>

ResumeReads ==
    /\ resume.phase = "reading"
    /\ IF clock >= chain.proposal.executionAfter
       THEN resume' = [resume EXCEPT !.phase = "executing"] /\ executeProposal("resume")
       ELSE Stop(FALSE) /\ UNCHANGED tx
    /\ UNCHANGED <<chain, clock, run, terms, low, high>>

ResumeReadThrows ==
    /\ resume.phase = "reading"
    /\ Stop(FALSE)
    /\ UNCHANGED <<chain, clock, run, tx, terms, low, high>>

ResumeEnds ==
    /\ resume.phase = "executing"
    /\ \/ tx[<<"resume", Proposer>>] = "ok" /\ Stop(TRUE)
       \/ tx[<<"resume", Proposer>>] \in {"ok", "lost", "failed"} /\ Stop(FALSE)
    /\ UNCHANGED <<chain, clock, run, tx, terms, low, high>>

-----------------------------------------------------------------------------
(* Everybody else.                                                         *)

OthersRegister ==
    /\ chain.others < MaxOthers /\ chain.proposal.status = "none"
    /\ chain' = [chain EXCEPT !.others = @ + 1]
    /\ UNCHANGED <<clock, run, resume, tx, terms, low, high>>

OthersChangeFee ==
    /\ ~chain.rival /\ run.outcome = "pending" \* nobody reads the fee later
    /\ chain' = [chain EXCEPT !.fee = RivalFee, !.rival = TRUE]
    /\ UNCHANGED <<clock, run, resume, tx, terms, low, high>>

\* The operator takes the proposal back by hand.
CancelProposal ==
    /\ chain.proposal.status = "Active" /\ run.outcome = "deferred"
    /\ chain' = [chain EXCEPT !.proposal.status = "Cancelled"]
    /\ UNCHANGED <<clock, run, resume, tx, terms, low, high>>

Tick == /\ chain.proposal.status # "none" /\ clock < MaxClock
        /\ clock' = clock + 1
        /\ UNCHANGED <<chain, run, resume, tx, terms, low, high>>

-----------------------------------------------------------------------------
GovInit ==
    /\ \E w \in World :
          chain = [fee |-> w.fee, governance |-> w.governance, minAgentStake |-> w.minAgentStake,
                   minArbiterStake |-> w.minArbiterStake, others |-> w.others, mine |-> {},
                   ballots |-> {}, proposal |-> NoProposal, rival |-> FALSE]
    /\ \E k \in Wallets :
          run = [phase |-> "start", outcome |-> "pending", authority |-> k.authority,
                 balance |-> k.balance, maxWait |-> k.maxWait, nextFee |-> 0, totalAgents |-> 0,
                 wake |-> 0, next |-> 1, warned |-> {}]
    /\ clock = 0
    /\ resume = [phase |-> "idle", reported |-> FALSE]
    /\ tx = [t \in Operation \X Participant |-> "none"]
    /\ terms = NoPlan /\ low = 0 /\ high = 0

TxStep == \E t \in Operation \X Participant :
    TxLand(t) \/ TxReject(t) \/ RpcLosesTx(t) \/ TxConfirmed(t) \/ ConfirmationThrows(t)

RunStep == \/ ReadProtocol \/ ReadTotals \/ ReadGovernance \/ GovernanceInitialized \/ ReadBalances
           \/ SearchStake \/ RegisterAgents \/ CreateProposal \/ CastVotes \/ ReadProposal
           \/ ExecuteProposal \/ CheckFee \/ Deregister \/ Deregistered \/ Finish

ResumeStep == ResumeStart \/ ResumeReads \/ ResumeReadThrows \/ ResumeEnds

GovNext == \/ TxStep \/ RunStep \/ ResumeStep
           \/ OthersRegister \/ OthersChangeFee \/ CancelProposal \/ Tick

\* Transactions are settled and the run goes on, the operator resumes it again
\* and again, and of the nodes asked again and again one answers and executes.
GovFairness ==
    /\ WF_govVars(Tick) /\ WF_govVars(TxStep) /\ WF_govVars(RunStep) /\ WF_govVars(ResumeStep)
    /\ SF_govVars(ResumeReads) /\ SF_govVars(TxLand(<<"resume", Proposer>>))

GovSpec == GovInit /\ [][GovNext]_govVars /\ GovFairness

-----------------------------------------------------------------------------
GovTypeOK ==
    /\ tx \in [Operation \X Participant -> Status]
    /\ chain.mine \subseteq Participant /\ chain.ballots \subseteq chain.mine \cup Participant
    /\ chain.proposal.status \in {"none", "Active", "Executed", "Defeated", "Cancelled"}
    /\ run.outcome \in {"pending", "deferred", "final", "threw"}
    /\ run.next \in 1..(N + 1) /\ run.warned \subseteq Participant
    /\ resume.phase \in {"idle", "reading", "executing"}
    /\ At("over") => run.outcome # "pending"

(***************************************************************************)
(* The plan made before anybody is registered reaches the quorum that is   *)
(* set when the proposal is created, once every participant has voted,     *)
(* unless other people registered agents in between.                       *)
(***************************************************************************)
PlanReachesQuorum ==
    chain.ballots = Participant /\ chain.others <= run.totalAgents
        => chain.proposal.votes >= chain.proposal.quorum

(***************************************************************************)
(* No agent is left behind silently: when the run is over, every agent of  *)
(* its own that is registered, or that a late transaction registers yet,   *)
(* is one the clean-up has warned about.                                   *)
(***************************************************************************)
LeftBehindWarned == At("over") => chain.mine \subseteq run.warned

(***************************************************************************)
(* What a run reports has happened: a run that ends well has executed its  *)
(* proposal (or another one has set the same fee), and a resumed run that  *)
(* reports a result has settled it.                                        *)
(***************************************************************************)
ReportsAreTrue ==
    /\ run.outcome = "final" =>
          chain.proposal.status = "Executed" \/ (chain.rival /\ RivalFee = run.nextFee)
    /\ resume.reported => chain.proposal.status \in {"Executed", "Defeated"}

(***************************************************************************)
(* An artifact is always enough to go on from: a proposal that was         *)
(* deferred is settled in the end, although its voters are deregistered    *)
(* before it is executed.                                                  *)
(***************************************************************************)
DeferredSettles ==
    run.outcome = "deferred" ~> chain.proposal.status \in {"Executed", "Defeated", "Cancelled"}
=============================================================================
