------------------------------- MODULE StakePlan -------------------------------
(***************************************************************************)
(* How much every participant of a governance run stakes:                  *)
(* computeStakePlan in scripts/devnet-governance.mjs, a binary search for  *)
(* the least stake whose votes reach the quorum.                           *)
(*                                                                         *)
(* The search assumes that a larger stake never weighs less, although the  *)
(* weight is capped, halved with the remainder dropped, and never zero.    *)
(***************************************************************************)
EXTENDS Integers

VARIABLES terms,   \* what the plan is made from
          low,     \* the search: no stake below low is enough,
          high     \* and high is

planVars == <<terms, low, high>>

INITIAL_AGENT_REPUTATION == 5000
MAX_REPUTATION == 10000
MIN_QUORUM_FACTOR == 2
MAX_VOTE_WEIGHT_MULTIPLIER == 10

Terms == [minProposalStake : Nat, minArbiterStake : Nat, quorumBps : Nat, totalAgents : Nat,
          participantCount : Nat, maxAffordableStake : Int]

Smaller(m, n) == IF m < n THEN m ELSE n
Larger(m, n) == IF m > n THEN m ELSE n

computeVoteWeight(stakeAmount, minArbiterStake) ==
    LET cappedStake == Smaller(stakeAmount, minArbiterStake * MAX_VOTE_WEIGHT_MULTIPLIER) IN
    IF cappedStake <= 0 THEN 0
    ELSE Larger((cappedStake * INITIAL_AGENT_REPUTATION) \div MAX_REPUTATION, 1)

RequiredVoteWeight(totalAgents, quorumBps, minProposalStake) ==
    minProposalStake * Larger((totalAgents * quorumBps) \div 10000, MIN_QUORUM_FACTOR)

\* Mutant: the participants are not counted among the agents.
RequiredWithoutParticipants(t) ==
    RequiredVoteWeight(t.totalAgents, t.quorumBps, t.minProposalStake)

\* The quorum once every participant is registered.
Required(t) ==
    RequiredVoteWeight(t.totalAgents + t.participantCount, t.quorumBps, t.minProposalStake)

HighestSearchStake(t) ==
    Smaller(t.maxAffordableStake, t.minArbiterStake * MAX_VOTE_WEIGHT_MULTIPLIER)

Enough(t, stake) ==
    computeVoteWeight(stake, t.minArbiterStake) * t.participantCount >= Required(t)

PlanRefused(t) ==
    \/ HighestSearchStake(t) < t.minProposalStake
    \/ ~Enough(t, HighestSearchStake(t))

BeginPlan(t) ==
    /\ ~PlanRefused(t)
    /\ terms' = t
    /\ low' = t.minProposalStake
    /\ high' = HighestSearchStake(t)

\* Mutant: the middle is given up as well as what is below it.
NarrowTooFar ==
    /\ low < high
    /\ LET mid == (low + high) \div 2 IN
       IF Enough(terms, mid) THEN high' = mid - 1 /\ UNCHANGED low
                             ELSE low' = mid + 1 /\ UNCHANGED high
    /\ UNCHANGED terms

\* One round of the loop.
Narrow ==
    /\ low < high
    /\ LET mid == (low + high) \div 2 IN
       IF Enough(terms, mid) THEN high' = mid /\ UNCHANGED low
                             ELSE low' = mid + 1 /\ UNCHANGED high
    /\ UNCHANGED terms

PlanInit == /\ terms \in Terms
            /\ ~PlanRefused(terms)
            /\ low = terms.minProposalStake
            /\ high = HighestSearchStake(terms)

PlanSpec == PlanInit /\ [][Narrow]_planVars

(***************************************************************************)
(* When the search ends, its answer reaches the quorum and nothing cheaper *)
(* that the governance accepts does.                                       *)
(***************************************************************************)
PlanCheapest ==
    low = high =>
        /\ Enough(terms, low)
        /\ \A stake \in terms.minProposalStake..(low - 1) : ~Enough(terms, stake)
=============================================================================
