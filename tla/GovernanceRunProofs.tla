-------------------------- MODULE GovernanceRunProofs --------------------------
(***************************************************************************)
(* What holds of every governance run, for any number of participants, any *)
(* protocol it finds and any wallets it is given.                          *)
(*                                                                         *)
(* Four invariants, each kept by every step given the types:               *)
(*                                                                         *)
(*   TypeInv     types, with the loop invariant of the binary search;      *)
(*   LeftInv     which agents are registered, and who was passed;          *)
(*   ReportInv   what an outcome says of the proposal;                     *)
(*   QuorumInv   the plan still describes the protocol it was made for.    *)
(***************************************************************************)
EXTENDS GovernanceRun, FiniteSetTheorems, WellFoundedInduction, TLAPS

\* There is a least one among any natural numbers.
LEMMA LeastOfNaturals ==
  ASSUME NEW T, T \subseteq Nat, T # {}
  PROVE  \E m \in T : \A n \in T : m <= n
<1>1. IsWellFoundedOn(OpToRel(<, Nat), Nat)
  BY NatLessThanWellFounded
<1>2. PICK m \in T : \A n \in T : ~(<<n, m>> \in OpToRel(<, Nat))
  BY <1>1, WFMin
<1>3. ASSUME NEW n \in T
      PROVE  m <= n
  <2>1. m \in Nat /\ n \in Nat
    OBVIOUS
  <2>2. ~(n < m)
    BY <1>2, <2>1 DEF OpToRel
  <2> QED
    BY <2>1, <2>2
<1> QED
  BY <1>3

\* A vote weighs a whole number.
LEMMA WeightIsNat ==
  ASSUME NEW s \in Int, NEW m \in Nat
  PROVE  computeVoteWeight(s, m) \in Nat
BY DEF computeVoteWeight, Smaller, Larger, MAX_VOTE_WEIGHT_MULTIPLIER, INITIAL_AGENT_REPUTATION,
       MAX_REPUTATION

\* Capping, halving and the least weight of 1 never make a larger stake lighter.
LEMMA WeightMonotone ==
  ASSUME NEW s1 \in Int, NEW s2 \in Int, s1 <= s2, NEW m \in Nat
  PROVE  computeVoteWeight(s1, m) <= computeVoteWeight(s2, m)
BY DEF computeVoteWeight, Smaller, Larger, MAX_VOTE_WEIGHT_MULTIPLIER, INITIAL_AGENT_REPUTATION,
       MAX_REPUTATION

\* Multiplication by a natural number keeps the order.
LEMMA ProductMonotone ==
  ASSUME NEW a \in Nat, NEW b \in Nat, NEW n \in Nat, a <= b
  PROVE  a * n <= b * n
OBVIOUS

\* The quorum is a whole number.
LEMMA RequiredIsNat ==
  ASSUME NEW agents \in Nat, NEW bps \in Nat, NEW min \in Nat
  PROVE  RequiredVoteWeight(agents, bps, min) \in Nat
<1>1. (agents * bps) \div 10000 \in Nat
  OBVIOUS
<1>2. Larger((agents * bps) \div 10000, MIN_QUORUM_FACTOR) \in Nat
  BY <1>1 DEF Larger, MIN_QUORUM_FACTOR
<1> QED
  BY <1>2 DEF RequiredVoteWeight

\* More agents never ask for fewer votes.
LEMMA RequiredMonotone ==
  ASSUME NEW a1 \in Nat, NEW a2 \in Nat, a1 <= a2, NEW bps \in Nat, NEW min \in Nat
  PROVE  RequiredVoteWeight(a1, bps, min) <= RequiredVoteWeight(a2, bps, min)
<1> DEFINE f1 == Larger((a1 * bps) \div 10000, MIN_QUORUM_FACTOR)
           f2 == Larger((a2 * bps) \div 10000, MIN_QUORUM_FACTOR)
<1>1. /\ a1 * bps \in Nat /\ a2 * bps \in Nat
      /\ a1 * bps <= a2 * bps
  BY ProductMonotone
<1>2. /\ (a1 * bps) \div 10000 \in Nat /\ (a2 * bps) \div 10000 \in Nat
      /\ (a1 * bps) \div 10000 <= (a2 * bps) \div 10000
  <2> DEFINE x == a1 * bps
             y == a2 * bps
  <2>1. x \in Nat /\ y \in Nat /\ x <= y
    BY <1>1
  <2> HIDE DEF x, y
  <2>2. x \div 10000 \in Nat /\ y \div 10000 \in Nat /\ x \div 10000 <= y \div 10000
    BY <2>1
  <2> QED
    BY <2>2 DEF x, y
<1>3. f1 \in Nat /\ f2 \in Nat /\ f1 <= f2
  BY <1>2 DEF Larger, MIN_QUORUM_FACTOR
<1> HIDE DEF f1, f2
<1>4. min * f1 <= min * f2
  BY <1>3, ProductMonotone
<1> QED
  BY <1>4 DEF f1, f2, RequiredVoteWeight

\* A larger stake is enough when a smaller one is.
LEMMA EnoughMonotone ==
  ASSUME NEW t \in Terms, NEW s1 \in Int, NEW s2 \in Int, s1 <= s2, Enough(t, s1)
  PROVE  Enough(t, s2)
<1> DEFINE w1 == computeVoteWeight(s1, t.minArbiterStake)
           w2 == computeVoteWeight(s2, t.minArbiterStake)
           n == t.participantCount
<1>1. w1 \in Nat /\ w2 \in Nat /\ w1 <= w2 /\ n \in Nat
  BY WeightIsNat, WeightMonotone DEF Terms
<1>2. Required(t) \in Nat
  <2>1. /\ t.totalAgents + t.participantCount \in Nat /\ t.quorumBps \in Nat
        /\ t.minProposalStake \in Nat
    BY DEF Terms
  <2> QED
    BY <2>1, RequiredIsNat DEF Required
<1> HIDE DEF w1, w2, n
<1>3. w1 * n <= w2 * n
  BY <1>1, ProductMonotone
<1>4. w1 * n >= Required(t)
  BY DEF Enough, w1, n
<1>5. w2 * n >= Required(t)
  BY <1>1, <1>2, <1>3, <1>4
<1> QED
  BY <1>5 DEF Enough, w2, n

-----------------------------------------------------------------------------
(* The search: nothing below low is enough, high is.                       *)

PlanInv ==
    /\ terms \in Terms /\ low \in Int /\ high \in Int
    /\ terms.minProposalStake <= low /\ low <= high
    /\ Enough(terms, high)
    /\ \A s \in terms.minProposalStake..(low - 1) : ~Enough(terms, s)

\* The upper end of the search is a whole number.
LEMMA HighestIsInt ==
  ASSUME NEW t \in Terms
  PROVE  HighestSearchStake(t) \in Int
BY DEF Terms, HighestSearchStake, Smaller, MAX_VOTE_WEIGHT_MULTIPLIER

\* The invariant holds when the search begins: nothing is below low, and high was checked.
LEMMA PlanBegins ==
  ASSUME NEW t \in Terms, BeginPlan(t)
  PROVE  PlanInv'
<1>1. /\ HighestSearchStake(t) >= t.minProposalStake
      /\ Enough(t, HighestSearchStake(t))
  BY HighestIsInt DEF BeginPlan, PlanRefused, Terms
<1>2. terms' = t /\ low' = t.minProposalStake /\ high' = HighestSearchStake(t)
  BY DEF BeginPlan
<1>3. t.minProposalStake \in Nat
  BY DEF Terms
<1>4. Enough(terms, high)'
  BY <1>1, <1>2 DEF Enough, Required
<1> QED
  BY <1>1, <1>2, <1>3, <1>4, HighestIsInt DEF PlanInv

\* A round of the search keeps it: what is not enough rules out everything below.
LEMMA PlanNarrows ==
  ASSUME PlanInv, Narrow
  PROVE  PlanInv'
<1> DEFINE mid == (low + high) \div 2
<1>1. /\ terms \in Terms /\ low \in Int /\ high \in Int /\ terms.minProposalStake \in Nat
      /\ terms.minProposalStake <= low /\ low < high /\ terms' = terms
  BY DEF PlanInv, Narrow, Terms
<1>2. mid \in Int /\ low <= mid /\ mid < high
  BY <1>1
<1>3. (Enough(terms, high)' <=> Enough(terms, high')) /\ \A s : Enough(terms, s)' <=> Enough(terms, s')
  BY <1>1 DEF Enough, Required
<1>4. CASE Enough(terms, mid)
  <2>1. high' = mid /\ low' = low
    BY <1>4 DEF Narrow
  <2> HIDE DEF mid
  <2> QED
    BY <1>1, <1>2, <1>3, <1>4, <2>1 DEF PlanInv
<1>5. CASE ~Enough(terms, mid)
  <2>1. low' = mid + 1 /\ high' = high
    BY <1>5 DEF Narrow
  <2> HIDE DEF mid
  <2>2. \A s \in terms.minProposalStake..mid : ~Enough(terms, s)
    BY <1>1, <1>2, <1>5, EnoughMonotone
  <2> QED
    BY <1>1, <1>2, <1>3, <2>1, <2>2 DEF PlanInv
<1> QED
  BY <1>4, <1>5

\* When the ends meet, the invariant is what the search is for.
LEMMA PlanDone == PlanInv => PlanCheapest
BY DEF PlanInv, PlanCheapest

-----------------------------------------------------------------------------
(* Types.                                                                  *)

Phases == {"start", "totals", "config", "initializing", "balances", "planning", "registering",
           "creating", "voting", "waiting", "executing", "cleanup", "over"}

ProposalType == [status : {"none", "Active", "Executed", "Defeated", "Cancelled"}, quorum : Nat,
                 votes : Nat, deadline : Nat, executionAfter : Nat, fee : Int]

ChainType == [fee : Int, governance : Governance, minAgentStake : Nat, minArbiterStake : Nat,
              others : Nat, mine : SUBSET Participant, ballots : SUBSET Participant,
              proposal : ProposalType, rival : BOOLEAN]

RunType == [phase : Phases, outcome : {"pending", "deferred", "final", "threw"},
            authority : {"none", "protocol", "other"}, balance : [Participant -> Nat],
            maxWait : Nat, nextFee : Int, totalAgents : Nat, wake : Nat, next : 1..(N + 1),
            warned : SUBSET Participant]

Calls == Operation \X Participant

TypeInv ==
    /\ tx \in [Calls -> Status]
    /\ chain \in ChainType
    /\ run \in RunType
    /\ clock \in Nat
    /\ resume \in [phase : {"idle", "reading", "executing"}, reported : BOOLEAN]
    /\ \E k \in Wallets : run.balance = k.balance
    /\ PlanInv

\* The constants, as the steps below use them.
LEMMA Constants ==
  /\ N \in Nat \ {0} /\ Proposer \in Participant
  /\ FeeBuffer \in Nat /\ VotingPeriod \in Nat /\ ExecutionDelay \in Nat /\ RivalFee \in Nat
BY GovAssumption DEF Participant, Proposer

\* Sets of participants are finite and no larger than N.
LEMMA AgentsFinite ==
  ASSUME NEW S, S \subseteq Participant
  PROVE  IsFiniteSet(S) /\ Cardinality(S) \in Nat /\ Cardinality(S) <= N
<1>1. IsFiniteSet(Participant) /\ Cardinality(Participant) = N
  BY Constants, FS_Interval DEF Participant
<1> QED
  BY <1>1, FS_Subset, FS_CardinalityType

\* Sending keeps the type of the transactions.
LEMMA SendKeepsType ==
  ASSUME TypeInv, NEW calls, Send(calls)
  PROVE  tx' \in [Calls -> Status]
BY DEF TypeInv, Send, Status

\* So does every wrapper of the SDK.
LEMMA WrappersKeepType ==
  ASSUME TypeInv,
         \/ initializeGovernance \/ registerAgent(Participant) \/ createProposal
         \/ voteProposal(Participant) \/ executeProposal("executeProposal")
         \/ executeProposal("resume") \/ \E p \in Participant : deregisterAgent(p)
  PROVE  tx' \in [Calls -> Status]
BY SendKeepsType DEF initializeGovernance, registerAgent, createProposal, voteProposal,
   executeProposal, deregisterAgent

\* What After does, instruction by instruction.
LEMMA AfterEach ==
  ASSUME NEW p
  PROVE  /\ After(chain, "initializeGovernance", p)
              = [chain EXCEPT !.governance = GovernanceDefaults(chain)]
         /\ After(chain, "registerAgent", p) = [chain EXCEPT !.mine = chain.mine \cup {p}]
         /\ After(chain, "deregisterAgent", p) = [chain EXCEPT !.mine = chain.mine \ {p}]
         /\ After(chain, "voteProposal", p)
              = [chain EXCEPT !.ballots = chain.ballots \cup {p},
                              !.proposal.votes = chain.proposal.votes + VoteWeight(chain)]
         /\ \A op \in {"executeProposal", "resume"} :
              \/ /\ chain.proposal.votes >= chain.proposal.quorum
                 /\ After(chain, op, p) = [chain EXCEPT !.proposal.status = "Executed",
                                                      !.fee = chain.proposal.fee]
              \/ After(chain, op, p) = [chain EXCEPT !.proposal.status = "Defeated"]
BY DEF After

Created ==
    [status |-> "Active",
     quorum |-> RequiredVoteWeight(TotalAgents(chain), chain.governance.quorumBps,
                                   chain.governance.minProposalStake),
     votes |-> 0, deadline |-> clock + VotingPeriod,
     executionAfter |-> clock + VotingPeriod + ExecutionDelay, fee |-> run.nextFee]

\* createProposal only sets the proposal.
LEMMA AfterCreate ==
  ASSUME NEW p
  PROVE  After(chain, "createProposal", p) = [chain EXCEPT !.proposal = Created]
BY DEF After, Created

\* Field by field, for the accounts of the agents and what never changes.
LEMMA AfterFields ==
  ASSUME TypeInv, NEW op \in Operation, NEW p
  PROVE  /\ After(chain, op, p).mine = IF op = "registerAgent" THEN chain.mine \cup {p}
                                        ELSE IF op = "deregisterAgent" THEN chain.mine \ {p}
                                        ELSE chain.mine
         /\ After(chain, op, p).ballots = IF op = "voteProposal" THEN chain.ballots \cup {p}
                                           ELSE chain.ballots
         /\ After(chain, op, p).governance = IF op = "initializeGovernance"
                                              THEN GovernanceDefaults(chain) ELSE chain.governance
         /\ After(chain, op, p).minArbiterStake = chain.minArbiterStake
         /\ After(chain, op, p).others = chain.others
         /\ After(chain, op, p).rival = chain.rival
<1>1. chain \in ChainType
  BY DEF TypeInv
<1>2. CASE op = "initializeGovernance"
  <2>1. After(chain, op, p) = [chain EXCEPT !.governance = GovernanceDefaults(chain)]
    BY <1>2, AfterEach
  <2> QED
    BY <1>1, <1>2, <2>1 DEF ChainType
<1>3. CASE op = "registerAgent"
  <2>1. After(chain, op, p) = [chain EXCEPT !.mine = chain.mine \cup {p}]
    BY <1>3, AfterEach
  <2> QED
    BY <1>1, <1>3, <2>1 DEF ChainType
<1>4. CASE op = "deregisterAgent"
  <2>1. After(chain, op, p) = [chain EXCEPT !.mine = chain.mine \ {p}]
    BY <1>4, AfterEach
  <2> QED
    BY <1>1, <1>4, <2>1 DEF ChainType
<1>5. CASE op = "createProposal"
  <2>1. After(chain, op, p) = [chain EXCEPT !.proposal = Created]
    BY <1>5, AfterCreate
  <2> QED
    BY <1>1, <1>5, <2>1 DEF ChainType
<1>6. CASE op = "voteProposal"
  <2>1. After(chain, op, p)
          = [chain EXCEPT !.ballots = chain.ballots \cup {p},
                          !.proposal.votes = chain.proposal.votes + VoteWeight(chain)]
    BY <1>6, AfterEach
  <2> QED
    BY <1>1, <1>6, <2>1 DEF ChainType
<1>7. CASE op \in {"executeProposal", "resume"}
  <2>1. \/ After(chain, op, p) = [chain EXCEPT !.proposal.status = "Executed",
                                             !.fee = chain.proposal.fee]
        \/ After(chain, op, p) = [chain EXCEPT !.proposal.status = "Defeated"]
    BY <1>7, AfterEach
  <2> QED
    BY <1>1, <1>7, <2>1 DEF ChainType
<1> QED
  BY <1>2, <1>3, <1>4, <1>5, <1>6, <1>7 DEF Operation

\* The proposal: what is settled stays settled, and the fee goes with it.
LEMMA AfterStatus ==
  ASSUME TypeInv, NEW op \in Operation, NEW p, Accepts(chain, op, p)
  PROVE  /\ chain.proposal.status \in {"Executed", "Defeated"}
              => After(chain, op, p).proposal.status = chain.proposal.status
         /\ \/ After(chain, op, p).proposal.status = "Executed"
            \/ After(chain, op, p).fee = chain.fee
         /\ op \in {"executeProposal", "resume"}
              => After(chain, op, p).proposal.status \in {"Executed", "Defeated"}
<1>1. chain \in ChainType /\ chain.proposal \in ProposalType
  BY DEF TypeInv, ChainType
<1>2. CASE op = "initializeGovernance"
  <2>1. After(chain, op, p) = [chain EXCEPT !.governance = GovernanceDefaults(chain)]
    BY <1>2, AfterEach
  <2> QED
    BY <1>1, <1>2, <2>1 DEF ChainType
<1>3. CASE op \in {"registerAgent", "deregisterAgent"}
  <2>1. CASE op = "registerAgent"
    <3>1. After(chain, op, p) = [chain EXCEPT !.mine = chain.mine \cup {p}]
      BY <2>1, AfterEach
    <3> QED
      BY <1>1, <2>1, <3>1 DEF ChainType
  <2>2. CASE op = "deregisterAgent"
    <3>1. After(chain, op, p) = [chain EXCEPT !.mine = chain.mine \ {p}]
      BY <2>2, AfterEach
    <3> QED
      BY <1>1, <2>2, <3>1 DEF ChainType
  <2> QED
    BY <1>3, <2>1, <2>2
<1>4. CASE op = "createProposal"
  <2>1. After(chain, op, p) = [chain EXCEPT !.proposal = Created] /\ chain.proposal.status = "none"
    BY <1>4, AfterCreate DEF Accepts
  <2> QED
    BY <1>1, <1>4, <2>1 DEF ChainType
<1>5. CASE op = "voteProposal"
  <2>1. After(chain, op, p)
          = [chain EXCEPT !.ballots = chain.ballots \cup {p},
                          !.proposal.votes = chain.proposal.votes + VoteWeight(chain)]
    BY <1>5, AfterEach
  <2> QED
    BY <1>1, <1>5, <2>1 DEF ChainType, ProposalType
<1>6. CASE op \in {"executeProposal", "resume"}
  <2>1. \/ After(chain, op, p) = [chain EXCEPT !.proposal.status = "Executed",
                                             !.fee = chain.proposal.fee]
        \/ After(chain, op, p) = [chain EXCEPT !.proposal.status = "Defeated"]
    BY <1>6, AfterEach
  <2>2. chain.proposal.status = "Active"
    BY <1>6 DEF Accepts
  <2>3. ASSUME After(chain, op, p) = [chain EXCEPT !.proposal.status = "Executed",
                                                 !.fee = chain.proposal.fee]
        PROVE  After(chain, op, p).proposal.status = "Executed"
    BY <1>1, <2>3 DEF ChainType, ProposalType
  <2>4. ASSUME After(chain, op, p) = [chain EXCEPT !.proposal.status = "Defeated"]
        PROVE  /\ After(chain, op, p).proposal.status = "Defeated"
               /\ After(chain, op, p).fee = chain.fee
    BY <1>1, <2>4 DEF ChainType, ProposalType
  <2> QED
    BY <2>1, <2>2, <2>3, <2>4
<1> QED
  BY <1>2, <1>3, <1>4, <1>5, <1>6 DEF Operation

\* What the program does to the accounts keeps their types.
LEMMA AfterType ==
  ASSUME TypeInv, NEW op \in Operation, NEW p \in Participant
  PROVE  After(chain, op, p) \in ChainType
<1>1. chain \in ChainType /\ chain.proposal \in ProposalType /\ chain.governance \in Governance
  BY DEF TypeInv, ChainType
<1>2. VoteWeight(chain) \in Nat
  BY <1>1, WeightIsNat DEF VoteWeight, stake, TypeInv, PlanInv, ChainType
<1>3. RequiredVoteWeight(TotalAgents(chain), chain.governance.quorumBps,
                         chain.governance.minProposalStake) \in Nat
  <2>1. TotalAgents(chain) \in Nat
    BY <1>1, AgentsFinite DEF TotalAgents, ChainType
  <2> QED
    BY <1>1, <2>1, RequiredIsNat DEF Governance
<1>4. CASE op = "initializeGovernance"
  <2>1. GovernanceDefaults(chain) \in Governance
    BY <1>1 DEF GovernanceDefaults, Governance, ChainType
  <2>2. After(chain, op, p) = [chain EXCEPT !.governance = GovernanceDefaults(chain)]
    BY <1>4, AfterEach
  <2> QED
    BY <1>1, <2>1, <2>2 DEF ChainType
<1>5. CASE op = "registerAgent"
  <2>1. chain.mine \cup {p} \in SUBSET Participant
    BY <1>1 DEF ChainType
  <2>2. After(chain, op, p) = [chain EXCEPT !.mine = chain.mine \cup {p}]
    BY <1>5, AfterEach
  <2> QED
    BY <1>1, <2>1, <2>2 DEF ChainType
<1>6. CASE op = "deregisterAgent"
  <2>1. chain.mine \ {p} \in SUBSET Participant
    BY <1>1 DEF ChainType
  <2>2. After(chain, op, p) = [chain EXCEPT !.mine = chain.mine \ {p}]
    BY <1>6, AfterEach
  <2> QED
    BY <1>1, <2>1, <2>2 DEF ChainType
<1>7. CASE op = "createProposal"
  <2>1. Created \in ProposalType
    BY <1>3, Constants DEF Created, ProposalType, TypeInv, RunType
  <2>2. After(chain, op, p) = [chain EXCEPT !.proposal = Created]
    BY <1>7, AfterCreate
  <2> QED
    BY <1>1, <2>1, <2>2 DEF ChainType
<1>8. CASE op = "voteProposal"
  <2>1. chain.proposal.votes + VoteWeight(chain) \in Nat
    BY <1>1, <1>2 DEF ProposalType
  <2>2. After(chain, op, p)
          = [chain EXCEPT !.ballots = chain.ballots \cup {p},
                          !.proposal.votes = chain.proposal.votes + VoteWeight(chain)]
    BY <1>8, AfterEach
  <2>3. chain.ballots \cup {p} \in SUBSET Participant
    BY <1>1 DEF ChainType
  <2>4. [chain.proposal EXCEPT !.votes = chain.proposal.votes + VoteWeight(chain)] \in ProposalType
    BY <1>1, <2>1 DEF ProposalType
  <2> QED
    BY <1>1, <2>2, <2>3, <2>4 DEF ChainType
<1>9. CASE op \in {"executeProposal", "resume"}
  <2>1. \A s \in {"Executed", "Defeated"} : [chain.proposal EXCEPT !.status = s] \in ProposalType
    BY <1>1 DEF ProposalType
  <2>2. chain.proposal.fee \in Int
    BY <1>1 DEF ProposalType
  <2>3. \/ After(chain, op, p) = [chain EXCEPT !.proposal.status = "Executed",
                                             !.fee = chain.proposal.fee]
        \/ After(chain, op, p) = [chain EXCEPT !.proposal.status = "Defeated"]
    BY <1>9, AfterEach
  <2> QED
    BY <1>1, <2>1, <2>2, <2>3 DEF ChainType
<1> QED
  BY <1>4, <1>5, <1>6, <1>7, <1>8, <1>9 DEF Operation

\* The search invariant depends on nothing but the search.
LEMMA PlanStays ==
  ASSUME PlanInv, UNCHANGED planVars
  PROVE  PlanInv'
BY DEF PlanInv, planVars, Enough, Required

\* What the plan is made from has its type: there is a poorest wallet.
LEMMA PlanTermsType ==
  ASSUME TypeInv
  PROVE  PlanTerms \in Terms
<1>1. chain \in ChainType /\ chain.governance \in Governance /\ run \in RunType
  BY DEF TypeInv, ChainType
<1> DEFINE B == {run.balance[p] - FeeBuffer : p \in Participant}
<1>2. \E b \in B : \A p \in Participant : b <= run.balance[p] - FeeBuffer
  <2> DEFINE T == {run.balance[p] : p \in Participant}
  <2>0. T \subseteq Nat /\ T # {}
    <3>1. \A p \in Participant : run.balance[p] \in Nat
      BY <1>1 DEF RunType
    <3>2. run.balance[Proposer] \in T
      BY Constants
    <3> QED
      BY <3>1, <3>2
  <2>1. PICK p \in Participant : \A q \in Participant : run.balance[p] <= run.balance[q]
    <3>1. PICK m \in T : \A n \in T : m <= n
      BY <2>0, LeastOfNaturals
    <3> QED
      BY <3>1
  <2>2. run.balance[p] - FeeBuffer \in B
    OBVIOUS
  <2>3. \A q \in Participant : run.balance[p] - FeeBuffer <= run.balance[q] - FeeBuffer
    BY <1>1, <2>1, Constants DEF RunType
  <2> QED
    BY <2>2, <2>3
<1>3. (CHOOSE b \in B : \A p \in Participant : b <= run.balance[p] - FeeBuffer) \in B
  BY <1>2
<1>4. B \subseteq Int
  BY <1>1, Constants DEF RunType
<1>5. PlanTerms.maxAffordableStake \in Int
  BY <1>3, <1>4 DEF PlanTerms
<1> QED
  BY <1>1, <1>5, Constants DEF PlanTerms, Terms, ChainType, Governance, RunType

\* A transaction moves on and nothing else does.
Moves(t) == /\ t \in Calls
            /\ \/ tx[t] \in {"sent", "lost"} /\ tx' = [tx EXCEPT ![t] = "failed"]
               \/ tx[t] = "sent" /\ tx' = [tx EXCEPT ![t] = "lost"]
               \/ tx[t] = "landed" /\ \E s \in {"ok", "failed"} : tx' = [tx EXCEPT ![t] = s]
            /\ UNCHANGED <<chain, clock, run, resume, terms, low, high>>

\* The steps of a transaction the program does not execute move that transaction only.
LEMMA QuietStepsMove ==
  ASSUME NEW t \in Calls, TxReject(t) \/ RpcLosesTx(t) \/ TxConfirmed(t) \/ ConfirmationThrows(t)
  PROVE  Moves(t)
BY DEF TxReject, RpcLosesTx, TxConfirmed, ConfirmationThrows, Becomes, Moves, Status

\* The types hold at first.
LEMMA TypeInit == GovInit => TypeInv
<1> SUFFICES ASSUME GovInit PROVE TypeInv
  OBVIOUS
<1>1. tx \in [Calls -> Status]
  BY DEF GovInit, Calls, Status
<1>2. chain \in ChainType
  <2>1. PICK w \in World :
          chain = [fee |-> w.fee, governance |-> w.governance, minAgentStake |-> w.minAgentStake,
                   minArbiterStake |-> w.minArbiterStake, others |-> w.others, mine |-> {},
                   ballots |-> {}, proposal |-> NoProposal, rival |-> FALSE]
    BY DEF GovInit
  <2>2. NoProposal \in ProposalType
    BY DEF NoProposal, ProposalType
  <2>3. w \in [fee : Nat, governance : Governance, minAgentStake : Nat, minArbiterStake : Nat,
               others : Nat]
    BY GovAssumption
  <2> QED
    BY <2>1, <2>2, <2>3 DEF ChainType
<1>3. run \in RunType /\ \E k \in Wallets : run.balance = k.balance
  <2>1. PICK k \in Wallets :
          run = [phase |-> "start", outcome |-> "pending", authority |-> k.authority,
                 balance |-> k.balance, maxWait |-> k.maxWait, nextFee |-> 0, totalAgents |-> 0,
                 wake |-> 0, next |-> 1, warned |-> {}]
    BY DEF GovInit
  <2>2. k \in [authority : {"none", "protocol", "other"}, balance : [Participant -> Nat],
               maxWait : Nat]
    BY GovAssumption DEF Participant
  <2>3. 1 \in 1..(N + 1)
    BY Constants
  <2> QED
    BY <2>1, <2>2, <2>3 DEF RunType, Phases
<1>4. clock \in Nat /\ resume \in [phase : {"idle", "reading", "executing"}, reported : BOOLEAN]
  BY DEF GovInit
<1>5. PlanInv
  <2>1. terms = NoPlan /\ low = 0 /\ high = 0
    BY DEF GovInit
  <2>2. NoPlan \in Terms /\ NoPlan.minProposalStake = 0
    BY DEF NoPlan, Terms
  <2>3. Required(NoPlan) = 0
    <3>1. /\ NoPlan.totalAgents + NoPlan.participantCount = 0
          /\ NoPlan.quorumBps = 0 /\ NoPlan.minProposalStake = 0
      BY DEF NoPlan
    <3>2. RequiredVoteWeight(0, 0, 0) = 0
      BY DEF RequiredVoteWeight, Larger, MIN_QUORUM_FACTOR
    <3> QED
      BY <3>1, <3>2 DEF Required
  <2>4. Enough(NoPlan, 0)
    <3>1. computeVoteWeight(0, NoPlan.minArbiterStake) = 0 /\ NoPlan.participantCount = 0
      BY DEF NoPlan, computeVoteWeight, Smaller, MAX_VOTE_WEIGHT_MULTIPLIER
    <3> QED
      BY <2>3, <3>1 DEF Enough
  <2> QED
    BY <2>1, <2>2, <2>4 DEF PlanInv
<1> QED
  BY <1>1, <1>2, <1>3, <1>4, <1>5 DEF TypeInv

\* What the steps of the initial run make of its record.
LEMMA RunMoves ==
  ASSUME TypeInv
  PROVE  /\ \A phase \in Phases : Goto(phase) => run' \in RunType /\ run'.balance = run.balance
         /\ Fail => run' \in RunType /\ run'.balance = run.balance
         /\ \A outcome \in {"deferred", "final", "threw"} :
               CleanUp(outcome) => run' \in RunType /\ run'.balance = run.balance
<1>1. run \in RunType
  BY DEF TypeInv
<1>2. ASSUME NEW phase \in Phases, Goto(phase) PROVE run' \in RunType /\ run'.balance = run.balance
  BY <1>1, <1>2 DEF Goto, RunType
<1>3. ASSUME Fail PROVE run' \in RunType /\ run'.balance = run.balance
  BY <1>1, <1>3 DEF Fail, RunType, Phases
<1>4. ASSUME NEW outcome \in {"deferred", "final", "threw"}, CleanUp(outcome)
      PROVE run' \in RunType /\ run'.balance = run.balance
  BY <1>1, <1>4 DEF CleanUp, RunType, Phases
<1> QED
  BY <1>2, <1>3, <1>4

\* Which fields of the run those steps leave alone.
LEMMA RunFields ==
  ASSUME TypeInv
  PROVE  /\ \A phase : Goto(phase) => /\ run'.phase = phase /\ run'.outcome = run.outcome
                                      /\ run'.next = run.next /\ run'.warned = run.warned
                                      /\ run'.nextFee = run.nextFee
                                      /\ run'.totalAgents = run.totalAgents
         /\ Fail => /\ run'.phase = "over" /\ run'.outcome = "threw"
                    /\ run'.next = run.next /\ run'.warned = run.warned
                    /\ run'.nextFee = run.nextFee /\ run'.totalAgents = run.totalAgents
         /\ \A outcome : CleanUp(outcome) => /\ run'.phase = "cleanup" /\ run'.outcome = outcome
                                             /\ run'.next = run.next /\ run'.warned = run.warned
                                             /\ run'.nextFee = run.nextFee
                                             /\ run'.totalAgents = run.totalAgents
BY DEF TypeInv, RunType, Goto, Fail, CleanUp

\* Transactions keep the types.
LEMMA TypeTxStep ==
  ASSUME TypeInv, TxStep
  PROVE  TypeInv'
<1>1. PICK t \in Calls : TxLand(t) \/ TxReject(t) \/ RpcLosesTx(t) \/ TxConfirmed(t) \/ ConfirmationThrows(t)
  BY DEF TxStep, Calls
<1>2. CASE TxLand(t)
  <2>1. t[1] \in Operation /\ t[2] \in Participant
    BY DEF Calls
  <2>2. chain' \in ChainType
    BY <1>2, <2>1, AfterType DEF TxLand
  <2>3. tx' \in [Calls -> Status]
    BY <1>2 DEF TxLand, Becomes, TypeInv, Status
  <2>4. UNCHANGED <<clock, run, resume, terms, low, high>>
    BY <1>2 DEF TxLand
  <2>5. PlanInv'
    BY <2>4, PlanStays DEF TypeInv, planVars
  <2> QED
    BY <2>2, <2>3, <2>4, <2>5 DEF TypeInv
<1>3. CASE TxReject(t) \/ RpcLosesTx(t) \/ TxConfirmed(t) \/ ConfirmationThrows(t)
  <2>1. Moves(t)
    BY <1>3, QuietStepsMove
  <2>2. tx' \in [Calls -> Status]
    BY <2>1 DEF Moves, TypeInv, Status
  <2>3. PlanInv'
    BY <2>1, PlanStays DEF TypeInv, planVars, Moves
  <2> QED
    BY <2>1, <2>2, <2>3 DEF TypeInv, Moves
<1> QED
  BY <1>1, <1>2, <1>3

\* The steps of the initial run keep the types.
LEMMA TypeRunStep ==
  ASSUME TypeInv, RunStep
  PROVE  TypeInv'
<1> USE DEF Phases
<1> DEFINE RunOk == run' \in RunType /\ run'.balance = run.balance
           TxOk == tx' \in [Calls -> Status]
           Rest == UNCHANGED <<chain, clock, resume>>
<1>0. tx \in [Calls -> Status] /\ run \in RunType /\ chain \in ChainType
  BY DEF TypeInv
<1>1. ASSUME RunOk, TxOk, Rest, PlanInv' PROVE TypeInv'
  BY <1>1 DEF TypeInv
<1>2. ASSUME UNCHANGED planVars PROVE PlanInv'
  BY <1>2, PlanStays DEF TypeInv
<1>3. CASE ReadProtocol
  <2>1. RunOk
    <3> DEFINE fee == IF chain.fee >= 999 THEN chain.fee - 1 ELSE chain.fee + 1
    <3>1. fee \in Int
      BY <1>0 DEF ChainType
    <3>2. run' = [run EXCEPT !.phase = "totals", !.nextFee = fee] \/ Fail
      BY <1>3 DEF ReadProtocol
    <3> HIDE DEF fee
    <3> QED
      BY <1>0, <3>1, <3>2, RunMoves DEF RunType
  <2> QED
    BY <1>0, <1>1, <1>2, <1>3, <2>1 DEF ReadProtocol, planVars
<1>4. CASE ReadTotals
  <2>1. TotalAgents(chain) \in Nat
    BY <1>0, AgentsFinite DEF TotalAgents, ChainType
  <2>2. RunOk
    BY <1>0, <1>4, <2>1, RunMoves DEF ReadTotals, RunType
  <2> QED
    BY <1>0, <1>1, <1>2, <1>4, <2>2 DEF ReadTotals, planVars
<1>5. CASE ReadGovernance
  <2>1. RunOk
    BY <1>5, RunMoves DEF ReadGovernance
  <2>2. TxOk
    BY <1>0, <1>5, WrappersKeepType DEF ReadGovernance
  <2> QED
    BY <1>1, <1>2, <1>5, <2>1, <2>2 DEF ReadGovernance, planVars
<1>6. CASE GovernanceInitialized
  <2>1. RunOk
    BY <1>6, RunMoves DEF GovernanceInitialized
  <2> QED
    BY <1>0, <1>1, <1>2, <1>6, <2>1 DEF GovernanceInitialized, planVars
<1>7. CASE ReadBalances
  <2>1. RunOk
    BY <1>7, RunMoves DEF ReadBalances
  <2>2. PlanInv'
    BY <1>2, <1>7, PlanTermsType, PlanBegins DEF ReadBalances
  <2> QED
    BY <1>0, <1>1, <1>7, <2>1, <2>2 DEF ReadBalances
<1>8. CASE SearchStake
  <2>1. PlanInv'
    BY <1>8, PlanNarrows DEF SearchStake, TypeInv
  <2> QED
    BY <1>0, <1>1, <1>8, <2>1 DEF SearchStake
<1>9. CASE RegisterAgents
  <2>1. RunOk
    BY <1>9, RunMoves DEF RegisterAgents
  <2>2. TxOk
    BY <1>9, WrappersKeepType DEF RegisterAgents
  <2> QED
    BY <1>1, <1>2, <1>9, <2>1, <2>2 DEF RegisterAgents, planVars
<1>10. CASE CreateProposal
  <2>1. RunOk
    BY <1>10, RunMoves DEF CreateProposal
  <2>2. TxOk
    BY <1>0, <1>10, WrappersKeepType DEF CreateProposal
  <2> QED
    BY <1>1, <1>2, <1>10, <2>1, <2>2 DEF CreateProposal, planVars
<1>11. CASE CastVotes
  <2>1. RunOk
    BY <1>11, RunMoves DEF CastVotes
  <2>2. TxOk
    BY <1>0, <1>11, WrappersKeepType DEF CastVotes
  <2> QED
    BY <1>1, <1>2, <1>11, <2>1, <2>2 DEF CastVotes, planVars
<1>12. CASE ReadProposal
  <2> DEFINE wait == Larger(chain.proposal.executionAfter - clock, 0)
  <2>1. wait \in Nat /\ clock \in Nat
    BY <1>0 DEF Larger, TypeInv, ChainType, ProposalType
  <2>2. (IF wait > 0 THEN clock + wait + 1 ELSE clock) \in Nat
    BY <2>1
  <2>3. RunOk
    BY <1>0, <1>12, <2>2, RunMoves DEF ReadProposal, RunType
  <2> QED
    BY <1>0, <1>1, <1>2, <1>12, <2>3 DEF ReadProposal, planVars
<1>13. CASE ExecuteProposal
  <2>1. RunOk
    BY <1>13, RunMoves DEF ExecuteProposal
  <2>2. TxOk
    BY <1>0, <1>13, WrappersKeepType DEF ExecuteProposal
  <2> QED
    BY <1>1, <1>2, <1>13, <2>1, <2>2 DEF ExecuteProposal, planVars
<1>14. CASE CheckFee
  <2>1. RunOk
    BY <1>14, RunMoves DEF CheckFee
  <2> QED
    BY <1>0, <1>1, <1>2, <1>14, <2>1 DEF CheckFee, planVars
<1>15. CASE Deregister
  <2>1. TxOk
    BY <1>15, WrappersKeepType DEF Deregister
  <2> QED
    BY <1>0, <1>1, <1>2, <1>15, <2>1 DEF Deregister, planVars
<1>16. CASE Deregistered
  <2>1. run.next + 1 \in 1..(N + 1)
    BY <1>0, <1>16, Constants DEF Deregistered, Participant, RunType
  <2>2. run.warned \cup {run.next} \in SUBSET Participant
    BY <1>0, <1>16 DEF Deregistered, RunType
  <2>3. RunOk
    BY <1>0, <1>16, <2>1, <2>2 DEF Deregistered, RunType
  <2> QED
    BY <1>0, <1>1, <1>2, <1>16, <2>3 DEF Deregistered, planVars
<1>17. CASE Finish
  <2>1. RunOk
    BY <1>17, RunMoves DEF Finish
  <2> QED
    BY <1>0, <1>1, <1>2, <1>17, <2>1 DEF Finish, planVars
<1> QED
  BY <1>3, <1>4, <1>5, <1>6, <1>7, <1>8, <1>9, <1>10, <1>11, <1>12, <1>13, <1>14, <1>15, <1>16,
     <1>17 DEF RunStep

\* The resumed run and everybody else keep the types.
LEMMA TypeOtherStep ==
  ASSUME TypeInv,
         ResumeStep \/ OthersRegister \/ OthersChangeFee \/ CancelProposal \/ Tick
         \/ UNCHANGED govVars
  PROVE  TypeInv'
<1>0. chain \in ChainType /\ clock \in Nat /\ chain.proposal \in ProposalType
  BY DEF TypeInv, ChainType
<1>1. PlanInv'
  BY PlanStays DEF TypeInv, planVars, ResumeStep, ResumeStart, ResumeReads, ResumeReadThrows,
     ResumeEnds, OthersRegister, OthersChangeFee, CancelProposal, Tick, govVars
<1>2. CASE ResumeStep
  <2>1. resume' \in [phase : {"idle", "reading", "executing"}, reported : BOOLEAN]
    <3>1. resume \in [phase : {"idle", "reading", "executing"}, reported : BOOLEAN]
      BY DEF TypeInv
    <3>2. ASSUME NEW reported \in BOOLEAN, Stop(reported)
          PROVE resume' \in [phase : {"idle", "reading", "executing"}, reported : BOOLEAN]
      <4>1. (resume.reported \/ reported) \in BOOLEAN
        OBVIOUS
      <4> QED
        BY <3>2, <4>1 DEF Stop
    <3>3. CASE ResumeStart
      BY <3>1, <3>3 DEF ResumeStart
    <3>4. CASE ResumeReads
      BY <3>1, <3>2, <3>4 DEF ResumeReads
    <3>5. CASE ResumeReadThrows
      BY <3>2, <3>5 DEF ResumeReadThrows
    <3>6. CASE ResumeEnds
      BY <3>2, <3>6 DEF ResumeEnds
    <3> QED
      BY <1>2, <3>3, <3>4, <3>5, <3>6 DEF ResumeStep
  <2>2. tx' \in [Calls -> Status]
    BY <1>2, WrappersKeepType DEF ResumeStep, ResumeStart, ResumeReads, ResumeReadThrows,
       ResumeEnds, TypeInv
  <2> QED
    BY <1>1, <1>2, <2>1, <2>2
       DEF TypeInv, ResumeStep, ResumeStart, ResumeReads, ResumeReadThrows, ResumeEnds
<1>3. CASE OthersRegister \/ OthersChangeFee \/ CancelProposal
  <2>1. chain' \in ChainType
    <3>1. CASE OthersRegister
      <4>1. chain.others + 1 \in Nat
        BY <1>0 DEF ChainType
      <4>2. chain' = [chain EXCEPT !.others = chain.others + 1]
        BY <3>1 DEF OthersRegister
      <4> QED
        BY <1>0, <4>1, <4>2 DEF ChainType
    <3>2. CASE OthersChangeFee
      <4>1. RivalFee \in Int /\ TRUE \in BOOLEAN
        BY Constants
      <4>2. chain' = [chain EXCEPT !.fee = RivalFee, !.rival = TRUE]
        BY <3>2 DEF OthersChangeFee
      <4> QED
        BY <1>0, <4>1, <4>2 DEF ChainType
    <3>3. CASE CancelProposal
      <4>1. [chain.proposal EXCEPT !.status = "Cancelled"] \in ProposalType
        BY <1>0 DEF ProposalType
      <4> QED
        BY <1>0, <3>3, <4>1 DEF CancelProposal, ChainType
    <3> QED
      BY <1>3, <3>1, <3>2, <3>3
  <2> QED
    BY <1>1, <1>3, <2>1 DEF TypeInv, OthersRegister, OthersChangeFee, CancelProposal
<1>4. CASE Tick \/ UNCHANGED govVars
  BY <1>0, <1>1, <1>4 DEF Tick, govVars, TypeInv
<1> QED
  BY <1>2, <1>3, <1>4

\* Every step keeps the types.
LEMMA TypeStep == TypeInv /\ [GovNext]_govVars => TypeInv'
BY TypeTxStep, TypeRunStep, TypeOtherStep DEF GovNext

-----------------------------------------------------------------------------
(* What becomes of the agents.                                             *)

Reg(p) == tx[<<"registerAgent", p>>]
Dereg(p) == tx[<<"deregisterAgent", p>>]

Early == {"start", "totals", "config", "initializing", "balances", "planning"}
Middle == {"registering", "creating", "voting", "waiting", "executing"}

Quiet == \A p \in Participant : Reg(p) = "none" /\ Dereg(p) = "none"

\* An agent that is registered was registered by a transaction that is over,
\* one that was deregistered is not registered again by a late transaction, and
\* the clean-up has deregistered or warned about everybody it has passed.
LeftInv ==
    /\ run.phase \in Early => Quiet
    /\ run.phase \in Middle => \A p \in Participant : Dereg(p) = "none"
    /\ At("over") => Quiet \/ run.next = N + 1
    /\ \A p \in chain.mine : Reg(p) \in {"landed", "ok", "failed"}
    /\ \A p \in Participant : Dereg(p) \in {"landed", "ok"} =>
          p \notin chain.mine /\ Reg(p) \in {"landed", "ok", "failed"}
    /\ \A p \in Participant : p < run.next => Dereg(p) = "ok" \/ p \in run.warned

\* Once the run is over, the clean-up has passed everybody.
LEMMA LeftDone == TypeInv /\ LeftInv => LeftBehindWarned
<1> SUFFICES ASSUME TypeInv, LeftInv, At("over"), NEW p \in chain.mine PROVE p \in run.warned
  BY DEF LeftBehindWarned
<1>1. p \in Participant /\ p < N + 1
  BY Constants DEF TypeInv, ChainType, Participant
<1>2. run.next = N + 1
  BY <1>1 DEF LeftInv, Quiet
<1> QED
  BY <1>1, <1>2 DEF LeftInv

\* At first no agent is registered and nobody was passed.
LEMMA LeftInit == GovInit => LeftInv
<1> SUFFICES ASSUME GovInit PROVE LeftInv
  OBVIOUS
<1>1. \A p \in Participant : Reg(p) = "none" /\ Dereg(p) = "none"
  BY DEF GovInit, Reg, Dereg, Operation
<1>2. chain.mine = {} /\ run.phase = "start" /\ run.next = 1
  BY DEF GovInit
<1>3. \A p \in Participant : ~(p < 1)
  BY DEF Participant
<1> QED
  BY <1>1, <1>2, <1>3 DEF LeftInv, Quiet, At, Middle

\* A wrapper sends its own transactions and leaves the others alone.
LEMMA SendTouches ==
  ASSUME TypeInv, NEW calls, Send(calls), NEW t \in Calls
  PROVE  tx'[t] = IF t \in calls THEN "sent" ELSE tx[t]
BY DEF TypeInv, Send

\* The wrappers that neither register nor deregister leave those transactions alone.
LEMMA WrappersLeave ==
  ASSUME TypeInv,
         \/ initializeGovernance \/ createProposal \/ voteProposal(Participant)
         \/ executeProposal("executeProposal") \/ executeProposal("resume") \/ UNCHANGED tx
  PROVE  \A p \in Participant : Reg(p)' = Reg(p) /\ Dereg(p)' = Dereg(p)
<1> SUFFICES ASSUME NEW p \in Participant PROVE Reg(p)' = Reg(p) /\ Dereg(p)' = Dereg(p)
  OBVIOUS
<1>1. <<"registerAgent", p>> \in Calls /\ <<"deregisterAgent", p>> \in Calls
  BY DEF Calls, Operation
<1> QED
  BY <1>1, SendTouches DEF initializeGovernance, createProposal, voteProposal, executeProposal,
     Reg, Dereg

\* A registration that is executed is over, and one that is over is not executed again.
LEMMA LeftTxStep ==
  ASSUME TypeInv, LeftInv, TxStep
  PROVE  LeftInv'
<1>1. PICK t \in Calls : TxLand(t) \/ TxReject(t) \/ RpcLosesTx(t) \/ TxConfirmed(t) \/ ConfirmationThrows(t)
  BY DEF TxStep, Calls
<1>2. PICK op \in Operation, q \in Participant : t = <<op, q>>
  BY DEF Calls
<1>3. /\ \A p \in Participant : <<"registerAgent", p>> \in Calls /\ <<"deregisterAgent", p>> \in Calls
      /\ tx \in [Calls -> Status] /\ chain \in ChainType
      /\ chain.mine \subseteq Participant
  BY DEF Calls, Operation, TypeInv, ChainType
<1>4. CASE TxLand(t)
  <2>1. /\ tx[t] \in {"sent", "lost"} /\ run' = run
        /\ \E s \in {"landed", "failed"} : tx' = [tx EXCEPT ![t] = s] /\ (s = "landed" => tx[t] = "sent")
        /\ Accepts(chain, op, q) /\ chain' = After(chain, op, q)
    BY <1>2, <1>4 DEF TxLand, Becomes
  <2>2. CASE op = "registerAgent"
    <3>1. chain'.mine = chain.mine \cup {q}
      BY <2>1, <2>2, AfterFields
    <3>2. \A p \in Participant : Dereg(p)' = Dereg(p) /\ (p # q => Reg(p)' = Reg(p))
      BY <1>2, <1>3, <2>1, <2>2 DEF Reg, Dereg
    <3>3. Reg(q) \in {"sent", "lost"} /\ Reg(q)' \in {"landed", "failed"}
      BY <1>2, <1>3, <2>1, <2>2 DEF Reg
    <3> QED
      BY <1>3, <2>1, <3>1, <3>2, <3>3 DEF LeftInv, Quiet, At
  <2>3. CASE op = "deregisterAgent"
    <3>1. chain'.mine = chain.mine \ {q} /\ q \in chain.mine
      BY <2>1, <2>3, AfterFields DEF Accepts
    <3>2. \A p \in Participant : Reg(p)' = Reg(p) /\ (p # q => Dereg(p)' = Dereg(p))
      BY <1>2, <1>3, <2>1, <2>3 DEF Reg, Dereg
    <3>3. Dereg(q) \in {"sent", "lost"} /\ Dereg(q)' \in {"landed", "failed"}
      BY <1>2, <1>3, <2>1, <2>3 DEF Dereg
    <3> QED
      BY <1>3, <2>1, <3>1, <3>2, <3>3 DEF LeftInv, Quiet, At
  <2>4. CASE op \notin {"registerAgent", "deregisterAgent"}
    <3>1. chain'.mine = chain.mine
      BY <2>1, <2>4, AfterFields
    <3>2. \A p \in Participant : Reg(p)' = Reg(p) /\ Dereg(p)' = Dereg(p)
      BY <1>2, <1>3, <2>1, <2>4 DEF Reg, Dereg
    <3> QED
      BY <1>3, <2>1, <3>1, <3>2 DEF LeftInv, Quiet, At
  <2> QED
    BY <2>2, <2>3, <2>4
<1>5. CASE TxReject(t) \/ RpcLosesTx(t) \/ TxConfirmed(t) \/ ConfirmationThrows(t)
  <2>1. Moves(t)
    BY <1>5, QuietStepsMove
  <2>2. UNCHANGED <<run, chain>>
    BY <2>1 DEF Moves
  <2>3. \A p \in Participant :
          \/ Reg(p)' = Reg(p)
          \/ Reg(p) \in {"sent", "lost"} /\ Reg(p)' \in {"lost", "failed"}
          \/ Reg(p) = "landed" /\ Reg(p)' \in {"ok", "failed"}
    BY <1>3, <2>1 DEF Moves, Reg
  <2>4. \A p \in Participant :
          \/ Dereg(p)' = Dereg(p)
          \/ Dereg(p) \in {"sent", "lost"} /\ Dereg(p)' \in {"lost", "failed"}
          \/ Dereg(p) = "landed" /\ Dereg(p)' \in {"ok", "failed"}
    BY <1>3, <2>1 DEF Moves, Dereg
  <2>5. \A p \in chain.mine : p \in Participant
    BY <1>3 DEF ChainType
  <2> QED
    BY <2>2, <2>3, <2>4, <2>5 DEF LeftInv, Quiet, At
<1> QED
  BY <1>1, <1>4, <1>5

\* The clean-up passes a participant only with a deregistration or a warning.
LEMMA LeftRunStep ==
  ASSUME TypeInv, LeftInv, RunStep
  PROVE  LeftInv'
<1> DEFINE Same == \A p \in Participant : Reg(p)' = Reg(p) /\ Dereg(p)' = Dereg(p)
<1>0. /\ run \in RunType /\ chain.mine \subseteq Participant /\ run.next \in Nat
      /\ \A p \in Participant : p \in Nat /\ p <= N
  BY Constants DEF TypeInv, ChainType, RunType, Participant
\* Before anybody is registered.
<1>1. ASSUME run.phase \in Early, Same, chain' = chain, run'.next = run.next,
             run'.warned = run.warned, run'.phase \in Early \cup {"over"}
      PROVE  LeftInv'
  BY <1>0, <1>1 DEF LeftInv, Quiet, At, Early, Middle
<1>2. CASE ReadProtocol
  <2>1. Same /\ chain' = chain /\ run.phase \in Early
    BY <1>2, WrappersLeave DEF ReadProtocol, At, Early
  <2>2. run'.next = run.next /\ run'.warned = run.warned /\ run'.phase \in Early \cup {"over"}
    BY <1>0, <1>2, <2>1, RunFields DEF ReadProtocol, Early, RunType
  <2> QED
    BY <1>1, <2>1, <2>2
<1>3. CASE ReadTotals
  <2>1. Same /\ chain' = chain /\ run.phase \in Early
    BY <1>3, WrappersLeave DEF ReadTotals, At, Early
  <2>2. run'.next = run.next /\ run'.warned = run.warned /\ run'.phase \in Early \cup {"over"}
    BY <1>0, <1>3, <2>1, RunFields DEF ReadTotals, Early, RunType
  <2> QED
    BY <1>1, <2>1, <2>2
<1>4. CASE ReadGovernance
  <2>1. Same /\ chain' = chain /\ run.phase \in Early
    BY <1>4, WrappersLeave DEF ReadGovernance, At, Early
  <2>2. run'.next = run.next /\ run'.warned = run.warned /\ run'.phase \in Early \cup {"over"}
    BY <1>0, <1>4, <2>1, RunFields DEF ReadGovernance, Early, RunType
  <2> QED
    BY <1>1, <2>1, <2>2
<1>5. CASE GovernanceInitialized
  <2>1. Same /\ chain' = chain /\ run.phase \in Early
    BY <1>5, WrappersLeave DEF GovernanceInitialized, At, Early
  <2>2. run'.next = run.next /\ run'.warned = run.warned /\ run'.phase \in Early \cup {"over"}
    BY <1>0, <1>5, <2>1, RunFields DEF GovernanceInitialized, Early, RunType
  <2> QED
    BY <1>1, <2>1, <2>2
<1>6. CASE ReadBalances
  <2>1. Same /\ chain' = chain /\ run.phase \in Early
    BY <1>6, WrappersLeave DEF ReadBalances, At, Early
  <2>2. run'.next = run.next /\ run'.warned = run.warned /\ run'.phase \in Early \cup {"over"}
    BY <1>0, <1>6, <2>1, RunFields DEF ReadBalances, Early, RunType
  <2> QED
    BY <1>1, <2>1, <2>2
<1>7. CASE SearchStake
  <2>1. Same /\ chain' = chain /\ run.phase \in Early
    BY <1>7, WrappersLeave DEF SearchStake, At, Early
  <2>2. run'.next = run.next /\ run'.warned = run.warned /\ run'.phase \in Early \cup {"over"}
    BY <1>0, <1>7, <2>1, RunFields DEF SearchStake, Early, RunType
  <2> QED
    BY <1>1, <2>1, <2>2
<1>8. CASE RegisterAgents
  <2>1. /\ chain' = chain /\ run.phase = "planning"
        /\ run'.next = run.next /\ run'.warned = run.warned /\ run'.phase = "registering"
    BY <1>0, <1>8, RunFields DEF RegisterAgents, At
  <2>2. \A p \in Participant : <<"deregisterAgent", p>> \in Calls
    BY DEF Calls, Operation
  <2>3. \A p \in Participant : Dereg(p)' = Dereg(p)
    <3>1. Send({"registerAgent"} \X Participant)
      BY <1>8 DEF RegisterAgents, registerAgent
    <3>2. \A t \in Calls : t \notin {"registerAgent"} \X Participant => tx'[t] = tx[t]
      BY <3>1, SendTouches
    <3>3. \A p \in Participant : <<"deregisterAgent", p>> \notin {"registerAgent"} \X Participant
      OBVIOUS
    <3> QED
      BY <2>2, <3>2, <3>3 DEF Dereg
  <2>4. Quiet /\ chain.mine = {}
    BY <1>0, <2>1 DEF LeftInv, Quiet, Early
  <2> QED
    BY <1>0, <2>1, <2>3, <2>4 DEF LeftInv, Quiet, At, Early, Middle
\* While the agents are at work.
<1>9. ASSUME run.phase \in Middle, Same, chain' = chain, run'.next = run.next,
             run'.warned = run.warned, run'.phase \in Middle \cup {"cleanup"}
      PROVE  LeftInv'
  BY <1>0, <1>9 DEF LeftInv, Quiet, At, Early, Middle
<1>10. CASE CreateProposal
  <2>1. Same /\ chain' = chain /\ run.phase \in Middle
    BY <1>10, WrappersLeave DEF CreateProposal, At, Middle
  <2>2. run'.next = run.next /\ run'.warned = run.warned /\ run'.phase \in Middle \cup {"cleanup"}
    BY <1>0, <1>10, RunFields DEF CreateProposal, Middle, RunType
  <2> QED
    BY <1>9, <2>1, <2>2
<1>11. CASE CastVotes
  <2>1. Same /\ chain' = chain /\ run.phase \in Middle
    BY <1>11, WrappersLeave DEF CastVotes, At, Middle
  <2>2. run'.next = run.next /\ run'.warned = run.warned /\ run'.phase \in Middle \cup {"cleanup"}
    BY <1>0, <1>11, RunFields DEF CastVotes, Middle, RunType
  <2> QED
    BY <1>9, <2>1, <2>2
<1>12. CASE ReadProposal
  <2>1. Same /\ chain' = chain /\ run.phase \in Middle
    BY <1>12, WrappersLeave DEF ReadProposal, At, Middle
  <2>2. run'.next = run.next /\ run'.warned = run.warned /\ run'.phase \in Middle \cup {"cleanup"}
    BY <1>0, <1>12, RunFields DEF ReadProposal, Middle, RunType
  <2> QED
    BY <1>9, <2>1, <2>2
<1>13. CASE ExecuteProposal
  <2>1. Same /\ chain' = chain /\ run.phase \in Middle
    BY <1>13, WrappersLeave DEF ExecuteProposal, At, Middle
  <2>2. run'.next = run.next /\ run'.warned = run.warned /\ run'.phase \in Middle \cup {"cleanup"}
    BY <1>0, <1>13, RunFields DEF ExecuteProposal, Middle, RunType
  <2> QED
    BY <1>9, <2>1, <2>2
<1>14. CASE CheckFee
  <2>1. Same /\ chain' = chain /\ run.phase \in Middle
    BY <1>14, WrappersLeave DEF CheckFee, At, Middle
  <2>2. run'.next = run.next /\ run'.warned = run.warned /\ run'.phase \in Middle \cup {"cleanup"}
    BY <1>0, <1>14, RunFields DEF CheckFee, Middle, RunType
  <2> QED
    BY <1>9, <2>1, <2>2
<1>15. CASE Deregister
  <2>1. /\ run.phase = "cleanup" /\ run.next \in Participant /\ Dereg(run.next) = "none"
        /\ deregisterAgent(run.next) /\ chain' = chain /\ run' = run
    BY <1>15 DEF Deregister, At, Dereg
  <2>2. \A p \in Participant : <<"registerAgent", p>> \in Calls /\ <<"deregisterAgent", p>> \in Calls
    BY DEF Calls, Operation
  <2>3. \A t \in Calls : tx'[t] = IF t = <<"deregisterAgent", run.next>> THEN "sent" ELSE tx[t]
    <3>1. Send({<<"deregisterAgent", run.next>>})
      BY <2>1 DEF deregisterAgent
    <3> QED
      BY <3>1, SendTouches
  <2>4. \A p \in Participant : Reg(p)' = Reg(p)
    BY <2>2, <2>3 DEF Reg
  <2>5. \A p \in Participant : Dereg(p)' = IF p = run.next THEN "sent" ELSE Dereg(p)
    BY <2>2, <2>3 DEF Dereg
  <2> QED
    BY <1>0, <2>1, <2>4, <2>5 DEF LeftInv, Quiet, At, Early, Middle
<1>16. CASE Deregistered
  <2>1. /\ run.phase = "cleanup" /\ run.next \in Participant /\ chain' = chain /\ tx' = tx
        /\ run'.phase = "cleanup" /\ run'.next = run.next + 1
        /\ \/ Dereg(run.next) = "ok" /\ run'.warned = run.warned
           \/ run'.warned = run.warned \cup {run.next}
    BY <1>0, <1>16 DEF Deregistered, At, Dereg, RunType
  <2>2. Same
    BY <2>1 DEF Reg, Dereg
  <2>3. \A p \in Participant : p < run.next + 1 => p < run.next \/ p = run.next
    BY <1>0
  <2> QED
    BY <1>0, <2>1, <2>2, <2>3 DEF LeftInv, Quiet, At, Early, Middle
<1>17. CASE Finish
  <2>1. /\ run.phase = "cleanup" /\ run.next \notin Participant /\ chain' = chain /\ tx' = tx
        /\ run'.phase = "over" /\ run'.next = run.next /\ run'.warned = run.warned
    BY <1>0, <1>17, RunFields DEF Finish, At
  <2>2. Same
    BY <2>1 DEF Reg, Dereg
  <2>3. run.next = N + 1
    BY <1>0, <2>1, Constants DEF RunType, Participant
  <2> QED
    BY <1>0, <2>1, <2>2, <2>3 DEF LeftInv, Quiet, At, Early, Middle
<1> QED
  BY <1>2, <1>3, <1>4, <1>5, <1>6, <1>7, <1>8, <1>10, <1>11, <1>12, <1>13, <1>14, <1>15, <1>16, <1>17
     DEF RunStep

\* Nobody else touches the agents.
LEMMA LeftOtherStep ==
  ASSUME TypeInv, LeftInv,
         ResumeStep \/ OthersRegister \/ OthersChangeFee \/ CancelProposal \/ Tick
         \/ UNCHANGED govVars
  PROVE  LeftInv'
<1>1. run' = run /\ chain'.mine = chain.mine
  BY DEF TypeInv, ChainType, ResumeStep, ResumeStart, ResumeReads, ResumeReadThrows, ResumeEnds,
     OthersRegister, OthersChangeFee, CancelProposal, Tick, govVars
<1>2. \A p \in Participant : Reg(p)' = Reg(p) /\ Dereg(p)' = Dereg(p)
  BY WrappersLeave DEF ResumeStep, ResumeStart, ResumeReads, ResumeReadThrows, ResumeEnds,
     OthersRegister, OthersChangeFee, CancelProposal, Tick, govVars
<1>3. chain.mine \subseteq Participant
  BY DEF TypeInv, ChainType
<1> QED
  BY <1>1, <1>2, <1>3 DEF LeftInv, Quiet, At

\* Every step keeps it.
LEMMA LeftStep == TypeInv /\ LeftInv /\ [GovNext]_govVars => LeftInv'
BY LeftTxStep, LeftRunStep, LeftOtherStep DEF GovNext

-----------------------------------------------------------------------------
(* What the runs report.                                                   *)

Settled == chain.proposal.status \in {"Executed", "Defeated"}

RivalSetIt == chain.rival /\ RivalFee = run.nextFee

\* The fee is the one the run wants only when the proposal was executed or
\* another one happens to set the same.
ReportInv ==
    /\ run.phase \in Early \cup Middle => run.outcome = "pending"
    /\ run.phase \in {"cleanup", "over"} => run.outcome # "pending"
    /\ run.phase \in (Early \ {"start"}) \cup Middle =>
          chain.proposal.status = "Executed" \/ chain.fee # run.nextFee \/ RivalSetIt
    /\ run.outcome = "final" => chain.proposal.status = "Executed" \/ RivalSetIt
    /\ \A p \in Participant : tx[<<"resume", p>>] \in {"landed", "ok"} => Settled
    /\ resume.reported => Settled

\* The invariant is what the reports are to be.
LEMMA ReportDone == ReportInv => ReportsAreTrue
BY DEF ReportInv, ReportsAreTrue, RivalSetIt, Settled

\* The types and the outcome of a run that is over.
LEMMA TypeOKDone == TypeInv /\ ReportInv => GovTypeOK
BY DEF TypeInv, ReportInv, GovTypeOK, ChainType, ProposalType, RunType, Calls, At

\* At first nothing is reported.
LEMMA ReportInit == GovInit => ReportInv
<1> SUFFICES ASSUME GovInit PROVE ReportInv
  OBVIOUS
<1>1. \A p \in Participant : tx[<<"resume", p>>] = "none"
  BY DEF GovInit, Operation
<1>2. run.phase = "start" /\ run.outcome = "pending" /\ resume.reported = FALSE
  BY DEF GovInit
<1> QED
  BY <1>1, <1>2 DEF ReportInv, Early, Middle

\* A transaction changes the fee only by executing the proposal.
LEMMA ReportTxStep ==
  ASSUME TypeInv, ReportInv, TxStep
  PROVE  ReportInv'
<1>1. PICK t \in Calls : TxLand(t) \/ TxReject(t) \/ RpcLosesTx(t) \/ TxConfirmed(t) \/ ConfirmationThrows(t)
  BY DEF TxStep, Calls
<1>2. PICK op \in Operation, q \in Participant : t = <<op, q>>
  BY DEF Calls
<1>3. tx \in [Calls -> Status] /\ \A p \in Participant : <<"resume", p>> \in Calls
  BY DEF Calls, Operation, TypeInv
<1>4. CASE TxLand(t)
  <2>1. /\ run' = run /\ resume' = resume
        /\ \E s \in {"landed", "failed"} : tx' = [tx EXCEPT ![t] = s]
        /\ Accepts(chain, op, q) /\ chain' = After(chain, op, q)
    BY <1>2, <1>4 DEF TxLand, Becomes
  <2>2. chain'.rival = chain.rival
    BY <2>1, AfterFields
  <2>3. /\ Settled => chain'.proposal.status = chain.proposal.status
        /\ chain'.proposal.status = "Executed" \/ chain'.fee = chain.fee
        /\ op = "resume" => Settled'
    BY <2>1, AfterStatus DEF Settled
  <2>4. \A p \in Participant : op # "resume" => tx'[<<"resume", p>>] = tx[<<"resume", p>>]
    BY <1>2, <1>3, <2>1
  <2> QED
    BY <2>1, <2>2, <2>3, <2>4 DEF ReportInv, Settled, RivalSetIt
<1>5. CASE TxReject(t) \/ RpcLosesTx(t) \/ TxConfirmed(t) \/ ConfirmationThrows(t)
  <2>1. Moves(t)
    BY <1>5, QuietStepsMove
  <2>2. UNCHANGED <<run, chain, resume>>
    BY <2>1 DEF Moves
  <2>3. \A p \in Participant : tx'[<<"resume", p>>] \in {"landed", "ok"}
                                 => tx[<<"resume", p>>] \in {"landed", "ok"}
    BY <1>3, <2>1 DEF Moves
  <2> QED
    BY <2>2, <2>3 DEF ReportInv, Settled, RivalSetIt
<1> QED
  BY <1>1, <1>4, <1>5

\* A wrapper other than the resumed run's leaves its transaction alone.
LEMMA WrappersLeaveResume ==
  ASSUME TypeInv,
         \/ initializeGovernance \/ registerAgent(Participant) \/ createProposal
         \/ voteProposal(Participant) \/ executeProposal("executeProposal")
         \/ \E p \in Participant : deregisterAgent(p)
         \/ UNCHANGED tx
  PROVE  \A p \in Participant : tx'[<<"resume", p>>] = tx[<<"resume", p>>]
<1> SUFFICES ASSUME NEW q \in Participant PROVE tx'[<<"resume", q>>] = tx[<<"resume", q>>]
  OBVIOUS
<1>1. <<"resume", q>> \in Calls
  BY DEF Calls, Operation
<1>2. ASSUME NEW calls, Send(calls), <<"resume", q>> \notin calls
      PROVE  tx'[<<"resume", q>>] = tx[<<"resume", q>>]
  BY <1>1, <1>2, SendTouches
<1> QED
  BY <1>2 DEF initializeGovernance, registerAgent, createProposal, voteProposal, executeProposal,
     deregisterAgent

\* The run chooses a fee other than the present one and looks at it once more before it reports.
LEMMA ReportRunStep ==
  ASSUME TypeInv, ReportInv, RunStep
  PROVE  ReportInv'
<1>0. run \in RunType /\ chain \in ChainType
  BY DEF TypeInv
<1>1. /\ chain' = chain /\ resume' = resume
      /\ \A p \in Participant : tx'[<<"resume", p>>] = tx[<<"resume", p>>]
  BY WrappersLeaveResume DEF RunStep, ReadProtocol, ReadTotals, ReadGovernance,
     GovernanceInitialized, ReadBalances, SearchStake, RegisterAgents, CreateProposal, CastVotes,
     ReadProposal, ExecuteProposal, CheckFee, Deregister, Deregistered, Finish
\* Only the first step chooses a fee, and only the last one looks at it.
<1>2. ASSUME run'.nextFee = run.nextFee, run.phase # "start" \/ run'.phase = "over",
             \/ run'.phase \in Early \cup Middle /\ run'.outcome = run.outcome
                /\ run.phase \in Early \cup Middle
             \/ /\ run'.phase \in {"cleanup", "over"}
                /\ run'.outcome \in {"deferred", "threw"} \/ (run'.outcome = run.outcome /\ run.phase = "cleanup")
      PROVE  ReportInv'
  BY <1>1, <1>2 DEF ReportInv, Settled, RivalSetIt, Early, Middle
<1>3. CASE ReadProtocol
  <2> DEFINE fee == IF chain.fee >= 999 THEN chain.fee - 1 ELSE chain.fee + 1
  <2>1. run.phase = "start" /\ (run' = [run EXCEPT !.phase = "totals", !.nextFee = fee] \/ Fail)
    BY <1>3 DEF ReadProtocol, At
  <2>2. fee # chain.fee
    BY <1>0 DEF ChainType
  <2> HIDE DEF fee
  <2>3. CASE Fail
    BY <1>2, <2>3, RunFields
  <2>4. CASE run' = [run EXCEPT !.phase = "totals", !.nextFee = fee]
    <3>1. run'.phase = "totals" /\ run'.nextFee = fee /\ run'.outcome = run.outcome
      BY <1>0, <2>4 DEF RunType
    <3> QED
      BY <1>1, <2>1, <2>2, <3>1 DEF ReportInv, Settled, RivalSetIt, Early, Middle
  <2> QED
    BY <2>1, <2>3, <2>4
<1>4. CASE ReadTotals
  BY <1>0, <1>2, <1>4, RunFields DEF ReadTotals, At, Early, Middle, RunType
<1>5. CASE ReadGovernance
  BY <1>0, <1>2, <1>5, RunFields DEF ReadGovernance, At, Early, Middle, RunType
<1>6. CASE GovernanceInitialized
  BY <1>0, <1>2, <1>6, RunFields DEF GovernanceInitialized, At, Early, Middle, RunType
<1>7. CASE ReadBalances
  BY <1>0, <1>2, <1>7, RunFields DEF ReadBalances, At, Early, Middle, RunType
<1>8. CASE SearchStake
  BY <1>0, <1>2, <1>8, RunFields DEF SearchStake, At, Early, Middle, RunType
<1>9. CASE RegisterAgents
  BY <1>0, <1>2, <1>9, RunFields DEF RegisterAgents, At, Early, Middle, RunType
<1>10. CASE CreateProposal
  BY <1>0, <1>2, <1>10, RunFields DEF CreateProposal, At, Early, Middle, RunType
<1>11. CASE CastVotes
  BY <1>0, <1>2, <1>11, RunFields DEF CastVotes, At, Early, Middle, RunType
<1>12. CASE ReadProposal
  BY <1>0, <1>2, <1>12, RunFields DEF ReadProposal, At, Early, Middle, RunType
<1>13. CASE ExecuteProposal
  BY <1>0, <1>2, <1>13, RunFields DEF ExecuteProposal, At, Early, Middle, RunType
<1>14. CASE CheckFee
  <2>1. CASE chain.fee = run.nextFee /\ CleanUp("final") /\ run.phase = "executing"
    <3>1. run'.phase = "cleanup" /\ run'.outcome = "final" /\ run'.nextFee = run.nextFee
      BY <2>1, RunFields
    <3> QED
      BY <1>1, <2>1, <3>1 DEF ReportInv, Settled, RivalSetIt, Early, Middle
  <2>2. CASE CleanUp("threw") /\ run.phase = "executing"
    BY <1>2, <2>2, RunFields
  <2> QED
    BY <1>14, <2>1, <2>2 DEF CheckFee, At
<1>15. CASE Deregister
  <2>1. run.phase = "cleanup" /\ run.outcome # "pending"
    BY <1>15 DEF Deregister, At, ReportInv
  <2>2. run'.nextFee = run.nextFee /\ run'.outcome = run.outcome /\ run'.phase \in {"cleanup", "over"}
    BY <1>0, <1>15, <2>1, RunFields DEF Deregister, RunType
  <2> QED
    BY <1>2, <2>1, <2>2
<1>16. CASE Deregistered
  <2>1. run.phase = "cleanup" /\ run.outcome # "pending"
    BY <1>16 DEF Deregistered, At, ReportInv
  <2>2. run'.nextFee = run.nextFee /\ run'.outcome = run.outcome /\ run'.phase \in {"cleanup", "over"}
    BY <1>0, <1>16, <2>1, RunFields DEF Deregistered, RunType
  <2> QED
    BY <1>2, <2>1, <2>2
<1>17. CASE Finish
  <2>1. run.phase = "cleanup" /\ run.outcome # "pending"
    BY <1>17 DEF Finish, At, ReportInv
  <2>2. run'.nextFee = run.nextFee /\ run'.outcome = run.outcome /\ run'.phase \in {"cleanup", "over"}
    BY <1>0, <1>17, <2>1, RunFields DEF Finish, RunType
  <2> QED
    BY <1>2, <2>1, <2>2
<1> QED
  BY <1>3, <1>4, <1>5, <1>6, <1>7, <1>8, <1>9, <1>10, <1>11, <1>12, <1>13, <1>14, <1>15, <1>16, <1>17
     DEF RunStep

\* A resumed run reports only what its transaction has done.
LEMMA ReportOtherStep ==
  ASSUME TypeInv, ReportInv,
         ResumeStep \/ OthersRegister \/ OthersChangeFee \/ CancelProposal \/ Tick
         \/ UNCHANGED govVars
  PROVE  ReportInv'
<1>0. chain \in ChainType /\ chain.proposal \in ProposalType
      /\ resume \in [phase : {"idle", "reading", "executing"}, reported : BOOLEAN]
  BY DEF TypeInv, ChainType
<1>1. CASE ResumeStep
  <2>1. UNCHANGED <<chain, run>>
    BY <1>1 DEF ResumeStep, ResumeStart, ResumeReads, ResumeReadThrows, ResumeEnds
  <2>2. \A p \in Participant :
          tx'[<<"resume", p>>] = tx[<<"resume", p>>] \/ tx'[<<"resume", p>>] = "sent"
    <3>1. CASE executeProposal("resume")
      <4>1. \A p \in Participant : <<"resume", p>> \in Calls
        BY DEF Calls, Operation
      <4> QED
        BY <3>1, <4>1, SendTouches DEF executeProposal
    <3> QED
      BY <1>1, <3>1 DEF ResumeStep, ResumeStart, ResumeReads, ResumeReadThrows, ResumeEnds
  <2>3. resume'.reported => resume.reported \/ Settled
    <3>1. \A reported \in BOOLEAN : Stop(reported) => resume'.reported = (resume.reported \/ reported)
      BY <1>0 DEF Stop
    <3>2. tx[<<"resume", Proposer>>] = "ok" => Settled
      BY Constants DEF ReportInv
    <3>3. CASE ResumeStart
      BY <1>0, <3>3 DEF ResumeStart
    <3>4. CASE ResumeReads
      BY <1>0, <3>1, <3>4 DEF ResumeReads
    <3>5. CASE ResumeReadThrows
      BY <3>1, <3>5 DEF ResumeReadThrows
    <3>6. CASE ResumeEnds
      BY <3>1, <3>2, <3>6 DEF ResumeEnds
    <3> QED
      BY <1>1, <3>3, <3>4, <3>5, <3>6 DEF ResumeStep
  <2> QED
    BY <2>1, <2>2, <2>3 DEF ReportInv, Settled, RivalSetIt
<1>2. CASE OthersRegister
  <2>1. UNCHANGED <<run, resume, tx>> /\ chain'.proposal = chain.proposal
        /\ chain'.fee = chain.fee /\ chain'.rival = chain.rival
    BY <1>0, <1>2 DEF OthersRegister, ChainType
  <2> QED
    BY <2>1 DEF ReportInv, Settled, RivalSetIt
<1>3. CASE OthersChangeFee
  <2>1. UNCHANGED <<run, resume, tx>> /\ chain'.proposal = chain.proposal
        /\ chain'.fee = RivalFee /\ chain'.rival
    BY <1>0, <1>3 DEF OthersChangeFee, ChainType
  <2>2. ~chain.rival
    BY <1>3 DEF OthersChangeFee
  <2> QED
    BY <2>1, <2>2 DEF ReportInv, Settled, RivalSetIt
<1>4. CASE CancelProposal
  <2>1. UNCHANGED <<run, resume, tx>> /\ chain.proposal.status = "Active"
        /\ run.outcome = "deferred"
        /\ chain'.fee = chain.fee /\ chain'.rival = chain.rival
    BY <1>0, <1>4 DEF CancelProposal, ChainType
  <2> QED
    BY <2>1 DEF ReportInv, Settled, RivalSetIt
<1>5. CASE Tick \/ UNCHANGED govVars
  BY <1>5 DEF Tick, govVars, ReportInv, Settled, RivalSetIt
<1> QED
  BY <1>1, <1>2, <1>3, <1>4, <1>5

\* Every step keeps it.
LEMMA ReportStep == TypeInv /\ ReportInv /\ [GovNext]_govVars => ReportInv'
BY ReportTxStep, ReportRunStep, ReportOtherStep DEF GovNext
-----------------------------------------------------------------------------
(* The plan and the quorum.                                                *)

\* The proposal was sent, or is there.
Begun ==
    \/ chain.proposal.status # "none"
    \/ \E p \in Participant : tx[<<"createProposal", p>>] # "none"

PlanMatches ==
    /\ chain.governance.exists
    /\ terms.minProposalStake = chain.governance.minProposalStake
    /\ terms.quorumBps = chain.governance.quorumBps
    /\ terms.minArbiterStake = chain.minArbiterStake
    /\ terms.totalAgents = run.totalAgents
    /\ terms.participantCount = N

QuorumBounded ==
    chain.proposal.quorum <= RequiredVoteWeight(chain.others + N, chain.governance.quorumBps,
                                                chain.governance.minProposalStake)

VotesCounted == chain.proposal.votes = Cardinality(chain.ballots) * VoteWeight(chain)

\* What the plan was made from is still so when the proposal is created, whose
\* quorum is never above what all participants together were planned to reach.
QuorumInv ==
    /\ run.phase \in Early => ~Begun
    /\ At("balances") => chain.governance.exists
    /\ run.phase \in {"planning", "registering"} => PlanMatches
    /\ At("registering") => low = high
    /\ Begun => PlanMatches /\ low = high
    /\ chain.proposal.status = "none" => chain.ballots = {}
    /\ chain.proposal.status # "none" => QuorumBounded /\ VotesCounted

\* The votes of all participants reach the quorum of the plan, which is above the proposal's.
LEMMA QuorumDone == TypeInv /\ QuorumInv => PlanReachesQuorum
<1> SUFFICES ASSUME TypeInv, QuorumInv, chain.ballots = Participant, chain.others <= run.totalAgents
             PROVE  chain.proposal.votes >= chain.proposal.quorum
  BY DEF PlanReachesQuorum
<1> DEFINE w == computeVoteWeight(low, chain.minArbiterStake)
           quorumAt(agents) == RequiredVoteWeight(agents, chain.governance.quorumBps,
                                                  chain.governance.minProposalStake)
<1>1. /\ chain \in ChainType /\ chain.proposal \in ProposalType /\ chain.governance \in Governance
      /\ run \in RunType /\ PlanInv
  BY DEF TypeInv, ChainType
<1>2. Cardinality(Participant) = N /\ Participant # {} /\ N \in Nat
  <2>1. Cardinality(Participant) = N
    BY Constants, FS_Interval DEF Participant
  <2> QED
    BY <2>1, Constants
<1>3. PlanMatches /\ low = high /\ QuorumBounded /\ VotesCounted
  BY <1>2 DEF QuorumInv, Begun
<1>4. w * N >= quorumAt(run.totalAgents + N)
  BY <1>1, <1>3 DEF PlanInv, Enough, Required, PlanMatches
<1>5. /\ chain.others + N \in Nat /\ run.totalAgents + N \in Nat
      /\ chain.others + N <= run.totalAgents + N
      /\ chain.governance.quorumBps \in Nat /\ chain.governance.minProposalStake \in Nat
  BY <1>1, <1>2 DEF ChainType, RunType, Governance
<1>6. /\ quorumAt(chain.others + N) <= quorumAt(run.totalAgents + N)
      /\ quorumAt(chain.others + N) \in Nat /\ quorumAt(run.totalAgents + N) \in Nat
  BY <1>5, RequiredMonotone, RequiredIsNat
<1>7. chain.proposal.votes = N * w /\ chain.proposal.quorum <= quorumAt(chain.others + N)
  BY <1>2, <1>3 DEF VotesCounted, QuorumBounded, VoteWeight, stake
<1>8. w \in Nat /\ chain.proposal.quorum \in Nat
  BY <1>1, WeightIsNat DEF PlanInv, ChainType, ProposalType
<1> HIDE DEF w, quorumAt
<1>9. N * w = w * N /\ w * N \in Nat
  BY <1>2, <1>8
<1> QED
  BY <1>4, <1>6, <1>7, <1>8, <1>9

\* At first nothing has begun.
LEMMA QuorumInit == GovInit => QuorumInv
<1> SUFFICES ASSUME GovInit PROVE QuorumInv
  OBVIOUS
<1>1. \A p \in Participant : tx[<<"createProposal", p>>] = "none"
  BY DEF GovInit, Operation
<1>2. run.phase = "start" /\ chain.ballots = {} /\ chain.proposal.status = "none"
  BY DEF GovInit, NoProposal
<1> QED
  BY <1>1, <1>2 DEF QuorumInv, Begun, Early, At

\* The proposal, for the instructions that do not create it.
LEMMA AfterProposal ==
  ASSUME TypeInv, NEW op \in Operation \ {"createProposal"}, NEW p, Accepts(chain, op, p)
  PROVE  /\ After(chain, op, p).proposal.status = "none" <=> chain.proposal.status = "none"
         /\ After(chain, op, p).proposal.quorum = chain.proposal.quorum
         /\ After(chain, op, p).proposal.votes
              = IF op = "voteProposal" THEN chain.proposal.votes + VoteWeight(chain)
                ELSE chain.proposal.votes
<1>1. chain \in ChainType /\ chain.proposal \in ProposalType
  BY DEF TypeInv, ChainType
<1>2. CASE op = "initializeGovernance"
  <2>1. After(chain, op, p) = [chain EXCEPT !.governance = GovernanceDefaults(chain)]
    BY <1>2, AfterEach
  <2> QED
    BY <1>1, <1>2, <2>1 DEF ChainType
<1>3. CASE op = "registerAgent"
  <2>1. After(chain, op, p) = [chain EXCEPT !.mine = chain.mine \cup {p}]
    BY <1>3, AfterEach
  <2> QED
    BY <1>1, <1>3, <2>1 DEF ChainType
<1>4. CASE op = "deregisterAgent"
  <2>1. After(chain, op, p) = [chain EXCEPT !.mine = chain.mine \ {p}]
    BY <1>4, AfterEach
  <2> QED
    BY <1>1, <1>4, <2>1 DEF ChainType
<1>5. CASE op = "voteProposal"
  <2>1. After(chain, op, p)
          = [chain EXCEPT !.ballots = chain.ballots \cup {p},
                          !.proposal.votes = chain.proposal.votes + VoteWeight(chain)]
    BY <1>5, AfterEach
  <2> QED
    BY <1>1, <1>5, <2>1 DEF ChainType, ProposalType
<1>6. CASE op \in {"executeProposal", "resume"}
  <2>1. \/ After(chain, op, p) = [chain EXCEPT !.proposal.status = "Executed",
                                             !.fee = chain.proposal.fee]
        \/ After(chain, op, p) = [chain EXCEPT !.proposal.status = "Defeated"]
    BY <1>6, AfterEach
  <2>2. chain.proposal.status = "Active"
    BY <1>6 DEF Accepts
  <2>3. ASSUME NEW s \in {"Executed", "Defeated"}, After(chain, op, p).proposal
                                                     = [chain.proposal EXCEPT !.status = s]
        PROVE  /\ After(chain, op, p).proposal.status = s
               /\ After(chain, op, p).proposal.quorum = chain.proposal.quorum
               /\ After(chain, op, p).proposal.votes = chain.proposal.votes
    BY <1>1, <2>3 DEF ProposalType
  <2>4. \E s \in {"Executed", "Defeated"} :
          After(chain, op, p).proposal = [chain.proposal EXCEPT !.status = s]
    BY <1>1, <2>1 DEF ChainType
  <2> QED
    BY <1>6, <2>2, <2>3, <2>4
<1> QED
  BY <1>2, <1>3, <1>4, <1>5, <1>6 DEF Operation

\* One more ballot is one more vote of the same weight.
LEMMA OneMoreVote ==
  ASSUME NEW c \in Nat, NEW w \in Nat
  PROVE  (c + 1) * w = c * w + w
OBVIOUS

\* Creation fixes a quorum within the plan, and every vote counts once.
LEMMA QuorumTxStep ==
  ASSUME TypeInv, QuorumInv, TxStep
  PROVE  QuorumInv'
<1>1. PICK t \in Calls : TxLand(t) \/ TxReject(t) \/ RpcLosesTx(t) \/ TxConfirmed(t) \/ ConfirmationThrows(t)
  BY DEF TxStep, Calls
<1>2. PICK op \in Operation, q \in Participant : t = <<op, q>>
  BY DEF Calls
<1>3. /\ tx \in [Calls -> Status] /\ \A p \in Participant : <<"createProposal", p>> \in Calls
      /\ chain \in ChainType /\ chain.proposal \in ProposalType /\ chain.governance \in Governance
      /\ low \in Int
  BY DEF Calls, Operation, TypeInv, ChainType, PlanInv
<1>4. CASE TxLand(t)
  <2>1. /\ run' = run /\ low' = low /\ high' = high /\ terms' = terms
        /\ tx[t] \in {"sent", "lost"}
        /\ \E s \in {"landed", "failed"} : tx' = [tx EXCEPT ![t] = s]
        /\ Accepts(chain, op, q) /\ chain' = After(chain, op, q)
    BY <1>2, <1>4 DEF TxLand, Becomes
  <2>2. /\ chain'.minArbiterStake = chain.minArbiterStake /\ chain'.others = chain.others
        /\ chain'.governance = IF op = "initializeGovernance" THEN GovernanceDefaults(chain)
                               ELSE chain.governance
        /\ chain'.ballots = IF op = "voteProposal" THEN chain.ballots \cup {q} ELSE chain.ballots
    <3> DEFINE after == After(chain, op, q)
    <3>1. /\ after.minArbiterStake = chain.minArbiterStake /\ after.others = chain.others
          /\ after.governance = IF op = "initializeGovernance" THEN GovernanceDefaults(chain)
                                ELSE chain.governance
          /\ after.ballots = IF op = "voteProposal" THEN chain.ballots \cup {q} ELSE chain.ballots
      BY AfterFields
    <3>2. chain' = after
      BY <2>1
    <3> HIDE DEF after
    <3> QED
      BY <3>1, <3>2
  <2>3. VoteWeight(chain)' = VoteWeight(chain) /\ VoteWeight(chain) \in Nat
    <3>1. chain.minArbiterStake \in Nat
      BY <1>3 DEF ChainType
    <3>2. computeVoteWeight(low, chain.minArbiterStake) \in Nat
      BY <1>3, <3>1, WeightIsNat
    <3> QED
      BY <2>1, <2>2, <3>2 DEF VoteWeight, stake
  <2>4. \A p \in Participant : (tx[<<"createProposal", p>>] # "none")'
                                 <=> tx[<<"createProposal", p>>] # "none"
    BY <1>2, <1>3, <2>1
  <2>5. CASE op = "createProposal"
    <3>1. chain.proposal.status = "none" /\ chain' = [chain EXCEPT !.proposal = Created]
      BY <2>1, <2>5, AfterCreate DEF Accepts
    <3>2. chain'.proposal = Created /\ chain'.governance = chain.governance
      BY <1>3, <3>1 DEF ChainType
    <3>3. tx[<<"createProposal", q>>] # "none"
      BY <1>2, <2>1, <2>5
    <3>4. Begun /\ Begun'
      BY <2>4, <3>3 DEF Begun
    <3>5. chain.ballots = {} /\ chain'.ballots = {}
      BY <2>2, <2>5, <3>1 DEF QuorumInv
    <3>6. VotesCounted'
      <4>1. chain'.proposal.votes = 0
        BY <3>2 DEF Created
      <4>2. Cardinality({}) = 0
        BY FS_EmptySet
      <4> QED
        BY <2>3, <3>5, <4>1, <4>2 DEF VotesCounted
    <3>7. QuorumBounded'
      <4>1. TotalAgents(chain) \in Nat /\ chain.others + N \in Nat
            /\ TotalAgents(chain) <= chain.others + N
        BY <1>3, AgentsFinite, Constants DEF TotalAgents, ChainType
      <4>2. RequiredVoteWeight(TotalAgents(chain), chain.governance.quorumBps,
                               chain.governance.minProposalStake)
              <= RequiredVoteWeight(chain.others + N, chain.governance.quorumBps,
                                    chain.governance.minProposalStake)
        BY <1>3, <4>1, RequiredMonotone DEF Governance
      <4> QED
        BY <2>2, <3>2, <4>2 DEF QuorumBounded, Created
    <3>8. chain'.proposal.status = "Active"
      BY <3>2 DEF Created
    <3> QED
      BY <2>1, <2>2, <3>2, <3>4, <3>6, <3>7, <3>8 DEF QuorumInv, PlanMatches, At
  <2>6. CASE op # "createProposal"
    <3>1. /\ chain'.proposal.status = "none" <=> chain.proposal.status = "none"
          /\ chain'.proposal.quorum = chain.proposal.quorum
          /\ chain'.proposal.votes = IF op = "voteProposal"
                                     THEN chain.proposal.votes + VoteWeight(chain)
                                     ELSE chain.proposal.votes
      BY <2>1, <2>6, AfterProposal
    <3>2. Begun' <=> Begun
      BY <2>4, <3>1 DEF Begun
    <3>3. chain.governance.exists => chain'.governance = chain.governance
      BY <2>1, <2>2 DEF Accepts
    <3>4. PlanMatches => PlanMatches'
      BY <2>1, <2>2, <3>3 DEF PlanMatches
    <3>5. chain.proposal.status = "none" => chain'.ballots = chain.ballots
      BY <2>1, <2>2 DEF Accepts
    <3>6. chain.proposal.status # "none" => QuorumBounded'
      BY <2>2, <3>1, <3>3 DEF QuorumInv, Begun, PlanMatches, QuorumBounded
    <3>7. chain.proposal.status # "none" => VotesCounted'
      <4>1. CASE op = "voteProposal"
        <5>1. q \notin chain.ballots
          BY <2>1, <4>1 DEF Accepts
        <5>2. IsFiniteSet(chain.ballots) /\ Cardinality(chain.ballots) \in Nat
          BY <1>3, AgentsFinite DEF ChainType
        <5>3. Cardinality(chain'.ballots) = Cardinality(chain.ballots) + 1
          BY <2>2, <4>1, <5>1, <5>2, FS_AddElement
        <5> QED
          BY <2>3, <3>1, <4>1, <5>2, <5>3, OneMoreVote DEF VotesCounted, QuorumInv
      <4>2. CASE op # "voteProposal"
        BY <2>2, <2>3, <3>1, <4>2 DEF VotesCounted, QuorumInv
      <4> QED
        BY <4>1, <4>2
    <3> QED
      BY <2>1, <3>1, <3>2, <3>3, <3>4, <3>5, <3>6, <3>7 DEF QuorumInv, At
  <2> QED
    BY <2>5, <2>6
<1>5. CASE TxReject(t) \/ RpcLosesTx(t) \/ TxConfirmed(t) \/ ConfirmationThrows(t)
  <2>1. Moves(t)
    BY <1>5, QuietStepsMove
  <2>2. UNCHANGED <<run, chain, terms, low, high>>
    BY <2>1 DEF Moves
  <2>3. \A p \in Participant : (tx[<<"createProposal", p>>] # "none")'
                                 <=> tx[<<"createProposal", p>>] # "none"
    BY <1>3, <2>1 DEF Moves
  <2>4. Begun' <=> Begun
    BY <2>2, <2>3 DEF Begun
  <2> QED
    BY <2>2, <2>4 DEF QuorumInv, At, PlanMatches, QuorumBounded, VotesCounted, VoteWeight, stake
<1> QED
  BY <1>1, <1>4, <1>5

\* A wrapper other than createProposal leaves its transaction alone.
LEMMA WrappersLeaveCreate ==
  ASSUME TypeInv,
         \/ initializeGovernance \/ registerAgent(Participant)
         \/ voteProposal(Participant) \/ executeProposal("executeProposal")
         \/ executeProposal("resume") \/ \E p \in Participant : deregisterAgent(p)
         \/ UNCHANGED tx
  PROVE  \A p \in Participant : tx'[<<"createProposal", p>>] = tx[<<"createProposal", p>>]
<1> SUFFICES ASSUME NEW q \in Participant
             PROVE  tx'[<<"createProposal", q>>] = tx[<<"createProposal", q>>]
  OBVIOUS
<1>1. <<"createProposal", q>> \in Calls
  BY DEF Calls, Operation
<1>2. ASSUME NEW calls, Send(calls), <<"createProposal", q>> \notin calls
      PROVE  tx'[<<"createProposal", q>>] = tx[<<"createProposal", q>>]
  BY <1>1, <1>2, SendTouches
<1> QED
  BY <1>2 DEF initializeGovernance, registerAgent, voteProposal, executeProposal, deregisterAgent

\* The run sends the proposal only with the plan it made.
LEMMA QuorumRunStep ==
  ASSUME TypeInv, QuorumInv, RunStep
  PROVE  QuorumInv'
<1> DEFINE Same == \A p \in Participant :
                     tx'[<<"createProposal", p>>] = tx[<<"createProposal", p>>]
<1>0. run \in RunType /\ chain' = chain
  BY DEF TypeInv, RunStep, ReadProtocol, ReadTotals, ReadGovernance, GovernanceInitialized,
     ReadBalances, SearchStake, RegisterAgents, CreateProposal, CastVotes, ReadProposal,
     ExecuteProposal, CheckFee, Deregister, Deregistered, Finish
\* Nothing has begun.
<1>1. ASSUME Same, run.phase \in Early,
             run'.phase \in Early \cup {"registering", "over"},
             run'.phase = "balances" => chain.governance.exists,
             run'.phase \in {"planning", "registering"} => PlanMatches',
             run'.phase = "registering" => low' = high'
      PROVE  QuorumInv'
  <2>1. ~Begun /\ ~Begun'
    BY <1>0, <1>1 DEF QuorumInv, Begun
  <2>2. chain'.proposal.status = "none" /\ chain'.ballots = {}
    BY <1>0, <2>1 DEF QuorumInv, Begun
  <2> QED
    BY <1>0, <1>1, <2>1, <2>2 DEF QuorumInv, At
\* The plan is made.
<1>2. ASSUME UNCHANGED <<terms, low, high>>, run'.totalAgents = run.totalAgents,
             run.phase \notin Early,
             run'.phase \notin Early, run'.phase # "registering",
             Same \/ (PlanMatches /\ low = high)
      PROVE  QuorumInv'
  <2>1. PlanMatches => PlanMatches'
    BY <1>0, <1>2 DEF PlanMatches
  <2>2. Begun' => PlanMatches' /\ low' = high'
    BY <1>0, <1>2, <2>1 DEF QuorumInv, Begun
  <2>3. (QuorumBounded => QuorumBounded') /\ (VotesCounted => VotesCounted')
    BY <1>0, <1>2 DEF QuorumBounded, VotesCounted, VoteWeight, stake
  <2> QED
    BY <1>0, <1>2, <2>2, <2>3 DEF QuorumInv, At, Early
<1>3. CASE ReadProtocol
  <2>1. Same /\ run.phase = "start"
    BY <1>3, WrappersLeaveCreate DEF ReadProtocol, At
  <2>2. run'.phase \in {"totals", "over"}
    BY <1>0, <1>3, RunFields DEF ReadProtocol, RunType
  <2> QED
    BY <1>1, <2>1, <2>2 DEF Early
<1>4. CASE ReadTotals
  <2>1. Same /\ run.phase = "totals"
    BY <1>4, WrappersLeaveCreate DEF ReadTotals, At
  <2>2. run'.phase \in {"config", "over"}
    BY <1>0, <1>4, RunFields DEF ReadTotals, RunType
  <2> QED
    BY <1>1, <2>1, <2>2 DEF Early
<1>5. CASE ReadGovernance
  <2>1. Same /\ run.phase = "config"
    BY <1>5, WrappersLeaveCreate DEF ReadGovernance, At
  <2>2. \/ run'.phase = "balances" /\ chain.governance.exists
        \/ run'.phase \in {"initializing", "over"}
    BY <1>0, <1>5, RunFields DEF ReadGovernance
  <2> QED
    BY <1>1, <2>1, <2>2 DEF Early
<1>6. CASE GovernanceInitialized
  <2>1. Same /\ run.phase = "initializing"
    BY <1>6, WrappersLeaveCreate DEF GovernanceInitialized, At
  <2>2. (run'.phase = "balances" /\ chain.governance.exists) \/ run'.phase = "over"
    BY <1>0, <1>6, RunFields DEF GovernanceInitialized
  <2> QED
    BY <1>1, <2>1, <2>2 DEF Early
<1>7. CASE ReadBalances
  <2>1. Same /\ run.phase = "balances" /\ chain.governance.exists
    BY <1>7, WrappersLeaveCreate DEF ReadBalances, At, QuorumInv
  <2>2. CASE Fail
    BY <1>1, <2>1, <2>2, RunFields DEF Early
  <2>3. CASE BeginPlan(PlanTerms) /\ Goto("planning")
    <3>1. run'.phase = "planning" /\ run'.totalAgents = run.totalAgents /\ terms' = PlanTerms
      BY <2>3, RunFields DEF BeginPlan
    <3>2. PlanMatches'
      BY <1>0, <2>1, <3>1 DEF PlanMatches, PlanTerms
    <3> QED
      BY <1>1, <2>1, <3>1, <3>2 DEF Early
  <2> QED
    BY <1>7, <2>2, <2>3 DEF ReadBalances
<1>8. CASE SearchStake
  <2>1. Same /\ run.phase = "planning" /\ run' = run /\ terms' = terms
    BY <1>8, WrappersLeaveCreate DEF SearchStake, At, Narrow
  <2>2. PlanMatches'
    BY <1>0, <2>1 DEF QuorumInv, PlanMatches
  <2> QED
    BY <1>1, <2>1, <2>2 DEF Early
<1>9. CASE RegisterAgents
  <2>1. /\ Same /\ run.phase = "planning" /\ low = high /\ UNCHANGED <<terms, low, high>>
        /\ run'.phase = "registering" /\ run'.totalAgents = run.totalAgents
    BY <1>9, WrappersLeaveCreate, RunFields DEF RegisterAgents, At
  <2>2. PlanMatches'
    BY <1>0, <2>1 DEF QuorumInv, PlanMatches
  <2> QED
    BY <1>1, <2>1, <2>2 DEF Early
<1>10. CASE CreateProposal
  <2>1. /\ run.phase = "registering" /\ UNCHANGED <<terms, low, high>>
        /\ run'.phase \in {"creating", "cleanup"} /\ run'.totalAgents = run.totalAgents
    BY <1>10, RunFields DEF CreateProposal, At
  <2>2. PlanMatches /\ low = high
    BY <2>1 DEF QuorumInv, At
  <2> QED
    BY <1>2, <2>1, <2>2 DEF Early
<1>11. CASE CastVotes
  <2>1. Same /\ run.phase = "creating" /\ UNCHANGED <<terms, low, high>>
    BY <1>11, WrappersLeaveCreate DEF CastVotes, At
  <2>2. run'.phase \in {"voting", "cleanup"} /\ run'.totalAgents = run.totalAgents
    BY <1>11, RunFields DEF CastVotes
  <2> QED
    BY <1>2, <2>1, <2>2 DEF Early
<1>12. CASE ReadProposal
  <2>1. Same /\ run.phase = "voting" /\ UNCHANGED <<terms, low, high>>
    BY <1>12, WrappersLeaveCreate DEF ReadProposal, At
  <2>2. run'.phase \in {"waiting", "cleanup"} /\ run'.totalAgents = run.totalAgents
    BY <1>0, <1>12, RunFields DEF ReadProposal, RunType
  <2> QED
    BY <1>2, <2>1, <2>2 DEF Early
<1>13. CASE ExecuteProposal
  <2>1. Same /\ run.phase = "waiting" /\ UNCHANGED <<terms, low, high>>
    BY <1>13, WrappersLeaveCreate DEF ExecuteProposal, At
  <2>2. run'.phase \in {"executing", "cleanup"} /\ run'.totalAgents = run.totalAgents
    BY <1>13, RunFields DEF ExecuteProposal
  <2> QED
    BY <1>2, <2>1, <2>2 DEF Early
<1>14. CASE CheckFee
  <2>1. Same /\ run.phase = "executing" /\ UNCHANGED <<terms, low, high>>
    BY <1>14, WrappersLeaveCreate DEF CheckFee, At
  <2>2. run'.phase = "cleanup" /\ run'.totalAgents = run.totalAgents
    BY <1>14, RunFields DEF CheckFee
  <2> QED
    BY <1>2, <2>1, <2>2 DEF Early
<1>15. CASE Deregister
  <2>1. Same /\ run.phase = "cleanup" /\ UNCHANGED <<terms, low, high>> /\ run' = run
    BY <1>15, WrappersLeaveCreate DEF Deregister, At
  <2> QED
    BY <1>2, <2>1 DEF Early
<1>16. CASE Deregistered
  <2>1. Same /\ run.phase = "cleanup" /\ UNCHANGED <<terms, low, high>>
    BY <1>16, WrappersLeaveCreate DEF Deregistered, At
  <2>2. run'.phase = "cleanup" /\ run'.totalAgents = run.totalAgents
    BY <1>0, <1>16, <2>1 DEF Deregistered, RunType
  <2> QED
    BY <1>2, <2>1, <2>2 DEF Early
<1>17. CASE Finish
  <2>1. Same /\ run.phase = "cleanup" /\ UNCHANGED <<terms, low, high>>
    BY <1>17, WrappersLeaveCreate DEF Finish, At
  <2>2. run'.phase = "over" /\ run'.totalAgents = run.totalAgents
    BY <1>17, RunFields DEF Finish
  <2> QED
    BY <1>2, <2>1, <2>2 DEF Early
<1> QED
  BY <1>3, <1>4, <1>5, <1>6, <1>7, <1>8, <1>9, <1>10, <1>11, <1>12, <1>13, <1>14, <1>15, <1>16, <1>17
     DEF RunStep

\* Others register only before there is a proposal.
LEMMA QuorumOtherStep ==
  ASSUME TypeInv, QuorumInv,
         ResumeStep \/ OthersRegister \/ OthersChangeFee \/ CancelProposal \/ Tick
         \/ UNCHANGED govVars
  PROVE  QuorumInv'
<1>0. chain \in ChainType /\ chain.proposal \in ProposalType
  BY DEF TypeInv, ChainType
<1>1. UNCHANGED <<run, terms, low, high>>
  BY DEF ResumeStep, ResumeStart, ResumeReads, ResumeReadThrows, ResumeEnds, OthersRegister,
     OthersChangeFee, CancelProposal, Tick, govVars
<1>2. \A p \in Participant : tx'[<<"createProposal", p>>] = tx[<<"createProposal", p>>]
  BY WrappersLeaveCreate DEF ResumeStep, ResumeStart, ResumeReads, ResumeReadThrows, ResumeEnds,
     OthersRegister, OthersChangeFee, CancelProposal, Tick, govVars
<1>3. /\ UNCHANGED <<chain.governance, chain.minArbiterStake, chain.ballots,
                     chain.proposal.quorum, chain.proposal.votes>>
      /\ chain'.proposal.status = "none" <=> chain.proposal.status = "none"
      /\ chain'.others = chain.others \/ chain.proposal.status = "none"
  <2>1. CASE ResumeStep \/ Tick \/ UNCHANGED govVars
    BY <2>1 DEF ResumeStep, ResumeStart, ResumeReads, ResumeReadThrows, ResumeEnds, Tick, govVars
  <2>2. CASE OthersRegister
    BY <1>0, <2>2 DEF OthersRegister, ChainType
  <2>3. CASE OthersChangeFee
    BY <1>0, <2>3 DEF OthersChangeFee, ChainType
  <2>4. CASE CancelProposal
    <3>1. chain' = [chain EXCEPT !.proposal = [chain.proposal EXCEPT !.status = "Cancelled"]]
          /\ chain.proposal.status = "Active"
      BY <2>4 DEF CancelProposal
    <3> QED
      BY <1>0, <3>1 DEF ChainType, ProposalType
  <2> QED
    BY <2>1, <2>2, <2>3, <2>4
<1>4. (Begun' <=> Begun) /\ (PlanMatches' <=> PlanMatches)
  BY <1>1, <1>2, <1>3 DEF Begun, PlanMatches
<1>5. chain.proposal.status # "none" =>
        (QuorumBounded => QuorumBounded') /\ (VotesCounted => VotesCounted')
  BY <1>1, <1>3 DEF QuorumBounded, VotesCounted, VoteWeight, stake
<1> QED
  BY <1>1, <1>3, <1>4, <1>5 DEF QuorumInv, At

\* Every step keeps it.
LEMMA QuorumStep == TypeInv /\ QuorumInv /\ [GovNext]_govVars => QuorumInv'
BY QuorumTxStep, QuorumRunStep, QuorumOtherStep DEF GovNext

-----------------------------------------------------------------------------
(* The theorems.                                                           *)

GovInv == TypeInv /\ LeftInv /\ ReportInv /\ QuorumInv

\* The four invariants together are inductive.
LEMMA GovInductive == GovSpec => []GovInv
<1>1. GovInit => GovInv
  BY TypeInit, LeftInit, ReportInit, QuorumInit DEF GovInv
<1>2. GovInv /\ [GovNext]_govVars => GovInv'
  BY TypeStep, LeftStep, ReportStep, QuorumStep DEF GovInv
<1> QED
  BY <1>1, <1>2, PTL DEF GovSpec

\* Types: every transaction, account and report of a run of
\* scripts/devnet-governance.mjs is what the script and the program make it, and
\* a run that is over has an outcome.
THEOREM GovTypesCorrect == GovSpec => []GovTypeOK
<1>1. GovInv => GovTypeOK
  BY TypeOKDone DEF GovInv
<1> QED
  BY <1>1, GovInductive, PTL

\* The stake found by the binary search of computeStakePlan is enough and the
\* least that is, for every protocol, wallet and number of participants.
THEOREM StakeIsCheapest == GovSpec => []PlanCheapest
<1>1. GovInv => PlanCheapest
  BY PlanDone DEF GovInv, TypeInv
<1> QED
  BY <1>1, GovInductive, PTL

\* The stake planned before the registrations reaches the quorum that
\* createProposal fixes after them, unless others registered in between.
THEOREM QuorumIsReached == GovSpec => []PlanReachesQuorum
<1>1. GovInv => PlanReachesQuorum
  BY QuorumDone DEF GovInv
<1> QED
  BY <1>1, GovInductive, PTL

\* However late a registration that Promise.all did not wait for is executed,
\* the finally block has deregistered its agent or warned about it.
THEOREM NobodyLeftSilently == GovSpec => []LeftBehindWarned
<1>1. GovInv => LeftBehindWarned
  BY LeftDone DEF GovInv
<1> QED
  BY <1>1, GovInductive, PTL

\* A run that reports its end, or a resumed run that reports a result, tells
\* what has happened to the proposal.
THEOREM ReportsHold == GovSpec => []ReportsAreTrue
<1>1. GovInv => ReportsAreTrue
  BY ReportDone DEF GovInv
<1> QED
  BY <1>1, GovInductive, PTL
=============================================================================
