--------------------------- MODULE MCGovernanceRun ---------------------------
EXTENDS GovernanceRun, TLC

\* A protocol whose governance exists, and one where the run initializes it
\* and where the fee is at its limit.  With 17 agents of other people the quorum
\* stays the same when the participants register, with 18 it goes up.
MCWorld == {[fee |-> 3, governance |-> [exists |-> TRUE, minProposalStake |-> 3, quorumBps |-> 2000],
             minAgentStake |-> 2, minArbiterStake |-> 2, others |-> 17],
            [fee |-> 999, governance |-> [exists |-> FALSE, minProposalStake |-> 0, quorumBps |-> 0],
             minAgentStake |-> 2, minArbiterStake |-> 2, others |-> 18]}

\* Enough for a run that defers, enough for one that waits for the execution,
\* and less than the governance asks for.
MCWallets == {[authority |-> "none", balance |-> <<13, 21>>, maxWait |-> 1],
              [authority |-> "protocol", balance |-> <<20, 21>>, maxWait |-> 2],
              [authority |-> "other", balance |-> <<3, 21>>, maxWait |-> 2]}
==============================================================================
