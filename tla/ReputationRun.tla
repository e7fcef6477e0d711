----------------------------- MODULE ReputationRun -----------------------------
(***************************************************************************)
(* scripts/devnet-reputation.mjs: an initial run stakes and delegates      *)
(* reputation and writes an artifact, and later runs with --resume revoke  *)
(* the delegation and withdraw the stake once both locks have elapsed.     *)
(*                                                                         *)
(* The getters of src/reputation.ts turn every error into null, so a run   *)
(* cannot tell an account that is gone from one it failed to read.         *)
(***************************************************************************)
EXTENDS Naturals

CONSTANTS Process,      \* processes started with --resume, one run at a time each
          Operator,     \* one of them, started again and again
          StakeCooldown, MinDelegationDuration,
          MaxWait,      \* values of AGENC_MAX_WAIT_SECONDS
          MaxClock      \* bound: the time

VARIABLES chain, clock,
          run,      \* the initial run
          resume,   \* the resumed run of each process
          late      \* what runs gave up on and may still be executed

repVars == <<chain, clock, run, resume, late>>

Fresh == [phase |-> "idle", tx |-> "none", misread |-> {},
          reported |-> FALSE]

Greater(m, n) == IF m > n THEN m ELSE n

-----------------------------------------------------------------------------
(* The initial run.                                                        *)

Fail == run' = [run EXCEPT !.phase = "threw"]

\* Protocol, balances and the two registrations: nothing of theirs is kept.
Prepare == /\ run.phase = "start"
           /\ run' = [run EXCEPT !.phase = "staking"] \/ Fail
           /\ UNCHANGED <<chain, clock, resume, late>>

StakeReputation ==
    /\ run.phase = "staking"
    /\ \/ /\ chain' = [chain EXCEPT !.stake = 1, !.lockedUntil = clock + StakeCooldown]
          /\ run' = [run EXCEPT !.phase = "delegating"] \/ Fail
       \/ Fail /\ UNCHANGED chain
    /\ UNCHANGED <<clock, resume, late>>

DelegateReputation ==
    /\ run.phase = "delegating"
    /\ \/ /\ chain' = [chain EXCEPT !.delegated = TRUE, !.createdAt = clock]
          /\ run' = [run EXCEPT !.phase = "reviewing"] \/ Fail
       \/ Fail /\ UNCHANGED chain
    /\ UNCHANGED <<clock, resume, late>>

ReadyAt == Greater(chain.lockedUntil, chain.createdAt + MinDelegationDuration)

\* waitUntilUnix; a lock that elapses within the wait leaves nothing to do.
Review ==
    /\ run.phase = "reviewing"
    /\ \/ /\ ReadyAt > clock + run.maxWait
          /\ run' = [run EXCEPT !.phase = "deferred", !.readyAt = ReadyAt]
       \/ /\ ReadyAt <= clock + run.maxWait
          /\ run' = [run EXCEPT !.phase = "done"]
       \/ Fail
    /\ UNCHANGED <<chain, clock, resume, late>>

-----------------------------------------------------------------------------
(* The resumed runs.                                                       *)

Set(p, r) == resume' = [resume EXCEPT ![p] = r]

At(p, phase) == resume[p].phase = phase

\* Mutant: the next run of the process takes the transaction for its own.
StopKeepsTx(p) == Set(p, [resume[p] EXCEPT !.phase = "idle"])

\* The process is over, by an error or by an early return.
Stop(p) == Set(p, [resume[p] EXCEPT !.phase = "idle", !.tx = "none"])

Start(p) == /\ run.phase = "deferred"
            /\ At(p, "idle")
            /\ Set(p, [Fresh EXCEPT !.phase = "reading"])
            /\ UNCHANGED <<chain, clock, run, late>>

\* A read gives what is there, or null when it fails.
Misread(name, failed) == IF failed THEN {name} ELSE {}

\* Mutant: without a delegation the run takes its work for done.
ReadBeforeDone(p, failed) ==
    /\ At(p, "reading")
    /\ LET revoke == chain.delegated /\ ~failed IN
       IF clock < run.readyAt \/ ~revoke THEN Stop(p)
       ELSE Set(p, [resume[p] EXCEPT !.phase = "revoking", !.tx = "sent"])
    /\ UNCHANGED <<chain, clock, run, late>>

ReadBefore(p, failed) ==
    /\ At(p, "reading")
    /\ LET revoke == chain.delegated /\ ~failed IN
       IF clock < run.readyAt THEN Stop(p)
       ELSE Set(p, [resume[p] EXCEPT !.phase = IF revoke THEN "revoking" ELSE "reviewing",
                                     !.tx = IF revoke THEN "sent" ELSE "none",
                                     !.misread = Misread("delegationBefore", failed)])
    /\ UNCHANGED <<chain, clock, run, late>>

ReadStake(p, failed) ==
    /\ At(p, "reviewing")
    /\ LET withdraw == chain.stake > 0 /\ ~failed IN
       Set(p, [resume[p] EXCEPT !.phase = IF withdraw THEN "withdrawing" ELSE "closing",
                                !.tx = IF withdraw THEN "sent" ELSE "none",
                                !.misread = @ \cup Misread("stakeAfterRevoke", failed)])
    /\ UNCHANGED <<chain, clock, run, late>>

\* Mutant: what the last read shows is not looked at.
ReadAfterUnseen(p, failed) ==
    /\ At(p, "closing")
    /\ Set(p, [resume[p] EXCEPT !.phase = "idle", !.reported = TRUE,
                                !.misread = @ \cup Misread("finalDelegation", failed)])
    /\ UNCHANGED <<chain, clock, run, late>>

ReadAfter(p, failed) ==
    /\ At(p, "closing")
    /\ IF chain.delegated /\ ~failed THEN Stop(p)
       ELSE Set(p, [resume[p] EXCEPT !.phase = "idle", !.reported = TRUE,
                                     !.misread = @ \cup Misread("finalDelegation", failed)])
    /\ UNCHANGED <<chain, clock, run, late>>

revokeDelegation ==
    /\ chain.delegated /\ clock >= chain.createdAt + MinDelegationDuration
    /\ chain' = [chain EXCEPT !.delegated = FALSE]

withdrawReputationStake ==
    /\ chain.stake > 0 /\ clock >= chain.lockedUntil
    /\ chain' = [chain EXCEPT !.stake = 0]

Execute(op) == \/ op = "revoking" /\ revokeDelegation
               \/ op = "withdrawing" /\ withdrawReputationStake

Land(p) == /\ resume[p].tx = "sent"
           /\ Execute(resume[p].phase)
           /\ Set(p, [resume[p] EXCEPT !.tx = "landed"])
           /\ UNCHANGED <<clock, run, late>>

Confirm(p) == /\ resume[p].tx = "landed"
              /\ Set(p, [resume[p] EXCEPT !.tx = "none",
                                          !.phase = IF @ = "revoking" THEN "reviewing" ELSE "closing"])
              /\ UNCHANGED <<chain, clock, run, late>>

\* The program refuses it, or it was executed and the run does not know.
TxThrows(p) == /\ resume[p].tx \in {"sent", "landed"}
               /\ Stop(p)
               /\ UNCHANGED <<chain, clock, run, late>>

RpcLosesTx(p) == /\ resume[p].tx = "sent"
                 /\ late' = late \cup {resume[p].phase}
                 /\ Stop(p)
                 /\ UNCHANGED <<chain, clock, run>>

LandLate == \E op \in late : /\ Execute(op)
                              /\ late' = late \ {op}
                              /\ UNCHANGED <<clock, run, resume>>

Killed(p) == /\ resume[p].phase # "idle"
             /\ Stop(p)
             /\ UNCHANGED <<chain, clock, run, late>>

Tick == /\ clock < IF run.phase = "deferred" THEN MaxClock ELSE 1 \* bound: the initial run is short
        /\ clock' = clock + 1
        /\ UNCHANGED <<chain, run, resume, late>>

-----------------------------------------------------------------------------
RepInit ==
    /\ chain = [stake |-> 0, lockedUntil |-> 0, delegated |-> FALSE, createdAt |-> 0]
    /\ clock = 0
    /\ \E maxWait \in MaxWait : run = [phase |-> "start", maxWait |-> maxWait, readyAt |-> 0]
    /\ resume = [p \in Process |-> Fresh]
    /\ late = {}

ResumeStep(p) ==
    \/ Start(p)
    \/ \E failed \in BOOLEAN : ReadBefore(p, failed) \/ ReadStake(p, failed) \/ ReadAfter(p, failed)
    \/ Land(p) \/ Confirm(p) \/ TxThrows(p) \/ RpcLosesTx(p) \/ Killed(p)

RepNext == \/ Prepare \/ StakeReputation \/ DelegateReputation \/ Review
           \/ Tick \/ LandLate
           \/ \E p \in Process : ResumeStep(p)

\* Of the reads and transactions the operator tries again and again, one goes
\* through.  Nothing is asked of the other processes.
RepFairness ==
    /\ WF_repVars(Tick)
    /\ WF_repVars(ResumeStep(Operator))
    /\ SF_repVars(ReadBefore(Operator, FALSE)) /\ SF_repVars(ReadStake(Operator, FALSE))
    /\ SF_repVars(Land(Operator))

RepSpec == RepInit /\ [][RepNext]_repVars /\ RepFairness

-----------------------------------------------------------------------------
RepTypeOK ==
    /\ chain.stake \in 0..1 /\ chain.delegated \in BOOLEAN
    /\ run.phase \in {"start", "staking", "delegating", "reviewing", "deferred", "done", "threw"}
    /\ \A p \in Process :
          /\ resume[p].phase \in {"idle", "reading", "revoking", "reviewing", "withdrawing", "closing"}
          /\ resume[p].tx \in {"none", "sent", "landed"}
          /\ resume[p].tx # "none" => resume[p].phase \in {"revoking", "withdrawing"}
    /\ late \subseteq {"revoking", "withdrawing"}

(***************************************************************************)
(* A run that logs "delegation revoked=true" is wrong only when it could   *)
(* not read the delegation both times it looked, and leaves a stake behind *)
(* only when it could not read the stake, whatever other runs, processes   *)
(* killed half-way and late transactions do.                               *)
(***************************************************************************)
ReportHonest ==
    \A p \in Process : resume[p].reported =>
        /\ chain.delegated => {"delegationBefore", "finalDelegation"} \subseteq resume[p].misread
        /\ chain.stake > 0 => "stakeAfterRevoke" \in resume[p].misread

(***************************************************************************)
(* Resuming again finishes what an earlier run left half-done: everything  *)
(* an artifact stands for is released in the end.                          *)
(***************************************************************************)
DeferredReleases == run.phase = "deferred" ~> ~chain.delegated /\ chain.stake = 0
=============================================================================
