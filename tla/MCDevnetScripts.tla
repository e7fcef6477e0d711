--------------------------- MODULE MCDevnetScripts ---------------------------
(***************************************************************************)
(* The reputation run and the deep run side by side.  They share nothing,  *)
(* so in every behaviour one of them is started and the other is not.      *)
(***************************************************************************)
EXTENDS Naturals

CONSTANTS Process, Operator, StakeCooldown, MinDelegationDuration, MaxWait, MaxClock,
          DriftMode, MaxAdrift

VARIABLES repChain, clock, repRun, resume, late, deepChain, deepRun, adrift

Rep == INSTANCE ReputationRun WITH chain <- repChain, run <- repRun
Deep == INSTANCE DeepRun WITH chain <- deepChain, run <- deepRun

RepOff == /\ repChain = [stake |-> 0, lockedUntil |-> 0, delegated |-> FALSE, createdAt |-> 0]
          /\ repRun = [phase |-> "off", maxWait |-> 0, readyAt |-> 0]
          /\ clock = MaxClock
          /\ resume = [p \in Process |-> Rep!Fresh]
          /\ late = {}

DeepOff == /\ deepChain = [agents |-> {}, tasks |-> [t \in Deep!Task |-> "none"],
                           claims |-> [t \in Deep!Task |-> {}]]
           /\ deepRun = [todo |-> <<>>, stage |-> "off", tx |-> "none", outcome |-> "pending"]
           /\ adrift = {}

ScriptsInit == \/ Rep!RepInit /\ DeepOff
               \/ RepOff /\ Deep!DeepInit

scriptsVars == <<repChain, clock, repRun, resume, late, deepChain, deepRun, adrift>>

ScriptsNext == \/ UNCHANGED <<deepChain, deepRun, adrift>> /\ Rep!RepNext
               \/ UNCHANGED <<repChain, clock, repRun, resume, late>> /\ Deep!DeepNext

ScriptsSpec == ScriptsInit /\ [][ScriptsNext]_scriptsVars /\ Rep!RepFairness

-----------------------------------------------------------------------------
(* The properties are those of the two modules, which state them.          *)

ScriptsTypeOK == /\ repRun.phase # "off" => Rep!RepTypeOK
                 /\ deepRun.stage # "off" => Deep!DeepTypeOK

\* A run that reports the delegation revoked misread it twice or is right.
ReportHonest == Rep!ReportHonest

\* What an artifact stands for is released in the end.
DeferredReleases == Rep!DeferredReleases

\* The deep run leaves nothing behind without a warning and a good reason.
LeftBehindExplained == Deep!LeftBehindExplained

\* The deep run's verdict is the deployed program's.
VerdictIsRight == Deep!VerdictIsRight
==============================================================================
