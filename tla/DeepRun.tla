-------------------------------- MODULE DeepRun --------------------------------
(***************************************************************************)
(* scripts/devnet-integration-deep.mjs: probes the deployed program with   *)
(* calls it has to refuse, takes one task through its life, and clears     *)
(* away in a finally block what it made: it cancels every task in          *)
(* createdTasks and deregisters its two agents, swallowing every error.    *)
(*                                                                         *)
(* run.todo holds the steps that are left.  One transaction is under way   *)
(* at a time; those the run gave up on are adrift and may land any time.   *)
(***************************************************************************)
EXTENDS Sequences, SequencesExt

CONSTANTS DriftMode,   \* values of AGENC_DEVNET_DRIFT_MODE
          MaxAdrift    \* bound: transactions adrift at a time

VARIABLES chain,   \* agents, tasks and claims on the chain
          run,
          adrift

deepVars == <<chain, run, adrift>>

Agent == {"poor", "creator", "worker"}
Task == {"late", "capability", "unclaimed", "happy"}

Call(op, agent, task) == [op |-> op, agent |-> agent, task |-> task]

Must(call) == [kind |-> "must", call |-> call]
Maybe(call) == [kind |-> "maybe", call |-> call]

\* expectFailure with the names it allows, and the ones that are no mismatch.
Expect(call, allowed, wanted) ==
    [kind |-> "expect", call |-> call, allowed |-> allowed, wanted |-> wanted]

Ending == {"InvalidStatusTransition", "TaskCannotBeCancelled", "InvalidAccountOwner"}

Registrations ==
    << Expect(Call("registerAgent", "poor", "none"), {"InsufficientStake", "InsufficientFunds"},
              {"InsufficientStake"}),
       Must(Call("registerAgent", "creator", "none")),
       Must(Call("registerAgent", "worker", "none")) >>

PastDeadline ==
    << Expect(Call("createTask", "creator", "late"),
              {"InvalidInput", "InvalidDeadline", "CooldownNotElapsed", "UpdateTooFrequent"},
              {"InvalidInput"}) >>

CapabilityTask ==
    << Must(Call("createTask", "creator", "capability")),
       Expect(Call("claimTask", "worker", "capability"), {"InsufficientCapabilities"},
              {"InsufficientCapabilities"}),
       Expect(Call("claimTask", "creator", "capability"),
              {"SelfTaskNotAllowed", "ProposalUnauthorizedCancel"}, {"SelfTaskNotAllowed"}),
       Maybe(Call("cancelTask", "creator", "capability")) >>

UnclaimedTask ==
    << Must(Call("createTask", "creator", "unclaimed")),
       Expect(Call("completeTask", "worker", "unclaimed"), {"NotClaimed", "AccountNotInitialized"},
              {"NotClaimed"}),
       Maybe(Call("cancelTask", "creator", "unclaimed")) >>

HappyTask ==
    << Must(Call("createTask", "creator", "happy")),
       Must(Call("claimTask", "worker", "happy")),
       Expect(Call("deregisterAgent", "worker", "none"), {"AgentHasActiveTasks"},
              {"AgentHasActiveTasks"}),
       Must(Call("completeTask", "worker", "happy")),
       Expect(Call("cancelTask", "creator", "happy"), Ending \cup {"AccountNotInitialized"}, Ending) >>

Script == Registrations \o PastDeadline \o CapabilityTask \o UnclaimedTask \o HappyTask

\* Mutant: the task that was made last is left to finish.
CleanUpAllButLast(created) ==
    [i \in 1..(Len(created) - 1) |-> Maybe(Call("cancelTask", "creator", created[i]))]
    \o << Maybe(Call("deregisterAgent", "creator", "none")),
          Maybe(Call("deregisterAgent", "worker", "none")) >>

\* The finally block.
CleanUp(created) ==
    [i \in 1..Len(created) |-> Maybe(Call("cancelTask", "creator", created[i]))]
    \o << Maybe(Call("deregisterAgent", "creator", "none")),
          Maybe(Call("deregisterAgent", "worker", "none")) >>

\* The drift that is tolerated in "compat" mode: none at present.
KNOWN_DEVNET_DRIFT == {}

-----------------------------------------------------------------------------
(* The program.                                                            *)

Busy(c, agent) == \E t \in Task : agent \in c.claims[t]

\* What the sources refuse a call with.
Errors(c, k) ==
    CASE k.op = "registerAgent" -> IF k.agent = "poor" THEN {"InsufficientStake"} ELSE {}
      [] k.op = "createTask" -> IF k.agent \notin c.agents THEN {"AccountNotInitialized"}
                                ELSE IF k.task = "late" THEN {"InvalidInput"} ELSE {}
      [] k.op = "claimTask" -> IF c.tasks[k.task] # "Open" THEN {"TaskNotOpen"}
                               ELSE IF k.agent = "creator" THEN {"SelfTaskNotAllowed"}
                               ELSE IF k.task = "capability" THEN {"InsufficientCapabilities"} ELSE {}
      [] k.op = "completeTask" -> IF k.agent \notin c.claims[k.task] THEN {"NotClaimed"} ELSE {}
      [] k.op = "cancelTask" -> IF c.tasks[k.task] \notin {"Open", "InProgress"} THEN {"TaskCannotBeCancelled"}
                                ELSE IF c.claims[k.task] # {} THEN {"WorkerAccountsRequired"} ELSE {}
      [] OTHER -> IF k.agent \notin c.agents THEN {"AccountNotInitialized"}
                  ELSE IF Busy(c, k.agent) THEN {"AgentHasActiveTasks"} ELSE {}

After(c, k) ==
    CASE k.op = "registerAgent" -> [c EXCEPT !.agents = @ \cup {k.agent}]
      [] k.op = "createTask" -> [c EXCEPT !.tasks[k.task] = "Open"]
      [] k.op = "claimTask" -> [c EXCEPT !.tasks[k.task] = "InProgress", !.claims[k.task] = @ \cup {k.agent}]
      [] k.op = "completeTask" -> [c EXCEPT !.tasks[k.task] = "Completed", !.claims[k.task] = {}]
      [] k.op = "cancelTask" -> [c EXCEPT !.tasks[k.task] = "Cancelled", !.claims[k.task] = {}]
      [] OTHER -> [c EXCEPT !.agents = @ \ {k.agent}]

-----------------------------------------------------------------------------
Step == Head(run.todo)
Target(k) == IF k.task = "none" THEN k.agent ELSE k.task

\* What a call would leave on the chain if it were executed after all.
Making(k) == IF k.op \in {"registerAgent", "createTask"} THEN {Target(k)} ELSE {}

Advance(r) == [r EXCEPT !.todo = Tail(@), !.tx = "none"]

Throw(r) == [r EXCEPT !.todo = CleanUp(r.created), !.stage = "finally", !.outcome = "threw",
                      !.making = Making(Step.call), !.tx = "none"]

Succeeds ==
    run' = CASE Step.kind = "expect" -> Throw(run)
             [] Step.kind = "must" /\ Step.call.op = "createTask" ->
                    [Advance(run) EXCEPT !.created = Append(@, Step.call.task)]
             [] OTHER -> Advance(run)

\* Mutant: a drift that is allowed is not noted.
expectFailureNotNoted(name) == IF name \in Step.allowed THEN Advance(run) ELSE Throw(run)

expectFailure(name) ==
    CASE name \in Step.wanted -> Advance(run)
      [] name \in Step.allowed \ Step.wanted ->
            [Advance(run) EXCEPT !.mismatches = @ \cup {name}]
      [] OTHER -> Throw(run)

\* An error without a name comes from the network.
Fails(name, deviating) ==
    LET r == CASE Step.kind = "maybe" -> [Advance(run) EXCEPT
                      !.warned = IF run.stage = "finally" THEN @ \cup {<<Target(Step.call), name>>} ELSE @]
               [] Step.kind = "must" -> Throw(run)
               [] OTHER -> expectFailure(name)
    IN run' = [r EXCEPT !.trouble = @ \/ name = "network", !.deviated = @ \/ deviating]

Waiting == run.todo # <<>>

\* A probe is where the deployed program may differ from the sources, once.
Probing == ~run.deviated /\ Step.kind = "expect" /\ Errors(chain, Step.call) # {}

SendStep == /\ Waiting /\ run.tx = "none"
            /\ run' = [run EXCEPT !.tx = "sent"]
            /\ UNCHANGED <<chain, adrift>>

LandStep == /\ Waiting /\ run.tx = "sent"
            /\ Errors(chain, Step.call) = {} \/ Probing
            /\ chain' = After(chain, Step.call)
            /\ run' = [run EXCEPT !.tx = "landed", !.deviated = @ \/ Probing]
            /\ UNCHANGED adrift

RefuseStep == /\ Waiting /\ run.tx = "sent"
              /\ \/ \E name \in Errors(chain, Step.call) : Fails(name, FALSE)
                 \/ /\ Probing
                    /\ \E name \in (Step.allowed \ Step.wanted) \cup {"other"} : Fails(name, TRUE)
              /\ UNCHANGED <<chain, adrift>>

RpcThrows == /\ Waiting /\ run.tx = "sent"
             /\ Fails("network", FALSE)
             /\ \/ UNCHANGED adrift
                \/ Cardinality(adrift) < MaxAdrift /\ adrift' = adrift \cup {Step.call}
             /\ UNCHANGED chain

ConfirmStep == /\ Waiting /\ run.tx = "landed"
               /\ Succeeds
               /\ UNCHANGED <<chain, adrift>>

ConfirmThrows == /\ Waiting /\ run.tx = "landed"
                 /\ Fails("network", FALSE)
                 /\ UNCHANGED <<chain, adrift>>

DriftAshore == \E k \in adrift :
    /\ Errors(chain, k) = {}
    /\ chain' = After(chain, k)
    /\ adrift' = adrift \ {k}
    /\ UNCHANGED run

\* getTask, the summary and the verdict on the mismatches.
Verdict ==
    /\ run.stage = "try" /\ run.todo = <<>>
    /\ \E read \in BOOLEAN :
          run' = [run EXCEPT
             !.todo = CleanUp(run.created), !.stage = "finally", !.trouble = @ \/ ~read,
             !.outcome = IF /\ read /\ chain.tasks["happy"] = "Completed"
                            /\ IF run.driftMode = "strict" THEN run.mismatches = {}
                               ELSE run.mismatches \subseteq KNOWN_DEVNET_DRIFT
                         THEN "passed" ELSE "threw"]
    /\ UNCHANGED <<chain, adrift>>

Over == run.stage = "finally" /\ run.todo = <<>>

DeepInit ==
    /\ chain = [agents |-> {}, tasks |-> [t \in Task |-> "none"], claims |-> [t \in Task |-> {}]]
    /\ \E driftMode \in DriftMode :
          run = [todo |-> Script, stage |-> "try", tx |-> "none", created |-> <<>>,
                 mismatches |-> {}, outcome |-> "pending", making |-> {}, warned |-> {},
                 trouble |-> FALSE, deviated |-> FALSE, driftMode |-> driftMode]
    /\ adrift = {}

DeepNext == \/ SendStep \/ LandStep \/ RefuseStep \/ RpcThrows \/ ConfirmStep \/ ConfirmThrows
            \/ DriftAshore \/ Verdict

DeepSpec == DeepInit /\ [][DeepNext]_deepVars

-----------------------------------------------------------------------------
DeepTypeOK == /\ chain.agents \subseteq Agent
              /\ chain.tasks \in [Task -> {"none", "Open", "InProgress", "Completed", "Cancelled"}]
              /\ run.tx \in {"none", "sent", "landed"}
              /\ run.outcome \in {"pending", "passed", "threw"}
              /\ Len(run.todo) <= Len(Script)

Left == chain.agents \cup {t \in Task : chain.tasks[t] \in {"Open", "InProgress"}}

(***************************************************************************)
(* What the run leaves behind, now or when a late transaction arrives, it  *)
(* has warned about, but for one thing at most: the one that the step it   *)
(* stopped at was making.  And it has warned for a reason out of its       *)
(* reach, the network or a live claim: never because something was not     *)
(* there yet, or was cleared away in the wrong order.                      *)
(***************************************************************************)
LeftBehindExplained ==
    Over => \A x \in Left \ run.making :
               \E name \in {"network", "WorkerAccountsRequired", "AgentHasActiveTasks"} :
                  <<x, name>> \in run.warned

(***************************************************************************)
(* The verdict is right: the run passes only when the deployed program     *)
(* refused every probe as the sources do, and fails only when it did not   *)
(* or when the network failed.                                             *)
(***************************************************************************)
VerdictIsRight ==
    /\ run.outcome = "passed" => ~run.deviated
    /\ run.outcome = "threw" => run.deviated \/ run.trouble
=============================================================================
