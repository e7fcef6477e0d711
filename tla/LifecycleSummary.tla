--------------------------- MODULE LifecycleSummary ---------------------------
(***************************************************************************)
(* One run of getTaskLifecycleSummary (src/tasks.ts) while the task goes   *)
(* on.  The summary joins five answers of the node and the clock:          *)
(*                                                                         *)
(*   idle -> task -> raw -> claims -> disputes -> dependents -> done       *)
(*                                                                         *)
(* The state of the task comes from the first answer, its times from the   *)
(* second, the events from the third and the fourth.  The events are       *)
(* sorted by the second in which they happened; any number of them may     *)
(* share one, and then they stay in the order in which the code pushed     *)
(* them.  What the summary passes on or compares with the clock (terms,    *)
(* dependents, isExpired) is left out.                                     *)
(*                                                                         *)
(* A time of 0 is one that is not set.  The moves of the chain are those   *)
(* of the on-chain program as the SDK's types and errors describe it: a    *)
(* dispute stops the work on a task until it is settled, and a task that   *)
(* is completed or cancelled stays so.                                     *)
(***************************************************************************)
EXTENDS Naturals

CONSTANTS Worker,     \* the agents that may claim the task
          Dispute,    \* the disputes there may be about it
          Task,       \* the task itself, as the subject of an event
          MaxTime     \* bound of the clock

ASSUME LifecycleAssumption == MaxTime \in Nat

\* PendingValidation is left out: no reader here tells it from InProgress.
State == {"Open", "InProgress", "Disputed", "Completed", "Cancelled"}
Ended == {"Completed", "Cancelled"}
Claim == [claimedAt : Nat, completedAt : Nat]
DisputeAccount == [status : {"none", "Active", "Resolved", "Expired", "Cancelled"},
                   createdAt : Nat, resolvedAt : Nat]

NoClaim == [claimedAt |-> 0, completedAt |-> 0]
NoDispute == [status |-> "none", createdAt |-> 0, resolvedAt |-> 0]

VARIABLES
    state,        \* chain: the state of the task, "missing" before it is created
    created,      \* chain: when it was created
    completed,    \* chain: task.completedAt
    claims,       \* chain: the claim account of each worker
    disputes,     \* chain: the dispute accounts
    now,          \* the time, in seconds
    phase,        \* which answer the summary waits for
    state1,       \* the state in the first answer
    fallback,     \* completedAt in the first answer
    createdAt,    \* from the second answer
    completedAt,  \* from the second answer, else from the first
    claims1,      \* the claims as they were answered
    disputes1     \* the disputes as they were answered

taskVars == <<state, created, completed>>
chainVars == <<taskVars, claims, disputes, now>>
readVars == <<state1, fallback, createdAt, completedAt, claims1, disputes1>>
vars == <<chainVars, phase, readVars>>

Reading == {"task", "raw", "claims", "disputes", "dependents"}

TypeOK == /\ state \in State \cup {"missing"}
          /\ created \in Nat
          /\ completed \in Nat
          /\ claims \in [Worker -> Claim]
          /\ disputes \in [Dispute -> DisputeAccount]
          /\ now \in Nat
          /\ phase \in Reading \cup {"idle", "done", "null", "threw"}
          /\ state1 \in State \cup {"missing"}
          /\ phase \in (Reading \ {"task"}) \cup {"done"} => state1 \in State
          /\ fallback \in Nat
          /\ createdAt \in Nat
          /\ completedAt \in Nat
          /\ claims1 \in [Worker -> Claim]
          /\ disputes1 \in [Dispute -> DisputeAccount]

Init == /\ state = "missing"
        /\ created = 0
        /\ completed = 0
        /\ claims = [w \in Worker |-> NoClaim]
        /\ disputes = [d \in Dispute |-> NoDispute]
        /\ now = 1
        /\ phase = "idle"
        /\ state1 = "missing"
        /\ fallback = 0
        /\ createdAt = 0
        /\ completedAt = 0
        /\ claims1 = [w \in Worker |-> NoClaim]
        /\ disputes1 = [d \in Dispute |-> NoDispute]

-----------------------------------------------------------------------------
(* The summary.                                                            *)

Begin == /\ phase = "idle"
         /\ phase' = "task"
         /\ UNCHANGED <<chainVars, readVars>>

\* Mutant: the early return for a missing task is dropped.
ReadTaskUnchecked ==
    /\ phase = "task"
    /\ phase' = "raw"
    /\ state1' = state
    /\ fallback' = completed
    /\ UNCHANGED <<chainVars, createdAt, completedAt, claims1, disputes1>>

\* getTask: without a task the summary is null.
ReadTask ==
    /\ phase = "task"
    /\ phase' = IF state = "missing" THEN "null" ELSE "raw"
    /\ state1' = state
    /\ fallback' = completed
    /\ UNCHANGED <<chainVars, createdAt, completedAt, claims1, disputes1>>

ReadRawTask ==
    /\ phase = "raw"
    /\ phase' = "claims"
    /\ createdAt' = created
    /\ completedAt' = IF completed > 0 THEN completed ELSE fallback
    /\ UNCHANGED <<chainVars, state1, fallback, claims1, disputes1>>

\* buildClaimTimelineEvents
ReadClaims ==
    /\ phase = "claims"
    /\ phase' = "disputes"
    /\ claims1' = claims
    /\ UNCHANGED <<chainVars, state1, fallback, createdAt, completedAt, disputes1>>

\* buildDisputeTimelineEvents
ReadDisputes ==
    /\ phase = "disputes"
    /\ phase' = "dependents"
    /\ disputes1' = disputes
    /\ UNCHANGED <<chainVars, state1, fallback, createdAt, completedAt, claims1>>

\* getDependentTaskCount, whose answer is passed on.
ReadDependents ==
    /\ phase = "dependents"
    /\ phase' = "done"
    /\ UNCHANGED <<chainVars, readVars>>

\* No answer is caught.
ReadThrows == /\ phase \in Reading
              /\ phase' = "threw"
              /\ UNCHANGED <<chainVars, readVars>>

Read == \/ Begin \/ ReadTask \/ ReadRawTask \/ ReadClaims \/ ReadDisputes
        \/ ReadDependents \/ ReadThrows

-----------------------------------------------------------------------------
(* What the summary says, once all is read.                                *)

Event(name, of, at) == [name |-> name, of |-> of, at |-> at]

ClaimEvents ==
    {Event("taskClaimed", w, claims1[w].claimedAt) :
        w \in {v \in Worker : claims1[v].claimedAt > 0}}
    \cup {Event("taskClaimCompleted", w, claims1[w].completedAt) :
        w \in {v \in Worker : claims1[v].completedAt > 0}}

\* Mutant: the completion must be later than the creation.
EndEventsLater ==
    CASE state1 = "Completed" /\ completedAt > createdAt ->
            {Event("taskCompleted", Task, completedAt)}
      [] state1 = "Cancelled" ->
            {Event("taskCancelled", Task,
                   IF completedAt > 0 THEN completedAt ELSE createdAt)}
      [] OTHER -> {}

EndEvents ==
    CASE state1 = "Completed" /\ completedAt > 0 ->
            {Event("taskCompleted", Task, completedAt)}
      [] state1 = "Cancelled" ->
            {Event("taskCancelled", Task,
                   IF completedAt > 0 THEN completedAt ELSE createdAt)}
      [] OTHER -> {}

\* Mutant: a dispute is shown once it is settled.
DisputeEventsSettled ==
    {Event("disputeInitiated", d, disputes1[d].createdAt) :
        d \in {e \in Dispute : disputes1[e].resolvedAt > 0}}

DisputeEvents ==
    {Event("disputeInitiated", d, disputes1[d].createdAt) :
        d \in {e \in Dispute : disputes1[e].createdAt > 0}}
    \cup {Event("disputeResolved", d, disputes1[d].resolvedAt) :
        d \in {e \in Dispute : disputes1[e].resolvedAt > 0
                               /\ disputes1[e].status = "Resolved"}}

Timeline == {Event("taskCreated", Task, createdAt)}
            \cup ClaimEvents \cup EndEvents \cup DisputeEvents

\* Mutant: the task's own events are pushed first.
PushOrderOwnFirst(name) ==
    CASE name \in {"taskCreated", "taskCompleted", "taskCancelled"} -> 0
      [] name \in {"taskClaimed", "disputeInitiated"}           -> 1
      [] name \in {"taskClaimCompleted", "disputeResolved"}     -> 2

\* Where the code pushes an event, among those that it can be compared with:
\* the accounts of one answer come in no particular order.
PushOrder(name) ==
    CASE name = "taskCreated"                         -> 0
      [] name = "taskClaimed"                         -> 1
      [] name = "taskClaimCompleted"                  -> 2
      [] name \in {"taskCompleted", "taskCancelled"}  -> 3
      [] name = "disputeInitiated"                    -> 4
      [] name = "disputeResolved"                     -> 5

\* timeline.sort((a, b) => a.timestamp - b.timestamp), which is stable
Precedes(e, f) ==
    \/ e.at < f.at
    \/ e.at = f.at /\ PushOrder(e.name) < PushOrder(f.name)

\* Mutant: a status the map does not have counts as active.
HasActiveDisputeUnmapped ==
    \E d \in Dispute : disputes1[d].status \in {"Active", "Expired"}

HasActiveDispute == \E d \in Dispute : disputes1[d].status = "Active"

-----------------------------------------------------------------------------
(* The chain.                                                              *)

CreateTask ==
    /\ state = "missing"
    /\ state' = "Open"
    /\ created' = now
    /\ UNCHANGED <<completed, claims, disputes, now, phase, readVars>>

ClaimTask(w) ==
    /\ state \in {"Open", "InProgress"}
    /\ claims[w] = NoClaim
    /\ claims' = [claims EXCEPT ![w] = [claimedAt |-> now, completedAt |-> 0]]
    /\ state' = "InProgress"
    /\ UNCHANGED <<created, completed, disputes, now, phase, readVars>>

\* A cancellation need not be given a time.
End(ended) ==
    /\ state' = ended
    /\ completed' \in IF ended = "Completed" THEN {now} ELSE {0, now}
    /\ UNCHANGED created

\* The last of the completions a task asks for ends it.
CompleteClaim(w) ==
    /\ state = "InProgress"
    /\ claims[w].claimedAt > 0
    /\ claims[w].completedAt = 0
    /\ claims' = [claims EXCEPT ![w] = [claimedAt   |-> claims[w].claimedAt,
                                        completedAt |-> now]]
    /\ End("Completed") \/ UNCHANGED taskVars
    /\ UNCHANGED <<disputes, now, phase, readVars>>

\* It expires, or it is closed with the task.
CloseClaim(w) ==
    /\ claims[w] # NoClaim
    /\ claims' = [claims EXCEPT ![w] = NoClaim]
    /\ UNCHANGED <<taskVars, disputes, now, phase, readVars>>

CancelTask ==
    /\ state \in {"Open", "InProgress"}
    /\ End("Cancelled")
    /\ UNCHANGED <<claims, disputes, now, phase, readVars>>

InitiateDispute(d) ==
    /\ state = "InProgress"
    /\ disputes[d] = NoDispute
    /\ disputes' = [disputes EXCEPT
          ![d] = [status |-> "Active", createdAt |-> now, resolvedAt |-> 0]]
    /\ state' = "Disputed"
    /\ UNCHANGED <<created, completed, claims, now, phase, readVars>>

Settle(d, status, at) ==
    /\ disputes[d].status = "Active"
    /\ disputes' = [disputes EXCEPT
          ![d] = [status |-> status, createdAt |-> disputes[d].createdAt, resolvedAt |-> at]]
    /\ UNCHANGED <<claims, now, phase, readVars>>

ResolveDispute(d) ==
    /\ Settle(d, "Resolved", now)
    /\ \E ended \in Ended : End(ended)

ExpireDispute(d) ==
    /\ \E at \in {0, now} : Settle(d, "Expired", at)
    /\ \E ended \in Ended : End(ended)

CancelDispute(d) ==
    /\ \E at \in {0, now} : Settle(d, "Cancelled", at)
    /\ state' = "InProgress"
    /\ UNCHANGED <<created, completed>>

Tick == /\ now < MaxTime
        /\ now' = now + 1
        /\ UNCHANGED <<taskVars, claims, disputes, phase, readVars>>

ChainStep ==
    \/ CreateTask \/ CancelTask
    \/ \E w \in Worker : ClaimTask(w) \/ CompleteClaim(w) \/ CloseClaim(w)
    \/ \E d \in Dispute : \/ InitiateDispute(d)
                          \/ ResolveDispute(d) \/ ExpireDispute(d) \/ CancelDispute(d)

\* Once the summary is made nothing can change it.
Next == Read \/ (phase \in Reading \cup {"idle"} /\ (ChainStep \/ Tick))

Spec == Init /\ [][Next]_vars

-----------------------------------------------------------------------------
Done == phase = "done"

(***************************************************************************)
(* A summary never shows a task that is over and a dispute that is not.    *)
(* State and disputes are read at different moments, three answers apart.  *)
(***************************************************************************)
EndedHasNoActiveDispute == Done /\ state1 \in Ended => ~HasActiveDispute

(***************************************************************************)
(* A task shown as disputed has its dispute in the timeline, although the  *)
(* dispute may be settled by the time it is read.                          *)
(***************************************************************************)
DisputedShowsDispute ==
    Done /\ state1 = "Disputed" =>
        \E e \in Timeline : e.name = "disputeInitiated"

(***************************************************************************)
(* "if (summary?.currentState === TaskState.Completed) { `Task completed   *)
(* in ${summary.durationSeconds}s` }" always has a duration to print, and  *)
(* the timeline the event.                                                 *)
(***************************************************************************)
CompletedIsTimed ==
    Done /\ state1 = "Completed" =>
        /\ createdAt > 0
        /\ completedAt >= createdAt
        /\ Event("taskCompleted", Task, completedAt) \in Timeline

\* What can only have happened after what.  A cancellation without a time is
\* shown at the time of the creation, and a dispute in the second in which the
\* task ended is shown after the end: neither is covered.
Causes(e, f) ==
    \/ e.name = "taskCreated" /\ f.name # "taskCreated"
    \/ e.of = f.of /\ e.name = "taskClaimed" /\ f.name = "taskClaimCompleted"
    \/ e.of = f.of /\ e.name = "disputeInitiated" /\ f.name = "disputeResolved"
    \/ /\ e.name \in {"taskClaimed", "taskClaimCompleted"}
       /\ f.name \in {"taskCompleted", "taskCancelled"}
       /\ completedAt > 0

(***************************************************************************)
(* The timeline tells the story in an order in which it can have happened, *)
(* although its parts were read at different moments and events that share *)
(* a second are told apart only by the order in which they were pushed.    *)
(***************************************************************************)
TimelineIsCausal ==
    Done => \A e, f \in Timeline : Causes(e, f) => Precedes(e, f)
=============================================================================
