------------------------ MODULE LifecycleSummaryProofs ------------------------
(* Theorems about the summary, for any workers, disputes and times.          *)
EXTENDS LifecycleSummary, TLAPS

LEMMA NoAccounts == NoClaim \in Claim /\ NoDispute \in DisputeAccount
BY DEF NoClaim, Claim, NoDispute, DisputeAccount

(* Replacing one account by another keeps a table of accounts well typed.    *)
LEMMA TablesStayTyped ==
    /\ \A w \in Worker, c \in Claim :
          claims \in [Worker -> Claim] => [claims EXCEPT ![w] = c] \in [Worker -> Claim]
    /\ \A d \in Dispute, x \in DisputeAccount :
          disputes \in [Dispute -> DisputeAccount] =>
              [disputes EXCEPT ![d] = x] \in [Dispute -> DisputeAccount]
OBVIOUS

(* What every step of the chain puts into the accounts is well typed.        *)
LEMMA AccountsAreTyped ==
    ASSUME TypeOK, ChainStep
    PROVE  claims' \in [Worker -> Claim] /\ disputes' \in [Dispute -> DisputeAccount]
<1> USE DEF TypeOK
<1>1. CASE CreateTask
  BY <1>1 DEF CreateTask
<1>2. CASE CancelTask
  BY <1>2 DEF CancelTask
<1>3. ASSUME NEW w \in Worker, ClaimTask(w)
      PROVE  claims' \in [Worker -> Claim] /\ disputes' = disputes
  <2>1. [claimedAt |-> now, completedAt |-> 0] \in Claim
    BY DEF Claim
  <2> QED
    BY <1>3, <2>1, TablesStayTyped DEF ClaimTask
<1>4. ASSUME NEW w \in Worker, CompleteClaim(w)
      PROVE  claims' \in [Worker -> Claim] /\ disputes' = disputes
  <2>1. [claimedAt |-> claims[w].claimedAt, completedAt |-> now] \in Claim
    BY DEF Claim
  <2> QED
    BY <1>4, <2>1, TablesStayTyped DEF CompleteClaim
<1>5. ASSUME NEW w \in Worker, CloseClaim(w)
      PROVE  claims' \in [Worker -> Claim] /\ disputes' = disputes
  BY <1>5, NoAccounts, TablesStayTyped DEF CloseClaim
<1>6. ASSUME NEW d \in Dispute, InitiateDispute(d)
      PROVE  claims' = claims /\ disputes' \in [Dispute -> DisputeAccount]
  <2>1. [status |-> "Active", createdAt |-> now, resolvedAt |-> 0] \in DisputeAccount
    BY DEF DisputeAccount
  <2> QED
    BY <1>6, <2>1, TablesStayTyped DEF InitiateDispute
<1>7. ASSUME NEW d \in Dispute, NEW s \in {"Resolved", "Expired", "Cancelled"},
             NEW at \in Nat, Settle(d, s, at)
      PROVE  claims' = claims /\ disputes' \in [Dispute -> DisputeAccount]
  <2>1. [status |-> s, createdAt |-> disputes[d].createdAt, resolvedAt |-> at]
            \in DisputeAccount
    BY DEF DisputeAccount
  <2> QED
    BY <1>7, <2>1, TablesStayTyped DEF Settle
<1>8. ASSUME NEW d \in Dispute, ResolveDispute(d) \/ ExpireDispute(d) \/ CancelDispute(d)
      PROVE  claims' = claims /\ disputes' \in [Dispute -> DisputeAccount]
  BY <1>7, <1>8 DEF ResolveDispute, ExpireDispute, CancelDispute
<1> QED
  BY <1>1, <1>2, <1>3, <1>4, <1>5, <1>6, <1>8 DEF ChainStep

(* What every step of the chain makes of the task.                           *)
TaskMoves ==
    /\ now' = now
    /\ UNCHANGED <<phase, readVars>>
    /\ state' \in State
    /\ state # "missing" => created' = created
    /\ state = "missing" => created' = now /\ state' = "Open"
    /\ state' \notin Ended => state \notin Ended /\ completed' = completed
    /\ state \in Ended => UNCHANGED <<state, completed>>
    /\ state \notin Ended /\ state' \in Ended =>
          /\ state # "missing"
          /\ completed' \in {0, now}
          /\ state' = "Completed" => completed' = now

LEMMA ChainStepMoves ==
    ASSUME TypeOK, ChainStep,
           \A d \in Dispute : disputes[d].status = "Active" => state = "Disputed",
           \A w \in Worker : state = "missing" => claims[w] = NoClaim
    PROVE  TaskMoves
<1> USE DEF TypeOK, TaskMoves, State, Ended, taskVars
<1>1. CASE CreateTask
  BY <1>1 DEF CreateTask
<1>2. CASE CancelTask
  BY <1>2 DEF CancelTask, End
<1>3. ASSUME NEW w \in Worker, ClaimTask(w) PROVE TaskMoves
  BY <1>3 DEF ClaimTask
<1>4. ASSUME NEW w \in Worker, CompleteClaim(w) PROVE TaskMoves
  BY <1>4 DEF CompleteClaim, End
<1>5. ASSUME NEW w \in Worker, CloseClaim(w) PROVE TaskMoves
  <2>1. state # "missing"
    BY <1>5 DEF CloseClaim
  <2> QED
    BY <1>5, <2>1 DEF CloseClaim
<1>6. ASSUME NEW d \in Dispute, InitiateDispute(d) PROVE TaskMoves
  BY <1>6 DEF InitiateDispute
<1>7. ASSUME NEW d \in Dispute, NEW s, NEW at, Settle(d, s, at)
      PROVE  state = "Disputed" /\ now' = now /\ UNCHANGED <<phase, readVars>>
  BY <1>7 DEF Settle
<1>8. ASSUME NEW d \in Dispute, ResolveDispute(d) \/ ExpireDispute(d) PROVE TaskMoves
  <2>1. state = "Disputed" /\ now' = now /\ UNCHANGED <<phase, readVars>>
    BY <1>7, <1>8 DEF ResolveDispute, ExpireDispute
  <2>2. \E ended \in Ended : End(ended)
    BY <1>8 DEF ResolveDispute, ExpireDispute
  <2> QED
    BY <2>1, <2>2 DEF End
<1>9. ASSUME NEW d \in Dispute, CancelDispute(d) PROVE TaskMoves
  <2>1. state = "Disputed" /\ now' = now /\ UNCHANGED <<phase, readVars>>
    BY <1>7, <1>9 DEF CancelDispute
  <2> QED
    BY <2>1, <1>9 DEF CancelDispute
<1> QED
  BY <1>1, <1>2, <1>3, <1>4, <1>5, <1>6, <1>8, <1>9 DEF ChainStep

-----------------------------------------------------------------------------
(* A claim, a dispute and a task that belong together, as the chain has them *)
(* or as they were answered: nothing of them lies before the creation of the *)
(* task, ahead of the clock, or, for a claim, after the end of the task.     *)
Happened(at) == at <= now /\ (at > 0 => state # "missing" /\ created <= at)

ClaimOK(c) ==
    /\ Happened(c.claimedAt) /\ Happened(c.completedAt)
    /\ c.completedAt > 0 => c.claimedAt > 0 /\ c.claimedAt <= c.completedAt
    /\ state \in Ended /\ completed > 0 =>
          c.claimedAt <= completed /\ c.completedAt <= completed

DisputeOK(x) ==
    /\ Happened(x.createdAt) /\ Happened(x.resolvedAt)
    /\ x.status # "none" => x.createdAt > 0
    /\ x.resolvedAt > 0 => x.createdAt > 0 /\ x.createdAt <= x.resolvedAt

TaskOK ==
    /\ now > 0
    /\ state # "missing" => created > 0 /\ created <= now
    /\ Happened(completed)
    /\ state = "Completed" => completed > 0
    /\ state \notin Ended => completed = 0

\* A task is disputed exactly as long as it has its one active dispute.
HeldByDispute ==
    /\ \A d \in Dispute : disputes[d].status = "Active" => state = "Disputed"
    /\ state = "Disputed" => \E d \in Dispute : disputes[d].status = "Active"
    /\ \A d, e \in Dispute :
          disputes[d].status = "Active" /\ disputes[e].status = "Active" => d = e

ChainInv == /\ TaskOK
            /\ \A w \in Worker : ClaimOK(claims[w])
            /\ \A d \in Dispute : DisputeOK(disputes[d])
            /\ HeldByDispute

\* What was read of the task and is not over can be over by now, but nothing
\* that was over can be undone.
SawTask ==
    /\ state # "missing"
    /\ state1 \in Ended => state = state1 /\ fallback = completed
    /\ state1 = "Disputed" => \E d \in Dispute : disputes[d].createdAt > 0

SawTimes == /\ createdAt = created
            /\ state1 \in Ended => completedAt = completed

SawDisputes ==
    /\ \A d \in Dispute : DisputeOK(disputes1[d])
    /\ state1 \in Ended => \A d \in Dispute : disputes1[d].status # "Active"
    /\ state1 = "Disputed" => \E d \in Dispute : disputes1[d].createdAt > 0

ReadInv ==
    /\ phase \in {"raw", "claims", "disputes", "dependents", "done"} => SawTask
    /\ phase \in {"claims", "disputes", "dependents", "done"} => SawTimes
    /\ phase \in {"disputes", "dependents", "done"} =>
          \A w \in Worker : ClaimOK(claims1[w])
    /\ phase \in {"dependents", "done"} => SawDisputes

LifecycleInv == TypeOK /\ ChainInv /\ ReadInv

-----------------------------------------------------------------------------
LEMMA LifecycleInit == Init => LifecycleInv
<1> SUFFICES ASSUME Init PROVE LifecycleInv
  OBVIOUS
<1>1. TypeOK
  BY NoAccounts DEF Init, TypeOK, Reading
<1>2. ChainInv
  BY DEF Init, ChainInv, TaskOK, ClaimOK, DisputeOK, Happened, HeldByDispute,
         NoClaim, NoDispute, Ended
<1>3. ReadInv
  BY DEF Init, ReadInv
<1> QED
  BY <1>1, <1>2, <1>3 DEF LifecycleInv

(* Claims and disputes that were once in order stay so, in the accounts and  *)
(* in the answers alike.                                                     *)
LEMMA OrderStays ==
    ASSUME TypeOK, TaskOK, TaskMoves
    PROVE  /\ \A c \in Claim : ClaimOK(c) => ClaimOK(c)'
           /\ \A x \in DisputeAccount : DisputeOK(x) => DisputeOK(x)'
<1>1. \A at \in Nat : Happened(at) => Happened(at)'
  BY DEF TypeOK, TaskMoves, Happened, State
<1>2. ASSUME NEW c \in Claim, ClaimOK(c) PROVE ClaimOK(c)'
  <2>1. c.claimedAt \in Nat /\ c.completedAt \in Nat
    BY DEF Claim
  <2>2. Happened(c.claimedAt)' /\ Happened(c.completedAt)'
    BY <1>1, <1>2, <2>1 DEF ClaimOK
  <2>3. c.claimedAt <= now /\ c.completedAt <= now
    BY <1>2 DEF ClaimOK, Happened
  <2>4. ASSUME state' \in Ended, completed' > 0
        PROVE  c.claimedAt <= completed' /\ c.completedAt <= completed'
    <3>1. CASE state \in Ended
      BY <3>1, <2>4, <1>2, <2>1 DEF TaskMoves, ClaimOK, Ended
    <3>2. CASE state \notin Ended
      BY <3>2, <2>4, <2>1, <2>3 DEF TaskMoves, TypeOK
    <3> QED
      BY <3>1, <3>2
  <2> QED
    BY <1>2, <2>2, <2>4 DEF ClaimOK
<1>3. ASSUME NEW x \in DisputeAccount, DisputeOK(x) PROVE DisputeOK(x)'
  <2>1. x.createdAt \in Nat /\ x.resolvedAt \in Nat
    BY DEF DisputeAccount
  <2>2. Happened(x.createdAt)' /\ Happened(x.resolvedAt)'
    BY <1>1, <1>3, <2>1 DEF DisputeOK
  <2> QED
    BY <1>3, <2>2 DEF DisputeOK
<1> QED
  BY <1>2, <1>3

LEMMA TaskStaysOK == TypeOK /\ TaskOK /\ TaskMoves => TaskOK'
BY DEF TypeOK, TaskOK, TaskMoves, Happened, State, Ended

(* The claims a step of the chain replaces are in order as well.             *)
LEMMA ClaimsStayOK ==
    ASSUME TypeOK, ChainInv, ChainStep, TaskMoves
    PROVE  (\A w \in Worker : ClaimOK(claims[w]))'
<1> SUFFICES ASSUME NEW w \in Worker PROVE ClaimOK(claims[w])'
  OBVIOUS
<1>1. CASE claims'[w] = claims[w]
  BY <1>1, OrderStays DEF TypeOK, ChainInv, ClaimOK, Happened
<1>2. CASE claims'[w] = NoClaim
  <2>1. claims'[w].claimedAt = 0 /\ claims'[w].completedAt = 0
    BY <1>2 DEF NoClaim
  <2>2. now' \in Nat /\ completed' \in Nat
    BY DEF TypeOK, TaskMoves, State
  <2> QED
    BY <2>1, <2>2 DEF ClaimOK, Happened
<1>3. CASE ClaimTask(w)
  <2>1. claims'[w].claimedAt = now /\ claims'[w].completedAt = 0
    BY <1>3 DEF ClaimTask, TypeOK
  <2>2. state' = "InProgress" /\ created' = created /\ now' = now /\ created <= now
    BY <1>3 DEF ClaimTask, ChainInv, TaskOK
  <2> QED
    BY <2>1, <2>2 DEF ClaimOK, Happened, TypeOK, Ended
<1>4. CASE CompleteClaim(w)
  <2>1. PICK at : at = claims[w].claimedAt
    OBVIOUS
  <2>2. claims'[w].claimedAt = at /\ claims'[w].completedAt = now
    BY <1>4, <2>1 DEF CompleteClaim, TypeOK
  <2>3. /\ state = "InProgress" /\ created' = created /\ now' = now
        /\ created <= at /\ created <= now
        /\ at \in Nat /\ at > 0 /\ at <= now
    BY <1>4, <2>1 DEF CompleteClaim, ChainInv, TaskOK, ClaimOK, Happened,
                      TypeOK, Claim, End, taskVars
  <2>4. state' # "missing" /\ (state' \in Ended => completed' = now)
    BY <1>4 DEF CompleteClaim, End, taskVars, Ended
  <2> QED
    BY <2>2, <2>3, <2>4 DEF ClaimOK, Happened, TypeOK
<1>5. claims'[w] = claims[w] \/ claims'[w] = NoClaim \/ ClaimTask(w) \/ CompleteClaim(w)
  <2>1. ASSUME NEW v \in Worker, ClaimTask(v) \/ CompleteClaim(v) \/ CloseClaim(v)
        PROVE  \/ claims'[w] = claims[w] \/ claims'[w] = NoClaim
               \/ ClaimTask(w) \/ CompleteClaim(w)
    BY <2>1 DEF ClaimTask, CompleteClaim, CloseClaim, TypeOK
  <2>2. CASE \/ CreateTask \/ CancelTask
             \/ \E d \in Dispute : \/ InitiateDispute(d) \/ ResolveDispute(d)
                                   \/ ExpireDispute(d) \/ CancelDispute(d)
    BY <2>2 DEF CreateTask, CancelTask, InitiateDispute, ResolveDispute, ExpireDispute,
                CancelDispute, Settle
  <2> QED
    BY <2>1, <2>2 DEF ChainStep
<1> QED
  BY <1>1, <1>2, <1>3, <1>4, <1>5

(* So are the disputes; the chain forgets none, and a task has one at most   *)
(* that is active.                                                           *)
LEMMA DisputesStayOK ==
    ASSUME TypeOK, ChainInv, ChainStep, TaskMoves
    PROVE  /\ (\A d \in Dispute : DisputeOK(disputes[d]))'
           /\ HeldByDispute'
           /\ \A d \in Dispute : disputes[d].createdAt > 0 => disputes'[d].createdAt > 0
<1> DEFINE Kept(d) == disputes'[d] = disputes[d]
           DisputesAreOK ==
               /\ (\A d \in Dispute : DisputeOK(disputes[d]))'
               /\ HeldByDispute'
               /\ \A d \in Dispute : disputes[d].createdAt > 0 => disputes'[d].createdAt > 0
<1>1. ASSUME NEW d \in Dispute, Kept(d) PROVE DisputeOK(disputes[d])'
  BY <1>1, OrderStays DEF TypeOK, ChainInv, DisputeOK, Happened
<1>2. CASE \/ CreateTask \/ CancelTask
           \/ \E w \in Worker : ClaimTask(w) \/ CompleteClaim(w) \/ CloseClaim(w)
  <2>1. disputes' = disputes
    BY <1>2 DEF CreateTask, CancelTask, ClaimTask, CompleteClaim, CloseClaim
  <2>2. (state' # "Disputed" /\ state # "Disputed") \/ state' = state
    BY <1>2 DEF CreateTask, CancelTask, ClaimTask, CompleteClaim, CloseClaim, End,
                taskVars, Ended
  <2>3. HeldByDispute'
    BY <2>1, <2>2 DEF ChainInv, HeldByDispute
  <2> QED
    BY <1>1, <2>1, <2>3
<1>3. ASSUME NEW d \in Dispute, InitiateDispute(d)
      PROVE  DisputesAreOK
  <2>1. /\ disputes'[d].status = "Active" /\ disputes'[d].createdAt = now
        /\ disputes'[d].resolvedAt = 0
        /\ \A e \in Dispute \ {d} : Kept(e)
    BY <1>3 DEF InitiateDispute, TypeOK
  <2>2. /\ state = "InProgress" /\ state' = "Disputed"
        /\ created' = created /\ created <= now /\ now' = now /\ now > 0
    BY <1>3 DEF InitiateDispute, ChainInv, TaskOK
  <2>3. DisputeOK(disputes[d])'
    BY <2>1, <2>2 DEF DisputeOK, Happened, TypeOK
  <2>4. \A e \in Dispute : disputes[e].status # "Active"
    BY <2>2 DEF ChainInv, HeldByDispute
  <2>5. HeldByDispute'
    BY <2>1, <2>2, <2>4 DEF HeldByDispute
  <2> QED
    BY <1>1, <2>1, <2>2, <2>3, <2>5
<1>4. ASSUME NEW d \in Dispute, NEW s \in {"Resolved", "Expired", "Cancelled"},
             NEW at \in {0, now}, Settle(d, s, at), state' # "Disputed"
      PROVE  DisputesAreOK
  <2>1. PICK start : start = disputes[d].createdAt
    OBVIOUS
  <2>2. /\ disputes'[d].status = s /\ disputes'[d].createdAt = start
        /\ disputes'[d].resolvedAt = at
        /\ \A e \in Dispute \ {d} : Kept(e)
    BY <1>4, <2>1 DEF Settle, TypeOK
  <2>3. /\ disputes[d].status = "Active" /\ state = "Disputed" /\ start > 0
        /\ start \in Nat /\ start <= now /\ created <= start
    BY <1>4, <2>1 DEF Settle, ChainInv, HeldByDispute, DisputeOK, Happened, TypeOK,
                      DisputeAccount
  <2>4. state' # "missing" /\ created' = created /\ now' = now
    BY <2>3 DEF TaskMoves, State
  <2>5. DisputeOK(disputes[d])'
    BY <2>2, <2>3, <2>4 DEF DisputeOK, Happened, TypeOK
  <2>6. \A e \in Dispute : disputes'[e].status # "Active"
    BY <2>2, <2>3 DEF ChainInv, HeldByDispute
  <2>7. HeldByDispute'
    BY <1>4, <2>6 DEF HeldByDispute
  <2> QED
    BY <1>1, <2>1, <2>2, <2>3, <2>5, <2>7
<1>5. ASSUME NEW d \in Dispute, ResolveDispute(d) \/ ExpireDispute(d) \/ CancelDispute(d)
      PROVE  DisputesAreOK
  <2>1. state' # "Disputed"
    BY <1>5 DEF ResolveDispute, ExpireDispute, CancelDispute, End, Ended
  <2> QED
    BY <1>4, <1>5, <2>1 DEF ResolveDispute, ExpireDispute, CancelDispute
<1> QED
  BY <1>2, <1>3, <1>5 DEF ChainStep

-----------------------------------------------------------------------------
(* What has been read survives whatever the chain does next.                 *)
LEMMA ReadingsSurvive ==
    ASSUME TypeOK, ChainInv, ReadInv, TaskMoves,
           \A d \in Dispute : disputes[d].createdAt > 0 => disputes'[d].createdAt > 0
    PROVE  ReadInv'
<1>1. /\ phase' = phase /\ state1' = state1 /\ fallback' = fallback
      /\ createdAt' = createdAt /\ completedAt' = completedAt
      /\ claims1' = claims1 /\ disputes1' = disputes1
  BY DEF TaskMoves, readVars
<1>2. ASSUME SawTask PROVE SawTask'
  <2>1. state # "missing" /\ state' # "missing"
    BY <1>2 DEF SawTask, TaskMoves, State, Ended
  <2> QED
    BY <1>1, <1>2, <2>1 DEF SawTask, TaskMoves
<1>3. ASSUME SawTask, SawTimes PROVE SawTimes'
  BY <1>1, <1>3 DEF SawTask, SawTimes, TaskMoves
<1>4. ASSUME \A w \in Worker : ClaimOK(claims1[w])
      PROVE  (\A w \in Worker : ClaimOK(claims1[w]))'
  BY <1>1, <1>4, OrderStays DEF TypeOK, ChainInv, ClaimOK, Happened
<1>5. ASSUME SawDisputes PROVE SawDisputes'
  <2>1. (\A d \in Dispute : DisputeOK(disputes1[d]))'
    BY <1>1, <1>5, OrderStays DEF SawDisputes, TypeOK, ChainInv, DisputeOK, Happened
  <2> QED
    BY <1>1, <1>5, <2>1 DEF SawDisputes
<1> QED
  BY <1>1, <1>2, <1>3, <1>4, <1>5 DEF ReadInv

LEMMA ChainStepKeeps ==
    ASSUME LifecycleInv, ChainStep PROVE LifecycleInv'
<1>1. TypeOK /\ ChainInv /\ ReadInv
  BY DEF LifecycleInv
<1>2. TaskMoves
  <2>1. \A d \in Dispute : disputes[d].status = "Active" => state = "Disputed"
    BY <1>1 DEF ChainInv, HeldByDispute
  <2>2. ASSUME NEW w \in Worker, state = "missing" PROVE claims[w] = NoClaim
    <3>1. claims[w].claimedAt = 0 /\ claims[w].completedAt = 0
      BY <1>1, <2>2 DEF ChainInv, ClaimOK, Happened, TypeOK, Claim
    <3> QED
      BY <1>1, <3>1 DEF TypeOK, Claim, NoClaim
  <2> QED
    BY <1>1, <2>1, <2>2, ChainStepMoves
<1>3. ChainInv'
  BY <1>1, <1>2, TaskStaysOK, ClaimsStayOK, DisputesStayOK DEF ChainInv
<1>4. ReadInv'
  BY <1>1, <1>2, DisputesStayOK, ReadingsSurvive
<1>5. TypeOK'
  <2>1. created' \in Nat /\ completed' \in Nat
    BY <1>1, <1>2 DEF TaskMoves, TypeOK, State
  <2> QED
    BY <1>1, <1>2, <2>1, AccountsAreTyped DEF TaskMoves, TypeOK, readVars
<1> QED
  BY <1>3, <1>4, <1>5 DEF LifecycleInv

LEMMA TickKeeps == LifecycleInv /\ Tick => LifecycleInv'
<1> SUFFICES ASSUME LifecycleInv, Tick PROVE LifecycleInv'
  OBVIOUS
<1>1. /\ TypeOK /\ ChainInv /\ ReadInv
      /\ now \in Nat /\ now' = now + 1
      /\ UNCHANGED <<state, created, completed, claims, disputes, phase>>
      /\ UNCHANGED <<state1, fallback, createdAt, completedAt, claims1, disputes1>>
  BY DEF LifecycleInv, Tick, taskVars, readVars, TypeOK
<1>2. \A at \in Nat : Happened(at) => Happened(at)'
  BY <1>1 DEF Happened
<1>3. \A c \in Claim : ClaimOK(c) => ClaimOK(c)'
  BY <1>1, <1>2 DEF ClaimOK, Claim
<1>4. \A x \in DisputeAccount : DisputeOK(x) => DisputeOK(x)'
  BY <1>1, <1>2 DEF DisputeOK, DisputeAccount
<1>5. TypeOK'
  BY <1>1 DEF TypeOK
<1>6. ChainInv'
  <2>1. (\A w \in Worker : ClaimOK(claims[w]))'
    BY <1>1, <1>3 DEF ChainInv, TypeOK, ClaimOK, Happened
  <2>2. (\A d \in Dispute : DisputeOK(disputes[d]))'
    BY <1>1, <1>4 DEF ChainInv, TypeOK, DisputeOK, Happened
  <2>3. TaskOK' /\ HeldByDispute'
    BY <1>1, <1>2 DEF ChainInv, TaskOK, HeldByDispute, TypeOK
  <2> QED
    BY <2>1, <2>2, <2>3 DEF ChainInv
<1>7. ReadInv'
  <2>1. (\A w \in Worker : ClaimOK(claims1[w])) => (\A w \in Worker : ClaimOK(claims1[w]))'
    BY <1>1, <1>3 DEF TypeOK, ClaimOK, Happened
  <2>2. (\A d \in Dispute : DisputeOK(disputes1[d])) => (\A d \in Dispute : DisputeOK(disputes1[d]))'
    BY <1>1, <1>4 DEF TypeOK, DisputeOK, Happened
  <2>3. SawTask => SawTask'
    BY <1>1 DEF SawTask
  <2>4. SawTimes => SawTimes'
    BY <1>1 DEF SawTimes
  <2>5. SawDisputes => SawDisputes'
    BY <1>1, <2>2 DEF SawDisputes
  <2> QED
    BY <1>1, <2>1, <2>3, <2>4, <2>5 DEF ReadInv
<1> QED
  BY <1>5, <1>6, <1>7 DEF LifecycleInv

(* A step of the run itself: the chain stays, one answer is kept.            *)
LEMMA ReadKeeps == LifecycleInv /\ Read => LifecycleInv'
<1> SUFFICES ASSUME LifecycleInv, Read PROVE LifecycleInv'
  OBVIOUS
<1>1. TypeOK /\ ChainInv /\ ReadInv
  BY DEF LifecycleInv
<1>2. UNCHANGED <<state, created, completed, claims, disputes, now>>
  BY DEF Read, Begin, ReadTask, ReadRawTask, ReadClaims, ReadDisputes, ReadDependents,
         ReadThrows, chainVars, taskVars
<1>3. ChainInv'
  BY <1>1, <1>2 DEF ChainInv, TaskOK, ClaimOK, DisputeOK, Happened, HeldByDispute
<1>4. /\ \A c : ClaimOK(c)' <=> ClaimOK(c)
      /\ \A x : DisputeOK(x)' <=> DisputeOK(x)
  BY <1>2 DEF ClaimOK, DisputeOK, Happened
<1> DEFINE ClaimsOK == \A w \in Worker : ClaimOK(claims1[w])
<1>5. ASSUME UNCHANGED claims1 PROVE ClaimsOK' <=> ClaimsOK
  BY <1>2, <1>5 DEF ClaimOK, Happened
<1>6. ASSUME UNCHANGED <<state1, fallback>> PROVE SawTask' <=> SawTask
  BY <1>2, <1>6 DEF SawTask
<1>7. ASSUME UNCHANGED <<state1, createdAt, completedAt>> PROVE SawTimes' <=> SawTimes
  BY <1>2, <1>7 DEF SawTimes
<1>8. ASSUME UNCHANGED <<state1, disputes1>> PROVE SawDisputes' <=> SawDisputes
  BY <1>2, <1>8 DEF SawDisputes, DisputeOK, Happened
<1>9. CASE Begin \/ ReadThrows
  <2>1. TypeOK'
    BY <1>1, <1>2, <1>9 DEF Begin, ReadThrows, readVars, TypeOK, Reading
  <2>2. ReadInv'
    BY <1>9 DEF Begin, ReadThrows, ReadInv
  <2> QED
    BY <1>3, <2>1, <2>2 DEF LifecycleInv
<1>10. CASE ReadTask
  <2>1. TypeOK'
    BY <1>1, <1>2, <1>10 DEF ReadTask, TypeOK, Reading
  <2>2. CASE state = "missing"
    BY <1>3, <1>10, <2>1, <2>2 DEF ReadTask, ReadInv, LifecycleInv
  <2>3. CASE state # "missing"
    <3>1. state = "Disputed" => \E d \in Dispute : disputes[d].createdAt > 0
      BY <1>1 DEF ChainInv, HeldByDispute, DisputeOK
    <3>2. SawTask'
      BY <1>2, <1>10, <2>3, <3>1 DEF ReadTask, SawTask
    <3> QED
      BY <1>3, <1>10, <2>1, <2>3, <3>2 DEF ReadTask, ReadInv, LifecycleInv
  <2> QED
    BY <2>2, <2>3
<1>11. CASE ReadRawTask
  <2>1. TypeOK'
    BY <1>1, <1>2, <1>11 DEF ReadRawTask, TypeOK, Reading
  <2>2. SawTask /\ SawTask'
    BY <1>1, <1>6, <1>11 DEF ReadRawTask, ReadInv
  <2>3. SawTimes'
    BY <1>1, <1>2, <1>11, <2>2 DEF ReadRawTask, SawTask, SawTimes, TypeOK
  <2> QED
    BY <1>3, <1>11, <2>1, <2>2, <2>3 DEF ReadRawTask, ReadInv, LifecycleInv
<1>12. CASE ReadClaims
  <2>1. TypeOK'
    BY <1>1, <1>2, <1>12 DEF ReadClaims, TypeOK, Reading
  <2>2. SawTask' /\ SawTimes'
    BY <1>1, <1>6, <1>7, <1>12 DEF ReadClaims, ReadInv
  <2>3. ClaimsOK'
    BY <1>1, <1>2, <1>12 DEF ReadClaims, ChainInv, ClaimOK, Happened
  <2> QED
    BY <1>3, <1>12, <2>1, <2>2, <2>3 DEF ReadClaims, ReadInv, LifecycleInv
<1>13. CASE ReadDisputes
  <2>1. TypeOK'
    BY <1>1, <1>2, <1>13 DEF ReadDisputes, TypeOK, Reading
  <2>2. SawTask /\ SawTask' /\ SawTimes' /\ ClaimsOK'
    BY <1>1, <1>5, <1>6, <1>7, <1>13 DEF ReadDisputes, ReadInv
  <2>3. SawDisputes'
    <3>1. state1 \in Ended => \A d \in Dispute : disputes[d].status # "Active"
      BY <1>1, <2>2 DEF SawTask, ChainInv, HeldByDispute, Ended
    <3>2. \A d \in Dispute : DisputeOK(disputes[d])
      BY <1>1 DEF ChainInv
    <3>3. disputes1' = disputes /\ state1' = state1
      BY <1>13 DEF ReadDisputes
    <3>4. state1 = "Disputed" => \E d \in Dispute : disputes[d].createdAt > 0
      BY <2>2 DEF SawTask
    <3> QED
      BY <1>2, <3>1, <3>2, <3>3, <3>4 DEF SawDisputes, DisputeOK, Happened
  <2> QED
    BY <1>3, <1>13, <2>1, <2>2, <2>3 DEF ReadDisputes, ReadInv, LifecycleInv
<1>14. CASE ReadDependents
  <2>1. TypeOK'
    BY <1>1, <1>2, <1>14 DEF ReadDependents, readVars, TypeOK, Reading
  <2>2. SawTask' /\ SawTimes' /\ ClaimsOK' /\ SawDisputes'
    BY <1>1, <1>5, <1>6, <1>7, <1>8, <1>14 DEF ReadDependents, readVars, ReadInv
  <2> QED
    BY <1>3, <2>1, <2>2 DEF ReadInv, LifecycleInv
<1> QED
  BY <1>9, <1>10, <1>11, <1>12, <1>13, <1>14 DEF Read

LEMMA LifecycleInvHolds == Spec => []LifecycleInv
<1>1. LifecycleInv /\ [Next]_vars => LifecycleInv'
  <2> SUFFICES ASSUME LifecycleInv, [Next]_vars PROVE LifecycleInv'
    OBVIOUS
  <2>1. CASE UNCHANGED vars
    BY <2>1 DEF vars, chainVars, taskVars, readVars, LifecycleInv, TypeOK, ChainInv, TaskOK,
                ClaimOK, DisputeOK, Happened, HeldByDispute, ReadInv, SawTask, SawTimes,
                SawDisputes
  <2> QED
    BY <2>1, ChainStepKeeps, TickKeeps, ReadKeeps DEF Next
<1> QED
  BY <1>1, LifecycleInit, PTL DEF Spec

-----------------------------------------------------------------------------
(* Type correctness of the summary: it is null for a task that was never     *)
(* created and is about a real state of it otherwise.                        *)
THEOREM LifecycleTypeCorrect == Spec => []TypeOK
BY LifecycleInvHolds, PTL DEF LifecycleInv

(* A summary never shows a task that is over and a dispute that is not.      *)
THEOREM LifecycleEndedHasNoActiveDispute == Spec => []EndedHasNoActiveDispute
<1>1. LifecycleInv => EndedHasNoActiveDispute
  BY DEF LifecycleInv, ReadInv, SawDisputes, EndedHasNoActiveDispute, Done, HasActiveDispute
<1> QED
  BY <1>1, LifecycleInvHolds, PTL

(* A task shown as disputed has its dispute in the timeline.                 *)
THEOREM LifecycleDisputedShowsDispute == Spec => []DisputedShowsDispute
<1>1. LifecycleInv => DisputedShowsDispute
  <2> SUFFICES ASSUME LifecycleInv, Done, state1 = "Disputed"
               PROVE  \E e \in Timeline : e.name = "disputeInitiated"
    BY DEF DisputedShowsDispute
  <2>1. PICK d \in Dispute : disputes1[d].createdAt > 0
    BY DEF LifecycleInv, ReadInv, SawDisputes, Done
  <2>2. Event("disputeInitiated", d, disputes1[d].createdAt) \in Timeline
    BY <2>1 DEF Timeline, DisputeEvents
  <2> QED
    BY <2>2 DEF Event
<1> QED
  BY <1>1, LifecycleInvHolds, PTL

(* A completed task has its duration and its event.                          *)
THEOREM LifecycleCompletedIsTimed == Spec => []CompletedIsTimed
<1>1. LifecycleInv => CompletedIsTimed
  <2> SUFFICES ASSUME LifecycleInv, Done, state1 = "Completed"
               PROVE  /\ createdAt > 0 /\ completedAt >= createdAt
                      /\ Event("taskCompleted", Task, completedAt) \in Timeline
    BY DEF CompletedIsTimed
  <2>1. /\ state = "Completed" /\ createdAt = created /\ completedAt = completed
        /\ created \in Nat /\ completed \in Nat
    BY DEF LifecycleInv, ReadInv, SawTask, SawTimes, Done, Ended, TypeOK
  <2>2. created > 0 /\ completed > 0 /\ created <= completed
    BY <2>1 DEF LifecycleInv, ChainInv, TaskOK, Happened
  <2>3. Event("taskCompleted", Task, completedAt) \in EndEvents
    BY <2>1, <2>2 DEF EndEvents
  <2> QED
    BY <2>1, <2>2, <2>3 DEF Timeline
<1> QED
  BY <1>1, LifecycleInvHolds, PTL

-----------------------------------------------------------------------------
LEMMA PushOrderFacts ==
    /\ PushOrder("taskCreated") = 0
    /\ PushOrder("taskClaimed") = 1
    /\ PushOrder("taskClaimCompleted") = 2
    /\ PushOrder("taskCompleted") = 3 /\ PushOrder("taskCancelled") = 3
    /\ PushOrder("disputeInitiated") = 4
    /\ PushOrder("disputeResolved") = 5
BY DEF PushOrder

(* Every event of a timeline is one of seven, and what it tells is to be     *)
(* found in the answers.                                                     *)
Tells(e) ==
    \/ e.name = "taskCreated" /\ e.at = createdAt
    \/ /\ e.name = "taskClaimed" /\ e.of \in Worker
       /\ e.at = claims1[e.of].claimedAt /\ e.at > 0
    \/ /\ e.name = "taskClaimCompleted" /\ e.of \in Worker
       /\ e.at = claims1[e.of].completedAt /\ e.at > 0
    \/ /\ e.name \in {"taskCompleted", "taskCancelled"} /\ state1 \in Ended
       /\ e.at = (IF completedAt > 0 THEN completedAt ELSE createdAt)
    \/ /\ e.name = "disputeInitiated" /\ e.of \in Dispute
       /\ e.at = disputes1[e.of].createdAt /\ e.at > 0
    \/ /\ e.name = "disputeResolved" /\ e.of \in Dispute
       /\ e.at = disputes1[e.of].resolvedAt /\ e.at > 0

LEMMA EveryEventTells ==
    ASSUME completedAt \in Nat, NEW e \in Timeline PROVE Tells(e)
<1>1. CASE e \in ClaimEvents
  BY <1>1 DEF ClaimEvents, Event, Tells
<1>2. CASE e \in EndEvents
  <2>1. state1 \in Ended
    BY <1>2 DEF EndEvents, Ended
  <2>2. CASE state1 = "Completed"
    <3>1. completedAt > 0 /\ e = Event("taskCompleted", Task, completedAt)
      BY <1>2, <2>2 DEF EndEvents
    <3>2. e.name = "taskCompleted" /\ e.at = completedAt
      BY <3>1 DEF Event
    <3> QED
      BY <2>1, <3>1, <3>2 DEF Tells
  <2>3. CASE state1 = "Cancelled"
    <3>1. e = Event("taskCancelled", Task, IF completedAt > 0 THEN completedAt ELSE createdAt)
      BY <1>2, <2>3 DEF EndEvents
    <3> QED
      BY <2>1, <3>1 DEF Event, Tells
  <2> QED
    BY <2>1, <2>2, <2>3 DEF Ended
<1>3. CASE e \in DisputeEvents
  BY <1>3 DEF DisputeEvents, Event, Tells
<1>4. CASE e = Event("taskCreated", Task, createdAt)
  BY <1>4 DEF Event, Tells
<1> QED
  BY <1>1, <1>2, <1>3, <1>4 DEF Timeline

(* Nothing is told to have happened before the task was created.             *)
LEMMA NothingBeforeTheTask ==
    ASSUME LifecycleInv, Done, NEW e, Tells(e)
    PROVE  e.at \in Nat /\ createdAt \in Nat /\ createdAt <= e.at
<1>1. /\ createdAt \in Nat /\ completedAt \in Nat /\ createdAt = created
      /\ \A w \in Worker : /\ claims1[w].claimedAt \in Nat /\ claims1[w].completedAt \in Nat
                           /\ Happened(claims1[w].claimedAt)
                           /\ Happened(claims1[w].completedAt)
      /\ \A d \in Dispute : /\ disputes1[d].createdAt \in Nat
                            /\ disputes1[d].resolvedAt \in Nat
                            /\ Happened(disputes1[d].createdAt)
                            /\ Happened(disputes1[d].resolvedAt)
  BY DEF LifecycleInv, ReadInv, TypeOK, Done, SawTimes, SawDisputes, ClaimOK, DisputeOK,
         Claim, DisputeAccount
<1>2. state1 \in Ended => completedAt = 0 \/ createdAt <= completedAt
  BY <1>1 DEF LifecycleInv, ReadInv, ChainInv, TaskOK, TypeOK, Done, SawTimes, Happened
<1>3. ASSUME NEW at \in Nat, at > 0, Happened(at) PROVE createdAt <= at
  BY <1>1, <1>3 DEF Happened
<1>4. CASE e.name = "taskCreated" /\ e.at = createdAt
  BY <1>1, <1>4
<1>5. CASE /\ e.of \in Worker /\ e.at > 0
           /\ e.at = claims1[e.of].claimedAt \/ e.at = claims1[e.of].completedAt
  BY <1>1, <1>3, <1>5
<1>6. CASE /\ state1 \in Ended
           /\ e.at = (IF completedAt > 0 THEN completedAt ELSE createdAt)
  BY <1>1, <1>2, <1>6
<1>7. CASE /\ e.of \in Dispute /\ e.at > 0
           /\ e.at = disputes1[e.of].createdAt \/ e.at = disputes1[e.of].resolvedAt
  BY <1>1, <1>3, <1>7
<1> QED
  BY <1>4, <1>5, <1>6, <1>7 DEF Tells

(* The timeline tells the story in an order in which it can have happened.   *)
THEOREM LifecycleTimelineIsCausal == Spec => []TimelineIsCausal
<1>1. LifecycleInv => TimelineIsCausal
  <2> SUFFICES ASSUME LifecycleInv, Done, NEW e \in Timeline, NEW f \in Timeline,
                      Causes(e, f)
               PROVE  Precedes(e, f)
    BY DEF TimelineIsCausal
  <2>1. completedAt \in Nat /\ Tells(e) /\ Tells(f)
    BY EveryEventTells DEF LifecycleInv, TypeOK
  <2>2. /\ e.at \in Nat /\ f.at \in Nat /\ createdAt \in Nat
        /\ createdAt <= e.at /\ createdAt <= f.at
    BY <2>1, NothingBeforeTheTask
  <2>3. SUFFICES e.at <= f.at /\ PushOrder(e.name) < PushOrder(f.name)
    BY <2>2 DEF Precedes
  <2>4. \A w \in Worker : ClaimOK(claims1[w])
    BY DEF LifecycleInv, ReadInv, Done
  <2>5. \A d \in Dispute : DisputeOK(disputes1[d])
    BY DEF LifecycleInv, ReadInv, Done, SawDisputes
  <2>6. state1 \in Ended => state \in Ended /\ completedAt = completed
    BY DEF LifecycleInv, ReadInv, Done, SawTask, SawTimes
  <2>7. CASE e.name = "taskCreated" /\ f.name # "taskCreated"
    BY <2>1, <2>2, <2>7, PushOrderFacts DEF Tells
  <2>8. CASE e.of = f.of /\ e.name = "taskClaimed" /\ f.name = "taskClaimCompleted"
    BY <2>1, <2>4, <2>8, PushOrderFacts DEF Tells, ClaimOK
  <2>9. CASE e.of = f.of /\ e.name = "disputeInitiated" /\ f.name = "disputeResolved"
    BY <2>1, <2>5, <2>9, PushOrderFacts DEF Tells, DisputeOK
  <2>10. CASE /\ e.name \in {"taskClaimed", "taskClaimCompleted"}
              /\ f.name \in {"taskCompleted", "taskCancelled"}
              /\ completedAt > 0
    <3>1. f.at = completed /\ state \in Ended /\ completed > 0
      BY <2>1, <2>6, <2>10 DEF Tells
    <3>2. e.of \in Worker /\ (\/ e.at = claims1[e.of].claimedAt
                              \/ e.at = claims1[e.of].completedAt)
      BY <2>1, <2>10 DEF Tells
    <3>3. e.at <= f.at
      BY <2>4, <3>1, <3>2 DEF ClaimOK
    <3> QED
      BY <2>10, <3>3, PushOrderFacts
  <2> QED
    BY <2>7, <2>8, <2>9, <2>10 DEF Causes
<1> QED
  BY <1>1, LifecycleInvHolds, PTL
=============================================================================
