------------------------ MODULE ProofPreflightProofs ------------------------
(* Theorems about the preflight, for any payloads, terms, images and ages.   *)
EXTENDS ProofPreflight, TLAPS

(***************************************************************************)
(* The agreement of the two local checks (proof-validation.ts and          *)
(* validation.ts): what the preflight passes is never refused for its      *)
(* shape when it is submitted.                                             *)
(***************************************************************************)
THEOREM PassedShapeIsSubmittable ==
    ASSUME NEW p \in SUBSET PayloadCheck, ShapeFailures(p) = {}
    PROVE  SubmitShapeOK(p)
BY DEF ShapeFailures, SubmitShapeOK

(* A payload without a failure of its shape has at most one defect left, the *)
(* one that takes the task account to see.                                   *)
LEMMA OnlyTheConstraintIsLeft ==
    ASSUME NEW p \in SUBSET PayloadCheck, ShapeFailures(p) = {}
    PROVE  p \subseteq {"constraint_hash_match"}
<1>1. "journal_length" \notin p /\ "seal_length" \notin p
  BY DEF ShapeFailures
<1>2. JournalFailures(p) = {} /\ "trusted_selector" \notin p
  BY <1>1 DEF ShapeFailures
<1>3. "binding_nonzero" \notin p /\ "nullifier_nonzero" \notin p
  BY <1>2 DEF JournalFailures
<1>4. "binding_seed_length" \notin p /\ "nullifier_seed_length" \notin p
      /\ "image_id_length" \notin p
  BY DEF ShapeFailures
<1>5. p \cap {"commitment_nonzero", "journal_task_match", "journal_authority_match",
              "binding_entropy", "nullifier_entropy", "binding_seed_match",
              "nullifier_seed_match"} = {}
  BY <1>2, <1>3, <1>4 DEF JournalFailures
<1> QED
  BY <1>1, <1>2, <1>3, <1>4, <1>5 DEF PayloadCheck

(* The payload's own checks never speak of the chain.                        *)
LEMMA ShapeIsLocal ==
    ASSUME NEW p \in SUBSET PayloadCheck
    PROVE  /\ ShapeFailures(p) \subseteq PayloadCheck \ {"constraint_hash_match"}
           /\ ShapeFailures(p) \cap ChainCheck = {}
<1>1. JournalFailures(p) \subseteq PayloadCheck \ {"constraint_hash_match"}
  BY DEF JournalFailures, PayloadCheck
<1>2. ShapeFailures(p) \subseteq PayloadCheck \ {"constraint_hash_match"}
  BY <1>1 DEF ShapeFailures, PayloadCheck
<1>3. (PayloadCheck \ {"constraint_hash_match"}) \cap ChainCheck = {}
  BY DEF PayloadCheck, ChainCheck
<1> QED
  BY <1>2, <1>3

LEMMA FreshnessIsLocal ==
    ASSUME NEW dated \in BOOLEAN
    PROVE  FreshnessFailures(dated) \subseteq {"proof_freshness"}
BY DEF FreshnessFailures, If

-----------------------------------------------------------------------------
(* Every check a read can add is one of the chain's.                         *)
LEMMA FoundAreChecks ==
    /\ ZkFailures \subseteq ChainCheck
    /\ \A s : TaskFailures(s) \subseteq ChainCheck
    /\ CompetitiveFailures \subseteq ChainCheck
    /\ ClaimFailures \subseteq ChainCheck
    /\ \A s : SpendFailures(s) \subseteq ChainCheck
BY DEF ZkFailures, TaskFailures, CompetitiveFailures, ClaimFailures, SpendFailures,
       If, ChainCheck

(* Type correctness.                                                         *)
THEOREM PreflightTypeCorrect == Spec => []TypeOK
<1>1. Init => TypeOK
  <2> SUFFICES ASSUME Init PROVE TypeOK
    OBVIOUS
  <2>1. claim \in Claim
    BY DEF Init, Claim
  <2> QED
    BY <2>1, PreflightAssumption DEF Init, TypeOK, Reading, TaskState
<1>2. TypeOK /\ [Next]_vars => TypeOK'
  <2> SUFFICES ASSUME TypeOK, [Next]_vars PROVE TypeOK'
    OBVIOUS
  <2>1. CASE UNCHANGED vars
    BY <2>1 DEF vars, chainVars, runVars, historyVars, TypeOK
  <2>2. CASE Begin
    <3>1. PICK dated \in BOOLEAN :
              failures' = ShapeFailures(payload) \cup FreshnessFailures(dated)
      BY <2>2 DEF Begin
    <3>2. failures' \subseteq Check
      BY <3>1, ShapeIsLocal, FreshnessIsLocal, PreflightAssumption DEF TypeOK, Check
    <3> QED
      BY <2>2, <3>2 DEF Begin, TypeOK, chainVars, Reading
  <2>3. CASE Read
    <3>1. ASSUME NEW account \in Reading, NEW found \in SUBSET ChainCheck,
                 NEW next \in Reading \cup {"done"}, Reads(account, found, next),
                 account # "task", next # "task",
                 UNCHANGED <<task1, moment, disturbed>>
          PROVE  TypeOK'
      BY <3>1 DEF Reads, TypeOK, chainVars, Reading, Check
    <3>2. CASE ReadTask
      BY <3>2 DEF ReadTask, Reads, Acceptable, TypeOK, chainVars, Reading, Check, ChainCheck
    <3>3. CASE ReadZk
      BY <3>1, <3>3, FoundAreChecks DEF ReadZk, Reading
    <3>4. CASE ReadRawTask
      BY <3>1, <3>4, FoundAreChecks DEF ReadRawTask, Reading
    <3>5. CASE ReadClaim
      BY <3>1, <3>5, FoundAreChecks DEF ReadClaim, Reading
    <3>6. CASE ReadClaimThrows
      BY <3>1, <3>6 DEF ReadClaimThrows, Reading, ChainCheck
    <3>7. CASE ReadBindingSpend
      BY <3>1, <3>7, FoundAreChecks DEF ReadBindingSpend, Reading
    <3>8. CASE ReadNullifierSpend
      BY <3>1, <3>8, FoundAreChecks DEF ReadNullifierSpend, Reading
    <3>9. CASE ReadThrows
      BY <3>9 DEF ReadThrows, TypeOK, chainVars, historyVars, Reading
    <3> QED
      BY <2>3, <3>2, <3>3, <3>4, <3>5, <3>6, <3>7, <3>8, <3>9 DEF Read
  <2>4. ASSUME NEW b \in BOOLEAN, Witness(b)
        PROVE  /\ UNCHANGED <<phase, payload, task1, failures, watched, moment>>
               /\ seen' \in BOOLEAN /\ always' \in BOOLEAN /\ disturbed' \in BOOLEAN
    BY <2>4 DEF Witness, runVars, TypeOK
  <2>5. CASE ChainStep
    <3>1. \E b \in BOOLEAN : Witness(b)
      BY <2>5 DEF ChainStep, MoveTask, Complete, ClaimTask, ExpireClaim, SetImage, Spend
    <3>2. CASE MoveTask
      BY <3>2, <3>1, <2>4 DEF MoveTask, TypeOK, TaskState
    <3>3. CASE Complete
      <4>1. claim' \in Claim /\ spent' \subseteq {"binding", "nullifier"}
        <5>1. CASE claim' = [status |-> "completed", expires |-> claim.expires]
                   /\ spent' \in {spent, {"binding", "nullifier"}}
          <6>1. claim.expires \in Expiry \cup {0}
            BY DEF TypeOK, Claim
          <6> QED
            BY <5>1, <6>1 DEF Claim, TypeOK
        <5>2. CASE UNCHANGED <<claim, spent>>
          BY <5>2 DEF TypeOK
        <5> QED
          BY <3>3, <5>1, <5>2 DEF Complete
      <4>2. task' \in TaskState /\ won' \in BOOLEAN /\ UNCHANGED <<terms, zk, now>>
        BY <3>3 DEF Complete
      <4> QED
        BY <4>1, <4>2, <3>1, <2>4 DEF TypeOK
    <3>4. CASE ClaimTask
      BY <3>4, <3>1, <2>4 DEF ClaimTask, TypeOK, TaskState, Claim
    <3>5. CASE ExpireClaim
      BY <3>5, <3>1, <2>4 DEF ExpireClaim, TypeOK, Claim
    <3>6. CASE SetImage
      BY <3>6, <3>1, <2>4 DEF SetImage, TypeOK
    <3>7. CASE Spend
      BY <3>7, <3>1, <2>4 DEF Spend, TypeOK
    <3> QED
      BY <2>5, <3>2, <3>3, <3>4, <3>5, <3>6, <3>7 DEF ChainStep
  <2>6. CASE Tick
    <3>1. Witness(FALSE)
      BY <2>6 DEF Tick
    <3>2. now' \in Nat
      BY <2>6, SMT DEF Tick, TypeOK
    <3>3. UNCHANGED <<task, terms, won, claim, zk, spent>>
      BY <2>6 DEF Tick, chainVars
    <3> QED
      BY <3>1, <3>2, <3>3, <2>4 DEF TypeOK
  <2> QED
    BY <2>1, <2>2, <2>3, <2>5, <2>6 DEF Next
<1> QED
  BY <1>1, <1>2, PTL DEF Spec

-----------------------------------------------------------------------------
(* What history records while the run goes on: an unsatisfied check is seen  *)
(* at once, and the old reading of the task's state was once a fresh one.    *)
RealInv ==
    /\ Running /\ ~Satisfied(watched) => seen
    /\ phase \in Reading \ {"task"} /\ watched = "task_in_progress"
           /\ task1 # "InProgress" => seen
    /\ phase = "idle" => failures = {}
    /\ FailuresWereReal

(* A task type that reads as competitive is competitive.                     *)
LEMMA SeenCompetitive ==
    toNumber(terms.taskType) = Competitive => terms.taskType.value = Competitive
<1>1. CASE terms.taskType.as = "number"
  BY <1>1 DEF toNumber
<1>2. CASE terms.taskType.as # "number"
  <2>1. toNumber(terms.taskType) = 0
    BY <1>2 DEF toNumber
  <2> QED
    BY <2>1 DEF Competitive
<1> QED
  BY <1>1, <1>2

(* A finding of a read is of a check that is not satisfied as it is made, or *)
(* was not when the task's state was read.                                   *)
LEMMA FindingsAreReal ==
    ASSUME NEW c \in ChainCheck
    PROVE  /\ c \in ZkFailures => ~Satisfied(c)
           /\ \A s : c \in TaskFailures(s) =>
                 ~Satisfied(c) \/ (c = "task_in_progress" /\ s # "InProgress")
           /\ c \in CompetitiveFailures => ~Satisfied(c)
           /\ c \in ClaimFailures => ~Satisfied(c)
           /\ \A s \in {"binding", "nullifier"} : c \in SpendFailures(s) => ~Satisfied(c)
<1>1. PreflightAssumption!1 /\ PreflightAssumption!2
  BY PreflightAssumption
<1>2. c \in ZkFailures => ~Satisfied(c)
  BY <1>1 DEF ZkFailures, If, Satisfied
<1>3. \A s : c \in TaskFailures(s) =>
          ~Satisfied(c) \/ (c = "task_in_progress" /\ s # "InProgress")
  BY DEF TaskFailures, If, Satisfied
<1>4. c \in CompetitiveFailures => ~Satisfied(c)
  BY SeenCompetitive DEF CompetitiveFailures, If, Satisfied
<1>5. c \in ClaimFailures => ~Satisfied(c)
  BY DEF ClaimFailures, If, Satisfied
<1>6. \A s \in {"binding", "nullifier"} : c \in SpendFailures(s) => ~Satisfied(c)
  BY DEF SpendFailures, If, Satisfied
<1> QED
  BY <1>2, <1>3, <1>4, <1>5, <1>6

(* A step that leaves the chain and the clock alone leaves every check as it *)
(* was.                                                                      *)
LEMMA ReadsMoveNothing ==
    ASSUME UNCHANGED <<chainVars, now, payload, watched>>
    PROVE  Satisfied(watched)' = Satisfied(watched)
BY DEF chainVars, Satisfied, Passed

(***************************************************************************)
(* FailuresWereReal holds of every run.                                    *)
(***************************************************************************)
THEOREM PreflightFailuresWereReal == Spec => []FailuresWereReal
<1>1. Init => RealInv
  BY DEF Init, RealInv, FailuresWereReal, Running, Reading
<1>2. TypeOK /\ RealInv /\ [Next]_vars => RealInv'
  <2> SUFFICES ASSUME TypeOK, RealInv, [Next]_vars PROVE RealInv'
    OBVIOUS
  <2> USE DEF RealInv, FailuresWereReal
  <2>1. CASE UNCHANGED vars
    <3>1. Satisfied(watched)' = Satisfied(watched)
      BY <2>1, ReadsMoveNothing DEF vars, runVars, historyVars
    <3> QED
      BY <2>1, <3>1 DEF vars, chainVars, runVars, historyVars, Running
  <2>2. CASE Begin
    <3>1. PICK dated \in BOOLEAN :
              failures' = ShapeFailures(payload) \cup FreshnessFailures(dated)
      BY <2>2 DEF Begin
    <3>2. failures' \cap ChainCheck = {}
      <4>1. payload \in SUBSET PayloadCheck
        BY PreflightAssumption DEF TypeOK
      <4> QED
        BY <3>1, <4>1, ShapeIsLocal, FreshnessIsLocal DEF ChainCheck
    <3>3. watched' \notin failures'
      BY <2>2, <3>2 DEF Begin, TypeOK
    <3>4. Satisfied(watched)' = Satisfied(watched)
      BY <2>2, ReadsMoveNothing DEF Begin
    <3> QED
      BY <2>2, <3>3, <3>4 DEF Begin, Running
  <2>3. CASE Read
    <3>1. ASSUME NEW account \in Reading, NEW found, NEW next \in Reading \cup {"done"},
                 Reads(account, found, next), account # "task", next # "task",
                 UNCHANGED task1,
                 watched \in found => seen \/ watched = "claim_exists"
          PROVE  RealInv'
      <4>1. Satisfied(watched)' = Satisfied(watched)
        BY <3>1, ReadsMoveNothing DEF Reads
      <4>2. UNCHANGED <<watched, seen>> /\ phase = account /\ phase' = next
            /\ failures' = failures \cup found
        BY <3>1 DEF Reads
      <4>3. Running /\ phase \in Reading \ {"task"} /\ phase' # "idle"
        BY <3>1, <4>2 DEF Running, Reading
      <4> QED
        BY <3>1, <4>1, <4>2, <4>3
    <3>2. Running /\ watched \in ChainCheck
      BY <2>3 DEF Read, ReadTask, ReadZk, ReadRawTask, ReadClaim, ReadClaimThrows,
                  ReadBindingSpend, ReadNullifierSpend, ReadThrows, Reads, Running, Reading, TypeOK
    <3>3. ~Satisfied(watched) => seen
      BY <3>2
    <3>4. CASE ReadTask
      <4>1. Satisfied(watched)' = Satisfied(watched)
        BY <3>4, ReadsMoveNothing DEF ReadTask, Reads
      <4>2. UNCHANGED <<watched, seen>> /\ phase' # "idle" /\ task1' = task
        BY <3>4 DEF ReadTask, Reads
      <4>3. watched = "task_in_progress" /\ task # "InProgress" => seen
        BY <3>3 DEF Satisfied
      <4>4. watched \in failures' => watched \in failures \/
                (watched = "task_exists" /\ task = "missing")
        BY <3>4 DEF ReadTask, Reads
      <4>5. watched = "task_exists" /\ task = "missing" => seen
        BY <3>3 DEF Satisfied
      <4> QED
        BY <3>2, <3>3, <4>1, <4>2, <4>3, <4>4, <4>5
    <3>5. CASE ReadZk
      <4>1. phase = "zk"
        BY <3>5 DEF ReadZk, Reads
      <4>2. watched = "task_in_progress" /\ task1 # "InProgress" => seen
        BY <4>1 DEF Reading
      <4>3. watched \in ZkFailures \cup TaskFailures(task1) => seen
        BY <3>2, <3>3, <4>2, FindingsAreReal
      <4> QED
        BY <3>1, <3>5, <4>3 DEF ReadZk, Reading
    <3>6. CASE ReadRawTask
      <4>1. watched \in CompetitiveFailures => seen
        BY <3>2, <3>3, FindingsAreReal
      <4> QED
        BY <3>1, <3>6, <4>1 DEF ReadRawTask, Reading
    <3>7. CASE ReadClaim
      <4>1. watched \in ClaimFailures => seen
        BY <3>2, <3>3, FindingsAreReal
      <4> QED
        BY <3>1, <3>7, <4>1 DEF ReadClaim, Reading
    <3>8. CASE ReadClaimThrows
      BY <3>1, <3>8 DEF ReadClaimThrows, Reading
    <3>9. CASE ReadBindingSpend
      <4>1. watched \in SpendFailures("binding") => seen
        BY <3>2, <3>3, FindingsAreReal
      <4> QED
        BY <3>1, <3>9, <4>1 DEF ReadBindingSpend, Reading
    <3>10. CASE ReadNullifierSpend
      <4>1. watched \in SpendFailures("nullifier") => seen
        BY <3>2, <3>3, FindingsAreReal
      <4> QED
        BY <3>1, <3>10, <4>1 DEF ReadNullifierSpend, Reading
    <3>11. CASE ReadThrows
      BY <3>11 DEF ReadThrows, historyVars, Running, Reading
    <3> QED
      BY <2>3, <3>4, <3>5, <3>6, <3>7, <3>8, <3>9, <3>10, <3>11 DEF Read
  <2>4. CASE ChainStep \/ Tick
    <3>1. \E b \in BOOLEAN : Witness(b)
      BY <2>4 DEF ChainStep, MoveTask, Complete, ClaimTask, ExpireClaim, SetImage, Spend, Tick
    <3>2. UNCHANGED <<phase, task1, failures, watched>>
          /\ seen' = (seen \/ (Running /\ ~Satisfied(watched)'))
      BY <3>1 DEF Witness, runVars
    <3> QED
      BY <3>2 DEF Running
  <2> QED
    BY <2>1, <2>2, <2>3, <2>4 DEF Next
<1> QED
  BY <1>1, <1>2, PreflightTypeCorrect, PTL DEF Spec, RealInv

-----------------------------------------------------------------------------
(* While no failure was found: the payload has no defect but the one that    *)
(* the zkConfig step looks for.                                              *)
PayloadInv ==
    failures = {} =>
        /\ phase \notin {"idle", "threw"} => payload \subseteq {"constraint_hash_match"}
        /\ phase \in {"raw", "claim", "binding", "nullifier"} => payload = {}

(* If the program would not have accepted the payload when the task was      *)
(* read, and nothing was set or claimed since, then the reason is still      *)
(* there, on an account that is not read yet.                                *)
ReasonIsAhead ==
    \/ phase = "zk" /\ \/ payload # {} \/ task1 # "InProgress" \/ ~terms.private
                       \/ Passed(terms.deadline) \/ zk # ProofImage
    \/ phase \in {"zk", "raw"} /\ toNumber(terms.taskType) = Competitive /\ won
    \/ /\ phase \in {"zk", "raw", "claim"}
       /\ claim.status # "live" \/ Passed(claim.expires)
    \/ phase \in {"zk", "raw", "claim", "binding"} /\ "binding" \in spent
    \/ phase \in {"zk", "raw", "claim", "binding", "nullifier"} /\ "nullifier" \in spent

MomentInv ==
    /\ PayloadInv
    /\ phase \in {"zk", "raw", "claim", "binding", "nullifier", "done"}
           /\ failures = {} /\ ~disturbed => moment \/ ReasonIsAhead

(* A task type is a number or an object.                                     *)
LEMMA OneOfTwoDecodings ==
    ASSUME TypeOK
    PROVE  terms.taskType.as \in {"number", "object"}
BY PreflightAssumption DEF TypeOK, TaskType

(* Once passed, always passed.                                               *)
LEMMA TimeOnlyPasses ==
    ASSUME NEW d \in Nat, TypeOK, now' = now \/ now' = now + 1, Passed(d)
    PROVE  d > 0 /\ now' > d
BY SMT DEF Passed, TypeOK

(* A reading without a finding: its checks are satisfied, and the payload    *)
(* lets them be made.                                                        *)
LEMMA NothingFound ==
    ASSUME payload \subseteq {"constraint_hash_match"}
    PROVE  /\ ZkFailures = {} => zk = ProofImage
           /\ \A s : TaskFailures(s) = {} =>
                 s = "InProgress" /\ terms.private /\ payload = {} /\ ~Passed(terms.deadline)
           /\ CompetitiveFailures = {} => ~(toNumber(terms.taskType) = Competitive /\ won)
           /\ ClaimFailures = {} => claim.status \notin {"none", "completed"}
                                    /\ ~Passed(claim.expires)
           /\ \A s : SpendFailures(s) = {} => s \notin spent
<1>1. ZkFailures = {} => zk = ProofImage
  BY DEF ZkFailures, If
<1>2. ASSUME NEW s, TaskFailures(s) = {}
      PROVE  s = "InProgress" /\ terms.private /\ payload = {} /\ ~Passed(terms.deadline)
  BY <1>2 DEF TaskFailures, If
<1>3. CompetitiveFailures = {} => ~(toNumber(terms.taskType) = Competitive /\ won)
  BY DEF CompetitiveFailures, If
<1>4. ClaimFailures = {} => claim.status \notin {"none", "completed"}
                            /\ ~Passed(claim.expires)
  BY DEF ClaimFailures, If
<1>5. ASSUME NEW s, SpendFailures(s) = {} PROVE s \notin spent
  BY <1>5 DEF SpendFailures, If
<1> QED
  BY <1>1, <1>2, <1>3, <1>4, <1>5

(* The reason survives every move of the chain and of the clock except those *)
(* that the history records as disturbing.                                   *)
LEMMA ReasonStays ==
    ASSUME TypeOK, ReasonIsAhead, ChainStep \/ Tick, ~disturbed'
    PROVE  ReasonIsAhead'
<1>1. UNCHANGED <<phase, payload, task1, terms>>
  BY DEF ChainStep, MoveTask, Complete, ClaimTask, ExpireClaim, SetImage, Spend, Tick,
         Witness, runVars, chainVars
<1>2. ~ClaimTask /\ ~SetImage
  BY DEF ClaimTask, SetImage, Witness
<1>3. now' = now \/ now' = now + 1
  BY <1>2 DEF ChainStep, MoveTask, Complete, ExpireClaim, Spend, Tick
<1>4. zk' = zk /\ (won => won') /\ spent \subseteq spent'
  BY <1>2 DEF ChainStep, MoveTask, Complete, ExpireClaim, Spend, Tick, chainVars, TypeOK
<1>5. \/ claim' = claim
      \/ claim'.status = "none"
      \/ claim'.status = "completed"
  <2>1. CASE Complete
    BY <2>1 DEF Complete
  <2>2. CASE ExpireClaim
    BY <2>2 DEF ExpireClaim
  <2> QED
    BY <1>2, <2>1, <2>2 DEF ChainStep, MoveTask, Spend, Tick, chainVars
<1>6. Passed(terms.deadline) => Passed(terms.deadline)'
  <2>1. terms.deadline \in Nat
    BY PreflightAssumption DEF TypeOK
  <2> QED
    BY <1>1, <1>3, <2>1, TimeOnlyPasses DEF Passed
<1>7. claim' = claim /\ Passed(claim.expires) => Passed(claim.expires)'
  <2>1. claim.expires \in Expiry \cup {0}
    <3>1. claim \in [status : {"none", "live", "completed"}, expires : Expiry \cup {0}]
      BY DEF TypeOK, Claim
    <3> QED
      BY <3>1
  <2>2. claim.expires \in Nat
    <3>1. \A e \in Expiry \cup {0} : e \in Nat
      BY PreflightAssumption
    <3> QED
      BY <2>1, <3>1, Zenon
  <2> QED
    BY <1>3, <2>2, TimeOnlyPasses DEF Passed
<1>8. (claim.status # "live" \/ Passed(claim.expires))
          => (claim'.status # "live" \/ Passed(claim.expires)')
  BY <1>5, <1>7
<1> QED
  BY <1>1, <1>4, <1>6, <1>8 DEF ReasonIsAhead

(* Both are invariants.                                                      *)
LEMMA MomentInvHolds == Spec => []MomentInv
<1>1. Init => MomentInv
  BY DEF Init, MomentInv, PayloadInv
<1>2. TypeOK /\ MomentInv /\ [Next]_vars => MomentInv'
  <2> SUFFICES ASSUME TypeOK, MomentInv, [Next]_vars PROVE MomentInv'
    OBVIOUS
  <2>1. CASE UNCHANGED vars
    BY <2>1 DEF vars, chainVars, runVars, historyVars, MomentInv, PayloadInv,
                ReasonIsAhead, Passed
  <2>2. CASE Begin
    <3>1. payload \in SUBSET PayloadCheck
      BY PreflightAssumption DEF TypeOK
    <3>2. failures' = {} => payload \subseteq {"constraint_hash_match"}
      BY <2>2, <3>1, OnlyTheConstraintIsLeft DEF Begin
    <3> QED
      BY <2>2, <3>2 DEF Begin, MomentInv, PayloadInv
  <2>3. CASE Read
    <3>1. CASE ReadTask
      <4>1. CASE task = "missing"
        BY <3>1, <4>1 DEF ReadTask, Reads, MomentInv, PayloadInv
      <4>2. CASE task # "missing"
        <5>1. /\ phase = "task" /\ phase' = "zk" /\ failures' = failures
              /\ UNCHANGED <<task, terms, won, claim, zk, spent, now, payload>>
              /\ task1' = task /\ moment' = Acceptable /\ ~disturbed'
          BY <3>1, <4>2 DEF ReadTask, Reads, chainVars
        <5>2. PayloadInv'
          BY <5>1 DEF MomentInv, PayloadInv
        <5>3. ASSUME payload = {}, task = "InProgress", terms.private,
                     ~Passed(terms.deadline), zk = ProofImage,
                     ~(toNumber(terms.taskType) = Competitive /\ won), claim.status = "live",
                     ~Passed(claim.expires), "binding" \notin spent, "nullifier" \notin spent
              PROVE  Acceptable
          <6>1. ProofImage # NoImage
            BY PreflightAssumption
          <6>2. \/ ~(terms.taskType.value = Competitive /\ won)
                \/ Overlooked = {"competitive_not_won"}
            BY <5>3, OneOfTwoDecodings DEF Overlooked, toNumber
          <6> QED
            BY <5>3, <6>1, <6>2 DEF Acceptable, Satisfied, ChainCheck
        <5>4. Acceptable \/ ReasonIsAhead'
          BY <5>1, <5>3 DEF ReasonIsAhead, Passed
        <5> QED
          BY <5>1, <5>2, <5>4 DEF MomentInv
      <4> QED
        BY <4>1, <4>2
    <3>2. ASSUME NEW account \in Reading \ {"task"}, NEW found, NEW next,
                 Reads(account, found, next), UNCHANGED <<task1, moment, disturbed>>,
                 failures' = {}
          PROVE  /\ phase = account /\ phase' = next /\ failures = {} /\ found = {}
                 /\ UNCHANGED <<task, terms, won, claim, zk, spent, now, payload>>
                 /\ payload \subseteq {"constraint_hash_match"}
                 /\ account # "zk" => payload = {}
                 /\ ~disturbed' => moment' \/ ReasonIsAhead
      <4>1. phase = account /\ phase' = next /\ failures = {} /\ found = {}
            /\ UNCHANGED <<task, terms, won, claim, zk, spent, now, payload>>
        BY <3>2 DEF Reads, chainVars
      <4> QED
        BY <3>2, <4>1 DEF MomentInv, PayloadInv, Reading
    <3>3. CASE ReadZk
      <4>1. SUFFICES ASSUME failures' = {} PROVE MomentInv'
        BY <3>3 DEF MomentInv, PayloadInv
      <4>2. /\ phase = "zk" /\ phase' = "raw" /\ ZkFailures = {} /\ TaskFailures(task1) = {}
            /\ UNCHANGED <<task, terms, won, claim, zk, spent, now, payload>>
            /\ payload \subseteq {"constraint_hash_match"}
            /\ ~disturbed' => moment' \/ ReasonIsAhead
        BY <3>3, <3>2, <4>1 DEF ReadZk, Reading
      <4>3. /\ zk = ProofImage /\ task1 = "InProgress" /\ terms.private /\ payload = {}
            /\ ~Passed(terms.deadline)
        BY <4>2, NothingFound
      <4> QED
        BY <4>2, <4>3 DEF MomentInv, PayloadInv, ReasonIsAhead, Passed
    <3>4. CASE ReadRawTask
      <4>1. SUFFICES ASSUME failures' = {} PROVE MomentInv'
        BY <3>4 DEF MomentInv, PayloadInv
      <4>2. /\ phase = "raw" /\ phase' = "claim" /\ CompetitiveFailures = {}
            /\ UNCHANGED <<task, terms, won, claim, zk, spent, now, payload>>
            /\ payload = {}
            /\ ~disturbed' => moment' \/ ReasonIsAhead
        BY <3>4, <3>2, <4>1 DEF ReadRawTask, Reading
      <4>3. ~(toNumber(terms.taskType) = Competitive /\ won)
        BY <4>2, NothingFound
      <4> QED
        BY <4>2, <4>3 DEF MomentInv, PayloadInv, ReasonIsAhead, Passed
    <3>5. CASE ReadClaim
      <4>1. SUFFICES ASSUME failures' = {} PROVE MomentInv'
        BY <3>5 DEF MomentInv, PayloadInv
      <4>2. /\ phase = "claim" /\ phase' = "binding" /\ ClaimFailures = {}
            /\ UNCHANGED <<task, terms, won, claim, zk, spent, now, payload>>
            /\ payload = {}
            /\ ~disturbed' => moment' \/ ReasonIsAhead
        BY <3>5, <3>2, <4>1 DEF ReadClaim, Reading
      <4>3. claim.status = "live" /\ ~Passed(claim.expires)
        BY <4>2, NothingFound DEF TypeOK, Claim
      <4> QED
        BY <4>2, <4>3 DEF MomentInv, PayloadInv, ReasonIsAhead
    <3>6. CASE ReadClaimThrows
      BY <3>6 DEF ReadClaimThrows, Reads, MomentInv, PayloadInv
    <3>7. CASE ReadBindingSpend
      <4>1. SUFFICES ASSUME failures' = {} PROVE MomentInv'
        BY <3>7 DEF MomentInv, PayloadInv
      <4>2. /\ phase = "binding" /\ phase' = "nullifier"
            /\ (IF "binding_seed_length" \in payload THEN {} ELSE SpendFailures("binding")) = {}
            /\ UNCHANGED <<task, terms, won, claim, zk, spent, now, payload>>
            /\ payload = {}
            /\ ~disturbed' => moment' \/ ReasonIsAhead
        BY <3>7, <3>2, <4>1 DEF ReadBindingSpend, Reading
      <4>3. "binding" \notin spent
        BY <4>2, NothingFound
      <4> QED
        BY <4>2, <4>3 DEF MomentInv, PayloadInv, ReasonIsAhead
    <3>8. CASE ReadNullifierSpend
      <4>1. SUFFICES ASSUME failures' = {} PROVE MomentInv'
        BY <3>8 DEF MomentInv, PayloadInv
      <4>2. /\ phase = "nullifier" /\ phase' = "done"
            /\ (IF "nullifier_seed_length" \in payload THEN {} ELSE SpendFailures("nullifier")) = {}
            /\ UNCHANGED <<task, terms, won, claim, zk, spent, now, payload>>
            /\ payload = {}
            /\ ~disturbed' => moment' \/ ReasonIsAhead
        BY <3>8, <3>2, <4>1 DEF ReadNullifierSpend, Reading
      <4>3. "nullifier" \notin spent
        BY <4>2, NothingFound
      <4> QED
        BY <4>2, <4>3 DEF MomentInv, PayloadInv, ReasonIsAhead
    <3>9. CASE ReadThrows
      BY <3>9 DEF ReadThrows, MomentInv, PayloadInv
    <3> QED
      BY <2>3, <3>1, <3>3, <3>4, <3>5, <3>6, <3>7, <3>8, <3>9 DEF Read
  <2>4. CASE ChainStep \/ Tick
    <3>1. UNCHANGED <<phase, payload, failures, moment>> /\ (disturbed => disturbed')
      BY <2>4 DEF ChainStep, MoveTask, Complete, ClaimTask, ExpireClaim, SetImage, Spend, Tick,
                  Witness, runVars
    <3>2. PayloadInv'
      BY <3>1 DEF MomentInv, PayloadInv
    <3> QED
      BY <2>4, <3>1, <3>2, ReasonStays DEF MomentInv
  <2> QED
    BY <2>1, <2>2, <2>3, <2>4 DEF Next
<1> QED
  BY <1>1, <1>2, PreflightTypeCorrect, PTL DEF Spec

(***************************************************************************)
(* ValidHadItsMoment holds of every run.                                   *)
(***************************************************************************)
THEOREM PreflightValidHadItsMoment == Spec => []ValidHadItsMoment
<1>1. MomentInv => ValidHadItsMoment
  BY DEF MomentInv, ReasonIsAhead, ValidHadItsMoment
<1> QED
  BY <1>1, MomentInvHolds, PTL

-----------------------------------------------------------------------------
(* The checks that were made, and could fail, once the run has come to a     *)
(* phase.                                                                    *)
Made(p) ==
    (IF p \in {"zk", "raw", "claim", "binding", "nullifier", "done"}
     THEN {"task_exists"} ELSE {})
    \cup (IF p \in {"raw", "claim", "binding", "nullifier", "done"}
          THEN {"zk_config_exists", "trusted_image_id", "task_in_progress",
                "task_is_private", "constraint_hash_match", "task_deadline"} ELSE {})
    \cup (IF p \in {"claim", "binding", "nullifier", "done"}
          THEN {"competitive_not_won"} \ Overlooked ELSE {})
    \cup (IF p \in {"binding", "nullifier", "done"}
          THEN {"claim_exists", "claim_not_completed", "claim_not_expired"} ELSE {})
    \cup (IF p \in {"nullifier", "done"} THEN {"binding_not_spent"} ELSE {})
    \cup (IF p = "done" THEN {"nullifier_not_spent"} ELSE {})

(* A problem that lasts is found, at the latest, when its check is made.     *)
LastingInv ==
    always => /\ phase # "idle"
              /\ Running => ~Satisfied(watched)
              /\ phase = "zk" /\ watched = "task_in_progress" => task1 # "InProgress"
              /\ watched \in Made(phase) => failures # {}

(***************************************************************************)
(* ProblemsNeverPass holds of every run.                                   *)
(***************************************************************************)
THEOREM PreflightProblemsNeverPass == Spec => []ProblemsNeverPass
<1>1. Init => LastingInv
  BY DEF Init, LastingInv
<1>2. TypeOK /\ MomentInv /\ LastingInv /\ [Next]_vars => LastingInv'
  <2> SUFFICES ASSUME TypeOK, MomentInv, LastingInv, [Next]_vars PROVE LastingInv'
    OBVIOUS
  <2>1. CASE UNCHANGED vars
    <3>1. Satisfied(watched)' = Satisfied(watched)
      BY <2>1, ReadsMoveNothing DEF vars, runVars, historyVars
    <3> QED
      BY <2>1, <3>1 DEF vars, chainVars, runVars, historyVars, LastingInv, Running, Made,
                        Overlooked
  <2>2. CASE Begin
    <3>1. Satisfied(watched)' = Satisfied(watched)
      BY <2>2, ReadsMoveNothing DEF Begin
    <3>2. phase' = "task" /\ always' = ~Satisfied(watched)
      BY <2>2 DEF Begin
    <3>3. Made(phase') = {}
      BY <3>2 DEF Made
    <3>4. Made(phase)' = Made(phase')
      BY <2>2 DEF Begin, Made, Overlooked, chainVars
    <3> QED
      BY <3>1, <3>2, <3>3, <3>4 DEF LastingInv
  <2>3. CASE Read
    <3> SUFFICES ASSUME always' PROVE LastingInv'
      BY DEF LastingInv
    <3>1. always /\ UNCHANGED watched /\ Running
      BY <2>3 DEF Read, ReadTask, ReadZk, ReadRawTask, ReadClaim, ReadClaimThrows,
                  ReadBindingSpend, ReadNullifierSpend, ReadThrows, Reads, historyVars,
                  Running, Reading
    <3>2. ~Satisfied(watched) /\ watched \in ChainCheck
      BY <3>1 DEF LastingInv, TypeOK
    <3>3. Satisfied(watched)' = Satisfied(watched) /\ phase' # "idle" /\ UNCHANGED terms
      <4>1. UNCHANGED <<chainVars, now, payload, watched>> /\ phase' # "idle"
        BY <2>3 DEF Read, ReadTask, ReadZk, ReadRawTask, ReadClaim, ReadClaimThrows,
                    ReadBindingSpend, ReadNullifierSpend, ReadThrows, Reads, historyVars
      <4> QED
        BY <4>1, ReadsMoveNothing DEF chainVars
    <3>4. SUFFICES /\ phase' = "zk" /\ watched = "task_in_progress" => task1' # "InProgress"
                   /\ watched \in Made(phase') => failures' # {}
      BY <3>1, <3>2, <3>3 DEF LastingInv, Made, Overlooked
    <3>5. CASE ReadTask
      <4>1. task = "missing" => failures' # {}
        BY <3>5 DEF ReadTask, Reads
      <4>2. task # "missing" => phase' = "zk" /\ watched # "task_exists"
        BY <3>2, <3>5 DEF ReadTask, Reads, Satisfied
      <4>3. watched = "task_in_progress" => task1' # "InProgress"
        BY <3>2, <3>5 DEF ReadTask, Satisfied
      <4> QED
        BY <4>1, <4>2, <4>3 DEF Made
    <3>6. ASSUME NEW account \in Reading \ {"task"}, NEW found, NEW next,
                 Reads(account, found, next), next # "zk"
          PROVE  /\ phase = account /\ phase' = next /\ phase' # "zk"
                 /\ failures' = failures \cup found
                 /\ watched \in Made(phase) => failures' # {}
                 /\ failures' = {} => payload \subseteq {"constraint_hash_match"}
                 /\ account # "zk" /\ failures' = {} => payload = {}
      <4>1. phase = account /\ phase' = next /\ failures' = failures \cup found
        BY <3>6 DEF Reads
      <4> QED
        BY <3>1, <3>6, <4>1 DEF MomentInv, PayloadInv, LastingInv, Reading
    <3>7. CASE ReadZk
      <4>1. phase = "zk" /\ phase' = "raw"
            /\ failures' = failures \cup (ZkFailures \cup TaskFailures(task1))
            /\ (watched \in Made(phase) => failures' # {})
            /\ (failures' = {} => payload \subseteq {"constraint_hash_match"})
        BY <3>7, <3>6 DEF ReadZk, Reading
      <4>2. ASSUME failures' = {} PROVE watched \notin Made("raw")
        <5>1. zk = ProofImage /\ task1 = "InProgress" /\ terms.private /\ payload = {}
              /\ ~Passed(terms.deadline)
          BY <4>1, <4>2, NothingFound
        <5>2. ProofImage # NoImage
          BY PreflightAssumption
        <5>3. watched # "task_in_progress"
          BY <3>1, <4>1, <5>1 DEF LastingInv
        <5>4. watched \notin {"zk_config_exists", "trusted_image_id", "task_is_private",
                              "constraint_hash_match", "task_deadline"}
          BY <3>2, <5>1, <5>2 DEF Satisfied
        <5>5. watched # "task_exists"
          BY <4>1, <4>2 DEF Made
        <5> QED
          BY <5>3, <5>4, <5>5 DEF Made
      <4> QED
        BY <4>1, <4>2
    <3>8. CASE ReadRawTask
      <4>1. phase = "raw" /\ phase' = "claim" /\ failures' = failures \cup CompetitiveFailures
            /\ (watched \in Made(phase) => failures' # {}) /\ (failures' = {} => payload = {})
        BY <3>8, <3>6 DEF ReadRawTask, Reading
      <4>2. ASSUME failures' = {}
            PROVE  watched # "competitive_not_won" \/ watched \in Overlooked
        <5>1. CASE terms.taskType.as = "number"
          BY <3>2, <4>1, <4>2, <5>1, NothingFound DEF Satisfied, toNumber
        <5>2. CASE terms.taskType.as = "object"
          BY <5>2 DEF Overlooked
        <5> QED
          BY <5>1, <5>2, OneOfTwoDecodings
      <4> QED
        BY <4>1, <4>2 DEF Made
    <3>9. CASE ReadClaim
      <4>1. phase = "claim" /\ phase' = "binding" /\ failures' = failures \cup ClaimFailures
            /\ (watched \in Made(phase) => failures' # {}) /\ (failures' = {} => payload = {})
        BY <3>9, <3>6 DEF ReadClaim, Reading
      <4>2. ASSUME failures' = {}
            PROVE  watched \notin {"claim_exists", "claim_not_completed", "claim_not_expired"}
        <5>1. claim.status \notin {"none", "completed"} /\ ~Passed(claim.expires)
          BY <4>1, <4>2, NothingFound
        <5> QED
          BY <3>2, <5>1 DEF Satisfied
      <4> QED
        BY <4>1, <4>2 DEF Made
    <3>10. CASE ReadClaimThrows
      BY <3>10 DEF ReadClaimThrows, Reads
    <3>11. CASE ReadBindingSpend
      <4>1. /\ phase = "binding" /\ phase' = "nullifier"
            /\ failures' = failures \cup
                 (IF "binding_seed_length" \in payload THEN {} ELSE SpendFailures("binding"))
            /\ (watched \in Made(phase) => failures' # {}) /\ (failures' = {} => payload = {})
        BY <3>11, <3>6 DEF ReadBindingSpend, Reading
      <4>2. ASSUME failures' = {} PROVE watched # "binding_not_spent"
        BY <3>2, <4>1, <4>2, NothingFound DEF Satisfied
      <4> QED
        BY <4>1, <4>2 DEF Made
    <3>12. CASE ReadNullifierSpend
      <4>1. /\ phase = "nullifier" /\ phase' = "done"
            /\ failures' = failures \cup
                 (IF "nullifier_seed_length" \in payload THEN {} ELSE SpendFailures("nullifier"))
            /\ (watched \in Made(phase) => failures' # {}) /\ (failures' = {} => payload = {})
        BY <3>12, <3>6 DEF ReadNullifierSpend, Reading
      <4>2. ASSUME failures' = {} PROVE watched # "nullifier_not_spent"
        BY <3>2, <4>1, <4>2, NothingFound DEF Satisfied
      <4> QED
        BY <4>1, <4>2 DEF Made
    <3>13. CASE ReadThrows
      BY <3>13 DEF ReadThrows, Made
    <3> QED
      BY <2>3, <3>5, <3>7, <3>8, <3>9, <3>10, <3>11, <3>12, <3>13 DEF Read
  <2>4. CASE ChainStep \/ Tick
    <3>1. \E b \in BOOLEAN : Witness(b)
      BY <2>4 DEF ChainStep, MoveTask, Complete, ClaimTask, ExpireClaim, SetImage, Spend, Tick
    <3>2. UNCHANGED <<phase, task1, failures, watched>>
          /\ always' = (always /\ (Running => ~Satisfied(watched)'))
      BY <3>1 DEF Witness, runVars
    <3>3. UNCHANGED terms
      BY <2>4 DEF ChainStep, MoveTask, Complete, ClaimTask, ExpireClaim, SetImage, Spend,
                  Tick, chainVars
    <3> QED
      BY <3>2, <3>3 DEF Running, LastingInv, Made, Overlooked
  <2> QED
    BY <2>1, <2>2, <2>3, <2>4 DEF Next
<1>3. TypeOK /\ LastingInv => ProblemsNeverPass
  BY DEF LastingInv, ProblemsNeverPass, TypeOK, Made, ChainCheck
<1> QED
  BY <1>1, <1>2, <1>3, PreflightTypeCorrect, MomentInvHolds, PTL DEF Spec
=============================================================================
