---------------------------- MODULE ProofPreflight ----------------------------
(***************************************************************************)
(* One run of runProofSubmissionPreflight (src/proof-validation.ts) while  *)
(* the chain and the clock move on.                                        *)
(*                                                                         *)
(* The function reads six accounts one after the other.  No two reads see  *)
(* the chain at the same moment, the task is read twice, and what is known *)
(* of the task's state and deadline is judged only after the zkConfig read *)
(* returned:                                                               *)
(*                                                                         *)
(*   idle -> task -> zk -> raw -> claim -> binding -> nullifier -> done    *)
(*                                                                         *)
(* A read may throw; the run then ends in "threw", except for the claim.   *)
(* A payload is the set of the local checks it does not satisfy, a failure *)
(* the name of its check.  Warnings, which never make a result invalid,    *)
(* are left out.  The account states and the moves between them are those  *)
(* of the on-chain program as far as the SDK can observe them.             *)
(***************************************************************************)
EXTENDS Naturals, FiniteSets

CONSTANTS Image,         \* image ids the protocol may activate
          ProofImage,    \* proof.imageId
          Payload,       \* the payloads that may be submitted
          Terms,         \* what a task is created with and never changes
          Expiry,        \* the expirations a claim may be given, 0 for none
          MaxProofAge,   \* params.maxProofAgeMs
          MaxTime        \* bound of the clock

NoImage == "none"

PayloadCheck == {"seal_length", "trusted_selector", "journal_length",
                 "image_id_length", "binding_seed_length",
                 "nullifier_seed_length", "commitment_nonzero",
                 "binding_nonzero", "nullifier_nonzero", "binding_entropy",
                 "nullifier_entropy", "journal_task_match",
                 "journal_authority_match", "binding_seed_match",
                 "nullifier_seed_match", "constraint_hash_match"}
ChainCheck == {"task_exists", "zk_config_exists", "trusted_image_id",
               "task_in_progress", "task_is_private", "constraint_hash_match",
               "task_deadline", "competitive_not_won", "claim_exists",
               "claim_not_completed", "claim_not_expired",
               "binding_not_spent", "nullifier_not_spent"}
Check == PayloadCheck \cup ChainCheck \cup {"proof_freshness"}

\* The task type as the account decoder hands it over: a number, or an object
\* such as { competitive: {} }.
TaskType == [as : {"number", "object"}, value : Nat]
Competitive == 2

ASSUME PreflightAssumption ==
    /\ NoImage \notin Image
    /\ ProofImage \in Image
    /\ Payload \subseteq SUBSET PayloadCheck
    /\ Terms \subseteq [private : BOOLEAN, taskType : TaskType, deadline : Nat]
    /\ Expiry \subseteq Nat
    /\ MaxProofAge \in Nat
    /\ MaxTime \in Nat

\* The preflight asks of a task only whether it is in progress: "other" stands
\* for open, pending validation, disputed, completed and cancelled.
TaskState == {"InProgress", "other"}
Claim == [status : {"none", "live", "completed"}, expires : Expiry \cup {0}]
Reading == {"task", "zk", "raw", "claim", "binding", "nullifier"}

VARIABLES
    task,       \* chain: the task account, "missing" until it is created
    terms,      \* chain: the terms of the task
    won,        \* chain: task.completions > 0
    claim,      \* chain: the claim account of this worker
    zk,         \* chain: zkConfig.activeImageId
    spent,      \* chain: which of the two spend accounts exist
    now,        \* Date.now(), from the moment the proof was generated
    phase,      \* the account the run reads next
    payload,    \* params.proof
    task1,      \* the state the first task read returned
    failures,   \* the checks that failed so far
    watched,    \* history: one check of the chain, whichever
    seen,       \* history: it was not satisfied at some moment of the run
    always,     \* history: it was not satisfied at any moment of the run
    moment,     \* history: Acceptable when task1 was read
    disturbed   \* history: since then zkConfig was set or the task was claimed

chainVars == <<task, terms, won, claim, zk, spent>>
runVars == <<phase, payload, task1, failures>>
historyVars == <<watched, seen, always, moment, disturbed>>
vars == <<chainVars, now, runVars, historyVars>>

Running == phase \in Reading

If(condition, check) == IF condition THEN {check} ELSE {}

\* Whatever is neither a number nor a BN counts as 0.
toNumber(raw) == IF raw.as = "number" THEN raw.value ELSE 0

-----------------------------------------------------------------------------
(* The checks of the payload.                                              *)

JournalFailures(p) ==
    (p \cap {"commitment_nonzero", "binding_nonzero", "nullifier_nonzero",
             "journal_task_match", "journal_authority_match"})
    \cup (IF "binding_nonzero" \in p THEN {} ELSE p \cap {"binding_entropy"})
    \cup (IF "nullifier_nonzero" \in p THEN {} ELSE p \cap {"nullifier_entropy"})
    \cup (IF "binding_seed_length" \in p THEN {} ELSE p \cap {"binding_seed_match"})
    \cup (IF "nullifier_seed_length" \in p THEN {} ELSE p \cap {"nullifier_seed_match"})

ShapeFailures(p) ==
    (p \cap {"seal_length", "journal_length", "image_id_length",
             "binding_seed_length", "nullifier_seed_length"})
    \cup (IF "seal_length" \in p THEN {} ELSE p \cap {"trusted_selector"})
    \cup (IF "journal_length" \in p THEN {} ELSE JournalFailures(p))

FreshnessFailures(dated) == If(dated /\ now > MaxProofAge, "proof_freshness")

\* What toFixedBytes and validateRisc0PayloadShape ask for before a submission.
SubmitShapeOK(p) ==
    p \cap {"seal_length", "journal_length", "image_id_length",
            "binding_seed_length", "nullifier_seed_length", "trusted_selector"} = {}

-----------------------------------------------------------------------------
(* The checks of the chain, each on the one account it reads.              *)

Passed(deadline) == deadline > 0 /\ now > deadline

ZkFailures ==
    IF zk = NoImage THEN {"zk_config_exists"}
    ELSE If("image_id_length" \notin payload /\ zk # ProofImage, "trusted_image_id")

TaskFailures(state) ==
    If(state # "InProgress", "task_in_progress")
    \cup (IF ~terms.private THEN {"task_is_private"}
          ELSE If("journal_length" \notin payload
                      /\ "constraint_hash_match" \in payload, "constraint_hash_match"))
    \cup If(Passed(terms.deadline), "task_deadline")

\* Mutant: the outcome of a competitive task is not looked at.
CompetitiveFailuresNever == {}

CompetitiveFailures ==
    If(toNumber(terms.taskType) = Competitive /\ won, "competitive_not_won")

\* Mutant: the completed flag of the claim is ignored.
ClaimFailuresIgnoringCompletion ==
    IF claim.status = "none" THEN {"claim_exists"}
    ELSE If(Passed(claim.expires), "claim_not_expired")

ClaimFailures ==
    IF claim.status = "none" THEN {"claim_exists"}
    ELSE If(claim.status = "completed", "claim_not_completed")
         \cup If(Passed(claim.expires), "claim_not_expired")

\* Mutant: the nullifier check derives the address from the binding.
SpendFailuresSwapped(seed) ==
    If("binding" \in spent,
       IF seed = "binding" THEN "binding_not_spent" ELSE "nullifier_not_spent")

SpendFailures(seed) ==
    If(seed \in spent,
       IF seed = "binding" THEN "binding_not_spent" ELSE "nullifier_not_spent")

-----------------------------------------------------------------------------
(* What the program asks of a submission, check by check.                  *)

Satisfied(check) ==
    CASE check = "task_exists"           -> task # "missing"
      [] check = "zk_config_exists"      -> zk # NoImage
      [] check = "trusted_image_id"      -> zk = ProofImage
      [] check = "task_in_progress"      -> task = "InProgress"
      [] check = "task_is_private"       -> terms.private
      [] check = "constraint_hash_match" -> check \notin payload
      [] check = "task_deadline"         -> ~Passed(terms.deadline)
      [] check = "competitive_not_won"   -> ~(terms.taskType.value = Competitive /\ won)
      [] check = "claim_exists"          -> claim.status # "none"
      [] check = "claim_not_completed"   -> claim.status # "completed"
      [] check = "claim_not_expired"     -> ~Passed(claim.expires)
      [] check = "binding_not_spent"     -> "binding" \notin spent
      [] check = "nullifier_not_spent"   -> "nullifier" \notin spent

\* Of a task type that comes as an object the preflight cannot tell that the
\* task is competitive.
Overlooked == IF terms.taskType.as = "object" THEN {"competitive_not_won"} ELSE {}

Acceptable ==
    payload = {} /\ \A check \in ChainCheck \ Overlooked : Satisfied(check)

-----------------------------------------------------------------------------
TypeOK == /\ task \in TaskState \cup {"missing"}
          /\ terms \in Terms
          /\ won \in BOOLEAN
          /\ claim \in Claim
          /\ zk \in Image \cup {NoImage}
          /\ spent \subseteq {"binding", "nullifier"}
          /\ now \in Nat
          /\ phase \in Reading \cup {"idle", "done", "threw"}
          /\ payload \in Payload
          /\ task1 \in TaskState \cup {"missing"}
          /\ phase \in Reading \ {"task"} => task1 \in TaskState
          /\ failures \subseteq Check
          /\ watched \in ChainCheck
          /\ seen \in BOOLEAN
          /\ always \in BOOLEAN
          /\ moment \in BOOLEAN
          /\ disturbed \in BOOLEAN

Init == /\ task = "missing"
        /\ terms \in Terms
        /\ won = FALSE
        /\ claim = [status |-> "none", expires |-> 0]
        /\ zk = NoImage
        /\ spent = {}
        /\ now = 1
        /\ phase = "idle"
        /\ payload \in Payload
        /\ task1 = "missing"
        /\ failures = {}
        /\ watched \in ChainCheck
        /\ seen = FALSE
        /\ always = FALSE
        /\ moment = FALSE
        /\ disturbed = FALSE

-----------------------------------------------------------------------------
(* The run.                                                                *)

\* The payload and, if proofGeneratedAtMs was given, its age are checked before
\* the first read.
Begin ==
    /\ phase = "idle"
    /\ phase' = "task"
    /\ \E dated \in BOOLEAN :
          failures' = ShapeFailures(payload) \cup FreshnessFailures(dated)
    /\ seen' = ~Satisfied(watched)
    /\ always' = ~Satisfied(watched)
    /\ UNCHANGED <<chainVars, now, payload, task1, watched, moment, disturbed>>

\* One read answered: the failures it shows, and the next account to read.
Reads(account, found, next) ==
    /\ phase = account
    /\ failures' = failures \cup found
    /\ phase' = next
    /\ UNCHANGED <<chainVars, now, payload, watched, seen, always>>

\* Mutant: the early return for a missing task is dropped.
ReadTaskUnchecked ==
    /\ Reads("task", If(task = "missing", "task_exists"), "zk")
    /\ task1' = task
    /\ moment' = Acceptable
    /\ disturbed' = FALSE

\* getTask: without a task nothing else is read.
ReadTask ==
    /\ IF task = "missing" THEN Reads("task", {"task_exists"}, "done")
                           ELSE Reads("task", {}, "zk")
    /\ task1' = task
    /\ moment' = Acceptable
    /\ disturbed' = FALSE

\* getZkConfig; then the state of the first read is judged by today's clock.
ReadZk == /\ Reads("zk", ZkFailures \cup TaskFailures(task1), "raw")
          /\ UNCHANGED <<task1, moment, disturbed>>

\* The second fetch of the task account.
ReadRawTask == /\ Reads("raw", CompetitiveFailures, "claim")
               /\ UNCHANGED <<task1, moment, disturbed>>

ReadClaim == /\ Reads("claim", ClaimFailures, "binding")
             /\ UNCHANGED <<task1, moment, disturbed>>

\* Any error of the claim read is taken for a missing account.
ReadClaimThrows == /\ Reads("claim", {"claim_exists"}, "binding")
                   /\ UNCHANGED <<task1, moment, disturbed>>

\* A spend account is read only when the seed has the right length.
ReadBindingSpend ==
    /\ Reads("binding",
             IF "binding_seed_length" \in payload THEN {} ELSE SpendFailures("binding"),
             "nullifier")
    /\ UNCHANGED <<task1, moment, disturbed>>

ReadNullifierSpend ==
    /\ Reads("nullifier",
             IF "nullifier_seed_length" \in payload THEN {} ELSE SpendFailures("nullifier"),
             "done")
    /\ UNCHANGED <<task1, moment, disturbed>>

\* The account is there but the node does not answer; or, for the second read
\* of the task, whatever went wrong.
ReadThrows ==
    /\ Running /\ phase # "claim"
    /\ phase' = "threw"
    /\ UNCHANGED <<chainVars, now, payload, task1, failures, historyVars>>

Read == \/ ReadTask \/ ReadZk \/ ReadRawTask \/ ReadClaim \/ ReadClaimThrows
        \/ ReadBindingSpend \/ ReadNullifierSpend \/ ReadThrows

-----------------------------------------------------------------------------
(* The chain, moved by others and by other sessions of this worker.        *)

\* A step of the chain or of the clock, before or while the checks run.
Witness(disturbing) ==
    /\ phase \notin {"done", "threw"}
    /\ UNCHANGED <<runVars, watched, moment>>
    /\ seen' = (seen \/ (Running /\ ~Satisfied(watched)'))
    /\ always' = (always /\ (Running => ~Satisfied(watched)'))
    /\ disturbed' = (disturbed \/ disturbing)

\* Whatever happens to the task apart from claims and completions: creation,
\* validation, dispute, cancellation, and the ways back to work.
MoveTask ==
    /\ task' \in TaskState \ {task}
    /\ UNCHANGED <<terms, won, claim, zk, spent, now>>
    /\ Witness(FALSE)

\* A completion, by another's claim or by this worker's, of this payload or of
\* another proof for the same claim.
Complete ==
    /\ task = "InProgress"
    /\ task' \in TaskState
    /\ won' = TRUE
    /\ \/ /\ claim.status = "live"
          /\ claim' = [status |-> "completed", expires |-> claim.expires]
          /\ spent' \in {spent, {"binding", "nullifier"}}
       \/ UNCHANGED <<claim, spent>>
    /\ UNCHANGED <<terms, zk, now>>
    /\ Witness(FALSE)

ClaimTask ==
    /\ task # "missing"
    /\ claim.status = "none"
    /\ \E e \in Expiry : /\ ~Passed(e)
                         /\ claim' = [status |-> "live", expires |-> e]
    /\ task' = "InProgress"
    /\ UNCHANGED <<terms, won, zk, spent, now>>
    /\ Witness(TRUE)

ExpireClaim ==
    /\ claim.status = "live"
    /\ Passed(claim.expires)
    /\ claim' = [status |-> "none", expires |-> 0]
    /\ UNCHANGED <<task, terms, won, zk, spent, now>>
    /\ Witness(FALSE)

\* initializeZkConfig and updateZkImageId
SetImage ==
    /\ zk' \in Image
    /\ UNCHANGED <<task, terms, won, claim, spent, now>>
    /\ Witness(TRUE)

\* The binding or the nullifier is spent by a completion of another task.
Spend ==
    /\ \E seed \in {"binding", "nullifier"} : spent' = spent \cup {seed}
    /\ UNCHANGED <<task, terms, won, claim, zk, now>>
    /\ Witness(FALSE)

Tick ==
    /\ now < MaxTime
    /\ now' = now + 1
    /\ UNCHANGED chainVars
    /\ Witness(FALSE)

ChainStep == MoveTask \/ Complete \/ ClaimTask \/ ExpireClaim \/ SetImage \/ Spend

Next == Begin \/ Read \/ ChainStep \/ Tick

Spec == Init /\ [][Next]_vars

-----------------------------------------------------------------------------
(***************************************************************************)
(* No failure is an artefact of the reads being apart: what a check says   *)
(* of the chain was so at some moment of the run, even where it joins an   *)
(* old reading with a new one.  The one exception is claim_exists.         *)
(***************************************************************************)
FailuresWereReal == watched \in failures /\ watched # "claim_exists" => seen

(***************************************************************************)
(* A problem that is there from the beginning of the run to its end never  *)
(* passes, whatever else changes and whichever checks are skipped; except  *)
(* a competition that is lost, when the task type is decoded as an object: *)
(* validateCompetitiveOutcome then never finds it.                         *)
(***************************************************************************)
ProblemsNeverPass ==
    phase = "done" /\ always /\ watched \notin Overlooked => failures # {}

(***************************************************************************)
(* A valid result is not a patchwork of moments: unless the image was set  *)
(* or the task claimed while the checks ran, there was one moment, that of *)
(* the first read, at which the program would have accepted the payload;   *)
(* or would have but for a competition already lost, when the task type is *)
(* decoded as an object.                                                   *)
(***************************************************************************)
ValidHadItsMoment ==
    phase = "done" /\ failures = {} /\ ~disturbed => moment

(***************************************************************************)
(* "Claim account not found for worker/task pair" means what it says.  The *)
(* read is wrapped in a catch that takes every error for a missing account,*)
(* so it does not.                                                         *)
(***************************************************************************)
ClaimReportedMissingWasMissing ==
    watched = "claim_exists" /\ watched \in failures => seen
=============================================================================
