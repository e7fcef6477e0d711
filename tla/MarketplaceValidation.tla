------------------------- MODULE MarketplaceValidation -------------------------
(***************************************************************************)
(* The combined devnet validation (scripts/devnet-marketplace-e2e.mjs and   *)
(* the dispute script it spawns).                                           *)
(*                                                                         *)
(* One initial run goes through three phases and writes a report.  The     *)
(* dispute phase usually cannot end: voting lasts a day, so it leaves an    *)
(* artifact behind and the phase is "deferred".  Later runs resume the      *)
(* report: each reads it, lets the dispute script look at the dispute and   *)
(* resolve it, and writes the whole report back.  Any number of resumes may *)
(* run at once; meanwhile the chain moves, and a read, a transaction or the *)
(* process may fail.  What the scripts print is modelled by the outcome the *)
(* runner reads from it, temporary files are assumed to stay.               *)
(***************************************************************************)
EXTENDS Naturals

CONSTANTS Resumer,     \* the resumes that may run at the same time
          MaxFaults    \* bound on what goes wrong while resuming

ASSUME ValidationAssumption == MaxFaults \in Nat

PhaseStatus == {"passed", "failed"}
DisputePhase == {"passed", "failed", "deferred", "already-resolved"}
DisputeStatus == {"none", "Active", "Resolved", "Expired", "Cancelled"}

\* What later runs need of a report; the paths are there or null.
Report == [deep : PhaseStatus, bid : PhaseStatus, disputes : DisputePhase,
           bidArtifact : BOOLEAN, resumePath : BOOLEAN]

Blank == [deep |-> "failed", bid |-> "failed", disputes |-> "failed",
          bidArtifact |-> FALSE, resumePath |-> FALSE]

VARIABLES
    dispute,      \* chain: the status of the dispute
    voting,       \* chain: the voting deadline has not passed
    deepDone,     \* history: the deep suite came to its end
    bidSettled,   \* history: an accepted bid was settled on chain
    disputeFile,  \* the dispute artifact was written
    file,         \* the report file: "none", "written", or "torn"
    report,       \* its content, once written
    stage,        \* what the initial run does next
    draft,        \* the report it is putting together
    pc,           \* what each resume does next
    copy,         \* the report as each resume read it
    saw,          \* the dispute as each resume's script read it
    outcome,      \* how each resume's script ended
    faults        \* how much has gone wrong while resuming

chainVars == <<dispute, voting, bidSettled>>
initialVars == <<stage, draft, deepDone, disputeFile>>
resumeVars == <<pc, copy, saw, outcome>>
reportVars == <<file, report>>
vars == <<chainVars, initialVars, reportVars, resumeVars, faults>>

Written == file = "written"

\* overallStatusFromReport
Overall(r) ==
    IF "failed" \in {r.deep, r.bid, r.disputes} THEN "failed"
    ELSE IF r.disputes = "deferred" THEN "deferred"
    ELSE "passed"

TypeOK == /\ dispute \in DisputeStatus
          /\ voting \in BOOLEAN
          /\ deepDone \in BOOLEAN
          /\ bidSettled \in BOOLEAN
          /\ disputeFile \in BOOLEAN
          /\ file \in {"none", "written", "torn"}
          /\ report \in Report
          /\ stage \in {"deep", "bid", "disputes", "voted", "write", "end"}
          /\ draft \in Report
          /\ pc \in [Resumer -> {"idle", "look", "judge", "wait", "resolve",
                                 "verify", "write"}]
          /\ copy \in [Resumer -> Report]
          /\ \A p \in Resumer : pc[p] # "idle" => copy[p].resumePath
          /\ saw \in [Resumer -> DisputeStatus]
          /\ outcome \in [Resumer -> DisputePhase]
          /\ faults \in 0 .. MaxFaults

Init == /\ dispute = "none"
        /\ voting = FALSE
        /\ deepDone = FALSE
        /\ bidSettled = FALSE
        /\ disputeFile = FALSE
        /\ file = "none"
        /\ report = Blank
        /\ stage = "deep"
        /\ draft = Blank
        /\ pc = [p \in Resumer |-> "idle"]
        /\ copy = [p \in Resumer |-> Blank]
        /\ saw = [p \in Resumer |-> "none"]
        /\ outcome = [p \in Resumer |-> "failed"]
        /\ faults = 0

-----------------------------------------------------------------------------
(* The initial run.                                                        *)

\* The suite must come to its end and the process must exit with 0.
RunDeep ==
    /\ stage = "deep"
    /\ \E done, exit0 \in BOOLEAN :
          /\ exit0 => done
          /\ deepDone' = done
          /\ draft' = [draft EXCEPT !.deep = IF exit0 THEN "passed" ELSE "failed"]
    /\ stage' = "bid"
    /\ UNCHANGED <<chainVars, disputeFile, reportVars, resumeVars, faults>>

\* The script announces its artifact once its last assertion holds.  With an
\* artifact that can be read, a non-zero exit is taken for noise.
RunBid ==
    /\ stage = "bid"
    /\ \E settled, announced, exit0, readable \in BOOLEAN :
          /\ announced => settled
          /\ exit0 => announced
          /\ bidSettled' = settled
          /\ draft' = [draft EXCEPT
                !.bid = IF exit0 \/ (announced /\ readable) THEN "passed" ELSE "failed",
                !.bidArtifact = announced]
    /\ stage' = "disputes"
    /\ UNCHANGED <<dispute, voting, deepDone, disputeFile, reportVars, resumeVars, faults>>

EndDisputes(status, path) ==
    /\ draft' = [draft EXCEPT !.disputes = status, !.resumePath = path]
    /\ stage' = "write"

\* Register, create, claim, initiate, vote: any of them may throw, before or
\* after there is a dispute.
Initiate ==
    /\ stage = "disputes"
    /\ \/ /\ dispute' = "Active" /\ voting' = TRUE
          /\ \/ stage' = "voted" /\ UNCHANGED draft
             \/ EndDisputes("failed", FALSE)
       \/ UNCHANGED <<dispute, voting>> /\ EndDisputes("failed", FALSE)
    /\ UNCHANGED <<bidSettled, deepDone, disputeFile, reportVars, resumeVars, faults>>

\* The deadline is further away than the script may wait.  Once the artifact is
\* announced no exit code makes a failure of it; until then, any error does.
Defer ==
    /\ stage = "voted"
    /\ voting
    /\ \/ disputeFile' = TRUE /\ EndDisputes("deferred", TRUE)
       \/ disputeFile' \in BOOLEAN /\ EndDisputes("failed", FALSE)
    /\ UNCHANGED <<chainVars, deepDone, reportVars, resumeVars, faults>>

\* What resolve_dispute does on chain, and only to an active dispute.
ResolveOnChain == ~voting /\ dispute = "Active" /\ dispute' = "Resolved"

\* The deadline was near: the script waited and resolves at once.
ResolveAtOnce ==
    /\ stage = "voted"
    /\ ~voting
    /\ \/ ResolveOnChain /\ EndDisputes("passed", FALSE)
       \/ ResolveOnChain /\ EndDisputes("failed", FALSE)
       \/ UNCHANGED dispute /\ EndDisputes("failed", FALSE)
    /\ UNCHANGED <<voting, bidSettled, deepDone, disputeFile, reportVars, resumeVars, faults>>

WriteReport ==
    /\ stage = "write"
    /\ file' = "written"
    /\ report' = draft
    /\ stage' = "end"
    /\ UNCHANGED <<chainVars, deepDone, disputeFile, draft, resumeVars, faults>>

InitialRun == \/ RunDeep \/ RunBid \/ Initiate \/ Defer \/ ResolveAtOnce \/ WriteReport

-----------------------------------------------------------------------------
(* A resume.                                                               *)

Fault == faults < MaxFaults /\ faults' = faults + 1

\* Mutant: the artifact of the bid phase is not looked for.
NormalizedBlindly(r) == [r EXCEPT !.bid = "passed"]

\* normalizeBidPhaseSummary, when the artifact can be read
Normalized(r) == IF r.bidArtifact THEN [r EXCEPT !.bid = "passed"] ELSE r

\* Mutant: a report without an artifact to resume from is resumed all the same.
ReadReportUnchecked(p) ==
    /\ pc[p] = "idle"
    /\ Written
    /\ pc' = [pc EXCEPT ![p] = "look"]
    /\ \/ copy' = [copy EXCEPT ![p] = Normalized(report)] /\ UNCHANGED faults
       \/ copy' = [copy EXCEPT ![p] = report] /\ Fault
    /\ UNCHANGED <<chainVars, initialVars, reportVars, saw, outcome>>

\* Without resume.disputeArtifactPath the resume throws, leaving no trace.
ReadReport(p) ==
    /\ pc[p] = "idle"
    /\ Written
    /\ report.resumePath
    /\ pc' = [pc EXCEPT ![p] = "look"]
    /\ \/ copy' = [copy EXCEPT ![p] = Normalized(report)] /\ UNCHANGED faults
       \/ copy' = [copy EXCEPT ![p] = report] /\ Fault
    /\ UNCHANGED <<chainVars, initialVars, reportVars, saw, outcome>>

\* getDispute, at the start and once more after the wait.
Look(p) ==
    /\ pc[p] = "look" \/ (pc[p] = "wait" /\ ~voting)
    /\ pc' = [pc EXCEPT ![p] = "judge"]
    /\ saw' = [saw EXCEPT ![p] = dispute]
    /\ UNCHANGED <<chainVars, initialVars, reportVars, copy, outcome, faults>>

\* The dispute script ends, and summarizeDisputeResult names the outcome.
Ends(p, status) ==
    /\ pc' = [pc EXCEPT ![p] = "write"]
    /\ outcome' = [outcome EXCEPT ![p] = status]
    /\ saw' = [saw EXCEPT ![p] = "none"]
    /\ UNCHANGED <<initialVars, reportVars, copy>>

\* Mutant: the line the script prints is no longer the one looked for.
StillLockedUnrecognised(p) ==
    /\ pc[p] = "judge"
    /\ voting
    /\ Ends(p, "passed")
    /\ UNCHANGED <<chainVars, faults>>

StillLocked(p) ==
    /\ pc[p] = "judge"
    /\ voting
    /\ Ends(p, "deferred")
    /\ UNCHANGED <<chainVars, faults>>

\* The deadline is near: the script waits for it and fetches the dispute again.
Wait(p) ==
    /\ pc[p] = "judge"
    /\ voting
    /\ pc' = [pc EXCEPT ![p] = "wait"]
    /\ UNCHANGED <<chainVars, initialVars, reportVars, copy, saw, outcome, faults>>

\* Mutant: the dispute is resolved whatever its status.
AlreadyMovedUnchecked(p) ==
    /\ pc[p] = "judge"
    /\ ~voting
    /\ pc' = [pc EXCEPT ![p] = "resolve"]
    /\ UNCHANGED <<chainVars, initialVars, reportVars, copy, saw, outcome, faults>>

AlreadyMoved(p) ==
    /\ pc[p] = "judge"
    /\ ~voting
    /\ saw[p] # "Active"
    /\ Ends(p, "already-resolved")
    /\ UNCHANGED <<chainVars, faults>>

StillActive(p) ==
    /\ pc[p] = "judge"
    /\ ~voting
    /\ saw[p] = "Active"
    /\ pc' = [pc EXCEPT ![p] = "resolve"]
    /\ UNCHANGED <<chainVars, initialVars, reportVars, copy, saw, outcome, faults>>

Resolve(p) ==
    /\ pc[p] = "resolve"
    /\ ResolveOnChain
    /\ pc' = [pc EXCEPT ![p] = "verify"]
    /\ UNCHANGED <<voting, bidSettled, initialVars, reportVars, copy, saw, outcome, faults>>

\* Somebody moved the dispute since it was looked at.
ResolveRefused(p) ==
    /\ pc[p] = "resolve"
    /\ dispute # "Active"
    /\ Ends(p, "failed")
    /\ UNCHANGED <<chainVars, faults>>

\* The transaction is not sent, or lands without the script hearing of it.
ResolveThrows(p) ==
    /\ pc[p] = "resolve"
    /\ Fault
    /\ ResolveOnChain \/ UNCHANGED dispute
    /\ Ends(p, "failed")
    /\ UNCHANGED <<voting, bidSettled>>

Verify(p) ==
    /\ pc[p] = "verify"
    /\ Ends(p, "passed")
    /\ UNCHANGED <<chainVars, faults>>

FetchFails(p) ==
    /\ pc[p] \in {"look", "wait", "verify"}
    /\ Fault
    /\ Ends(p, "failed")
    /\ UNCHANGED chainVars

\* The process is gone, with all it had read.
Quits(p) ==
    /\ pc' = [pc EXCEPT ![p] = "idle"]
    /\ copy' = [copy EXCEPT ![p] = Blank]
    /\ saw' = [saw EXCEPT ![p] = "none"]
    /\ outcome' = [outcome EXCEPT ![p] = "failed"]

\* Mutant: the new report keeps only an artifact the resume itself announced.
UpdatedForgettingPath(p) ==
    [copy[p] EXCEPT !.disputes = outcome[p], !.resumePath = FALSE]

Updated(p) == [copy[p] EXCEPT !.disputes = outcome[p]]

\* The report that was read is written back, whatever the file holds by now.
WriteBack(p) ==
    /\ pc[p] = "write"
    /\ file' = "written"
    /\ report' = Updated(p)
    /\ Quits(p)
    /\ UNCHANGED <<chainVars, initialVars, faults>>

\* The process dies.  The file is overwritten in place: dying in the middle of
\* that leaves a file nobody can parse.
Crash(p) ==
    /\ pc[p] # "idle"
    /\ Fault
    /\ Quits(p)
    /\ \/ pc[p] = "write" /\ file' = "torn"
       \/ UNCHANGED file
    /\ UNCHANGED <<chainVars, initialVars, report>>

ScriptStep(p) == \/ Look(p) \/ StillLocked(p) \/ Wait(p) \/ AlreadyMoved(p)
                 \/ StillActive(p) \/ Resolve(p) \/ ResolveRefused(p) \/ Verify(p)
                 \/ WriteBack(p)
FaultStep(p) == ResolveThrows(p) \/ FetchFails(p) \/ Crash(p)

-----------------------------------------------------------------------------
(* The chain.                                                              *)

VotingEnds ==
    /\ voting
    /\ voting' = FALSE
    /\ UNCHANGED <<dispute, bidSettled, initialVars, reportVars, resumeVars, faults>>

\* Others settle the dispute: the authority with the dispute artifact alone, an
\* expiry after the deadline, the initiator at any time.
OthersSettle ==
    /\ dispute = "Active"
    /\ \/ ResolveOnChain
       \/ ~voting /\ dispute' = "Expired"
       \/ dispute' = "Cancelled"
    /\ UNCHANGED <<voting, bidSettled, initialVars, reportVars, resumeVars, faults>>

-----------------------------------------------------------------------------
Next == \/ InitialRun
        \/ \E p \in Resumer : ReadReport(p) \/ ScriptStep(p) \/ FaultStep(p)
        \/ VotingEnds
        \/ OthersSettle

Spec == Init /\ [][Next]_vars

\* A report that is not settled is resumed, as the runbook says; scripts run to
\* their end; the deadline comes.
Pending == Written /\ Overall(report) # "passed"

FairSpec == /\ Spec
            /\ WF_vars(VotingEnds)
            /\ \A p \in Resumer : /\ WF_vars(Pending /\ ReadReport(p))
                                  /\ WF_vars(ScriptStep(p))

-----------------------------------------------------------------------------
(***************************************************************************)
(* A report says "passed" only of work that was done: the deep suite came  *)
(* to its end, an accepted bid was settled, and the dispute is settled.    *)
(* Reports are read, kept for as long as a script runs, and written back   *)
(* over whatever other resumes wrote in the meantime.                      *)
(***************************************************************************)
PassedReportIsEarned ==
    Written /\ Overall(report) = "passed" =>
        deepDone /\ bidSettled /\ dispute \notin {"none", "Active"}

(***************************************************************************)
(* The dispute phase "passed" means resolved, not just settled: the other  *)
(* ways to settle are told apart as "already-resolved".                    *)
(***************************************************************************)
PassedPhaseWasResolved ==
    Written /\ report.disputes = "passed" => dispute = "Resolved"

(***************************************************************************)
(* A deferred report can be resumed: it names an artifact, which exists.   *)
(***************************************************************************)
DeferredIsResumable ==
    Written /\ Overall(report) = "deferred" => report.resumePath /\ disputeFile

(***************************************************************************)
(* A deferred report becomes a passed one, in spite of some failures and   *)
(* of resumes that undo each other's report, unless a crash tears the file *)
(* apart.  (Deferred implies that nothing else of it has failed.)          *)
(***************************************************************************)
DeferredIsSettled ==
    (Written /\ Overall(report) = "deferred") ~>
        (file = "torn" \/ (Written /\ Overall(report) = "passed"))

(***************************************************************************)
(* "Final dispute resolution when a deferred artifact is resumed later" is *)
(* what the runner says it validates.  A dispute that expired or was       *)
(* cancelled counts as well.                                               *)
(***************************************************************************)
PassedReportWasResolved ==
    Written /\ Overall(report) = "passed" => dispute = "Resolved"
=============================================================================
