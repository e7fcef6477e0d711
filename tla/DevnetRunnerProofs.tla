--------------------------- MODULE DevnetRunnerProofs ---------------------------
(***************************************************************************)
(* Theorems about three of the runners under scripts/:                     *)
(*                                                                         *)
(*   the marketplace validation's reports, for any number of overlapping   *)
(*   resumes and of faults;                                                *)
(*                                                                         *)
(*   the reputation run, for any number of processes that resume it and    *)
(*   any locks (RepInv: what a resumed run knows at each stage, and that   *)
(*   the chain only gives back);                                           *)
(*                                                                         *)
(*   the deep run, for any number of transactions adrift (DeepInv: how far *)
(*   the script is, what the chain then holds unless something went wrong, *)
(*   and that the finally block will see to whatever is left).             *)
(***************************************************************************)
EXTENDS MarketplaceValidation, MCDevnetScripts, SequenceTheorems, TLAPS

-----------------------------------------------------------------------------
(* The marketplace validation.                                             *)

(* Type correctness.                                                         *)
THEOREM ValidationTypeCorrect == Spec => []TypeOK
<1>1. Init => TypeOK
  <2> SUFFICES ASSUME Init PROVE TypeOK
    OBVIOUS
  <2>1. Blank \in Report
    BY DEF Blank, Report, PhaseStatus, DisputePhase
  <2>2. faults \in 0 .. MaxFaults
    BY ValidationAssumption DEF Init
  <2>3. draft \in Report /\ report \in Report /\ copy \in [Resumer -> Report]
    BY <2>1 DEF Init
  <2>4. \A p \in Resumer : pc[p] = "idle"
    BY DEF Init
  <2>5. /\ pc \in [Resumer -> {"idle", "look", "judge", "wait", "resolve", "verify", "write"}]
        /\ saw \in [Resumer -> DisputeStatus]
        /\ outcome \in [Resumer -> DisputePhase]
    BY DEF Init, DisputeStatus, DisputePhase
  <2> QED
    BY <2>2, <2>3, <2>4, <2>5 DEF Init, TypeOK, DisputeStatus
<1>2. TypeOK /\ [Next]_vars => TypeOK'
  <2> SUFFICES ASSUME TypeOK, [Next]_vars PROVE TypeOK'
    OBVIOUS
  <2>1. Blank \in Report
    BY DEF Blank, Report, PhaseStatus, DisputePhase
  <2>2. CASE UNCHANGED vars
    BY <2>2 DEF TypeOK, vars, chainVars, initialVars, reportVars, resumeVars
  <2>3. CASE InitialRun
    <3>1. draft' \in Report
      <4> USE DEF TypeOK, Report, PhaseStatus, DisputePhase
      <4>1. ASSUME NEW s \in DisputePhase, NEW b \in BOOLEAN, EndDisputes(s, b)
            PROVE  draft' \in Report
        BY <4>1 DEF EndDisputes
      <4>2. CASE RunDeep
        <5>1. PICK s \in PhaseStatus : draft' = [draft EXCEPT !.deep = s]
          BY <4>2 DEF RunDeep
        <5> QED
          BY <5>1
      <4>3. CASE RunBid
        <5>1. PICK s \in PhaseStatus, b \in BOOLEAN :
                  draft' = [draft EXCEPT !.bid = s, !.bidArtifact = b]
          BY <4>3 DEF RunBid
        <5> QED
          BY <5>1
      <4>4. CASE Initiate
        BY <4>4, <4>1 DEF Initiate
      <4>5. CASE Defer
        BY <4>5, <4>1 DEF Defer
      <4>6. CASE ResolveAtOnce
        BY <4>6, <4>1 DEF ResolveAtOnce
      <4>7. CASE WriteReport
        BY <4>7 DEF WriteReport
      <4> QED
        BY <2>3, <4>2, <4>3, <4>4, <4>5, <4>6, <4>7 DEF InitialRun
    <3>2. UNCHANGED <<resumeVars, faults>>
          /\ stage' \in {"deep", "bid", "disputes", "voted", "write", "end"}
          /\ dispute' \in DisputeStatus
          /\ voting' \in BOOLEAN /\ deepDone' \in BOOLEAN /\ bidSettled' \in BOOLEAN
          /\ disputeFile' \in BOOLEAN
      BY <2>3 DEF InitialRun, RunDeep, RunBid, Initiate, Defer, ResolveAtOnce, WriteReport,
                  EndDisputes, ResolveOnChain, chainVars, TypeOK, DisputeStatus
    <3>3. file' \in {"none", "written", "torn"} /\ report' \in Report
      BY <2>3 DEF InitialRun, RunDeep, RunBid, Initiate, Defer, ResolveAtOnce, WriteReport,
                  reportVars, TypeOK
    <3> QED
      BY <3>1, <3>2, <3>3 DEF TypeOK, resumeVars
  <2>4. ASSUME NEW p \in Resumer, ReadReport(p) PROVE TypeOK'
    <3>1. Normalized(report) \in Report /\ Normalized(report).resumePath = report.resumePath
      BY DEF Normalized, TypeOK, Report, PhaseStatus
    <3>2. faults' \in 0 .. MaxFaults
      BY <2>4, ValidationAssumption DEF ReadReport, Fault, TypeOK
    <3> QED
      BY <2>4, <3>1, <3>2 DEF ReadReport, TypeOK, chainVars, initialVars, reportVars
  <2>5. ASSUME NEW p \in Resumer, ScriptStep(p) PROVE TypeOK'
    <3>1. CASE Look(p)
      BY <3>1 DEF Look, TypeOK, chainVars, initialVars, reportVars
    <3>2. CASE StillLocked(p)
      BY <3>2 DEF StillLocked, Ends, TypeOK, chainVars, initialVars, reportVars,
                  DisputePhase, DisputeStatus
    <3>3. CASE Wait(p)
      BY <3>3 DEF Wait, TypeOK, chainVars, initialVars, reportVars
    <3>4. CASE AlreadyMoved(p)
      BY <3>4 DEF AlreadyMoved, Ends, TypeOK, chainVars, initialVars, reportVars,
                  DisputePhase, DisputeStatus
    <3>5. CASE StillActive(p)
      BY <3>5 DEF StillActive, TypeOK, chainVars, initialVars, reportVars
    <3>6. CASE Resolve(p)
      BY <3>6 DEF Resolve, ResolveOnChain, TypeOK, initialVars, reportVars, DisputeStatus
    <3>7. CASE ResolveRefused(p)
      BY <3>7 DEF ResolveRefused, Ends, TypeOK, chainVars, initialVars, reportVars,
                  DisputePhase, DisputeStatus
    <3>8. CASE Verify(p)
      BY <3>8 DEF Verify, Ends, TypeOK, chainVars, initialVars, reportVars,
                  DisputePhase, DisputeStatus
    <3>9. CASE WriteBack(p)
      <4>1. Updated(p) \in Report
        BY DEF Updated, TypeOK, Report
      <4> QED
        BY <3>9, <4>1, <2>1 DEF WriteBack, Quits, TypeOK, chainVars, initialVars,
                                DisputePhase, DisputeStatus
    <3> QED
      BY <2>5, <3>1, <3>2, <3>3, <3>4, <3>5, <3>6, <3>7, <3>8, <3>9 DEF ScriptStep
  <2>6. ASSUME NEW p \in Resumer, FaultStep(p) PROVE TypeOK'
    <3>1. faults' \in 0 .. MaxFaults
      BY <2>6, ValidationAssumption DEF FaultStep, ResolveThrows, FetchFails, Crash, Fault, TypeOK
    <3>2. CASE ResolveThrows(p)
      BY <3>1, <3>2 DEF ResolveThrows, Ends, ResolveOnChain, TypeOK, initialVars, reportVars,
                        DisputePhase, DisputeStatus
    <3>3. CASE FetchFails(p)
      BY <3>1, <3>3 DEF FetchFails, Ends, TypeOK, chainVars, initialVars, reportVars,
                        DisputePhase, DisputeStatus
    <3>4. CASE Crash(p)
      BY <3>1, <3>4, <2>1 DEF Crash, Quits, TypeOK, chainVars, initialVars,
                              DisputePhase, DisputeStatus
    <3> QED
      BY <2>6, <3>2, <3>3, <3>4 DEF FaultStep
  <2>7. CASE VotingEnds \/ OthersSettle
    BY <2>7 DEF VotingEnds, OthersSettle, ResolveOnChain, TypeOK, initialVars, reportVars,
                resumeVars, DisputeStatus
  <2> QED
    BY <2>2, <2>3, <2>4, <2>5, <2>6, <2>7 DEF Next
<1> QED
  BY <1>1, <1>2, PTL DEF Spec

-----------------------------------------------------------------------------
Settled == {"Resolved", "Expired", "Cancelled"}

(* What a status of the dispute phase rests on.                              *)
Backed(status) == /\ status = "passed" => dispute = "Resolved"
                  /\ status = "already-resolved" => dispute \in Settled

(* What a report rests on, in the file or in some run's memory.              *)
Earned(r) == /\ r.deep = "passed" => deepDone
             /\ r.bid = "passed" \/ r.bidArtifact => bidSettled
             /\ Backed(r.disputes)
             /\ r.resumePath => disputeFile
             /\ r.disputes = "deferred" => r.resumePath

(* How far the initial run has come.                                         *)
StageInv ==
    /\ stage = "deep" => ~deepDone /\ draft = Blank
    /\ stage \in {"deep", "bid"} => ~bidSettled
    /\ stage \in {"deep", "bid", "disputes"} => dispute = "none"
    /\ stage \in {"deep", "bid", "disputes", "voted"} =>
           ~disputeFile /\ ~draft.resumePath /\ draft.disputes = "failed"
    /\ stage = "voted" => dispute # "none"
    /\ disputeFile => dispute # "none"
    /\ file # "none" => stage = "end"

(* What each resume may rely on.                                             *)
ResumeInv ==
    \A p \in Resumer :
        /\ pc[p] # "idle" => stage = "end"
        /\ Earned(copy[p])
        /\ saw[p] \in Settled => dispute \in Settled
        /\ pc[p] \in {"judge", "resolve"} => saw[p] # "none"
        /\ pc[p] = "verify" => dispute = "Resolved"
        /\ Backed(outcome[p])

ValidationInv == StageInv /\ ResumeInv /\ Earned(draft) /\ Earned(report)

(* The past that reports rest on only grows.                                 *)
Grows == /\ deepDone => deepDone'
         /\ bidSettled => bidSettled'
         /\ disputeFile => disputeFile'
         /\ dispute \in Settled => dispute' = dispute
         /\ dispute # "none" => dispute' # "none"

LEMMA EarnedStays ==
    ASSUME Grows, NEW r, Earned(r), NEW q, q = r
    PROVE  /\ q.deep = "passed" => deepDone'
           /\ q.bid = "passed" \/ q.bidArtifact => bidSettled'
           /\ q.disputes = "passed" => dispute' = "Resolved"
           /\ q.disputes = "already-resolved" => dispute' \in Settled
           /\ q.resumePath => disputeFile'
           /\ q.disputes = "deferred" => q.resumePath
BY DEF Grows, Earned, Backed, Settled

LEMMA BackedStays ==
    ASSUME Grows, NEW s, Backed(s)
    PROVE  /\ s = "passed" => dispute' = "Resolved"
           /\ s = "already-resolved" => dispute' \in Settled
BY DEF Grows, Backed, Settled

LEMMA EveryStepGrows ==
    ASSUME TypeOK, ValidationInv, [Next]_vars
    PROVE  Grows
<1>1. CASE UNCHANGED vars
  BY <1>1 DEF vars, chainVars, initialVars, Grows
<1>2. CASE InitialRun
  <2>1. CASE RunDeep
    BY <2>1 DEF RunDeep, chainVars, Grows, ValidationInv, StageInv
  <2>2. CASE RunBid
    BY <2>2 DEF RunBid, Grows, ValidationInv, StageInv
  <2>3. CASE Initiate
    BY <2>3 DEF Initiate, Grows, ValidationInv, StageInv, Settled
  <2>4. CASE Defer
    BY <2>4 DEF Defer, chainVars, Grows, ValidationInv, StageInv
  <2>5. CASE ResolveAtOnce
    BY <2>5 DEF ResolveAtOnce, ResolveOnChain, Grows, Settled
  <2>6. CASE WriteReport
    BY <2>6 DEF WriteReport, chainVars, Grows
  <2> QED
    BY <1>2, <2>1, <2>2, <2>3, <2>4, <2>5, <2>6 DEF InitialRun
<1>3. ASSUME NEW p \in Resumer, ReadReport(p) \/ ScriptStep(p) \/ FaultStep(p)
      PROVE  Grows
  <2>1. UNCHANGED <<deepDone, bidSettled, disputeFile>>
        /\ (UNCHANGED dispute \/ ResolveOnChain)
    BY <1>3 DEF ReadReport, ScriptStep, FaultStep, Look, StillLocked, Wait, AlreadyMoved,
                StillActive, Resolve, ResolveRefused, Verify, WriteBack, ResolveThrows,
                FetchFails, Crash, Ends, chainVars, initialVars
  <2> QED
    BY <2>1 DEF Grows, ResolveOnChain, Settled
<1>4. CASE VotingEnds \/ OthersSettle
  BY <1>4 DEF VotingEnds, OthersSettle, ResolveOnChain, initialVars, Grows, Settled
<1> QED
  BY <1>1, <1>2, <1>3, <1>4 DEF Next

(* A step that leaves the initial run and the file alone keeps what they     *)
(* rest on; one that leaves a resume alone keeps what it relies on.          *)
LEMMA OthersKeep ==
    ASSUME TypeOK, ValidationInv, Grows
    PROVE  /\ UNCHANGED draft => Earned(draft)'
           /\ UNCHANGED report => Earned(report)'
           /\ UNCHANGED <<stage, draft, deepDone, disputeFile, bidSettled, file>>
                  /\ (stage \in {"deep", "bid", "disputes"} => dispute' = dispute) => StageInv'
           /\ \A p \in Resumer :
                 copy'[p] = copy[p] => Earned(copy[p])'
           /\ \A p \in Resumer :
                 outcome'[p] = outcome[p] => Backed(outcome[p])'
           /\ \A p \in Resumer :
                 saw'[p] = saw[p] => (saw[p] \in Settled => dispute \in Settled)'
<1>1. UNCHANGED draft => Earned(draft)'
  <2> SUFFICES ASSUME UNCHANGED draft PROVE Earned(draft)'
    OBVIOUS
  <2> QED
    BY EarnedStays DEF Earned, Backed, ValidationInv
<1>2. UNCHANGED report => Earned(report)'
  <2> SUFFICES ASSUME UNCHANGED report PROVE Earned(report)'
    OBVIOUS
  <2> QED
    BY EarnedStays DEF Earned, Backed, ValidationInv
<1>3. UNCHANGED <<stage, draft, deepDone, disputeFile, bidSettled, file>>
          /\ (stage \in {"deep", "bid", "disputes"} => dispute' = dispute) => StageInv'
  BY DEF StageInv, ValidationInv, Grows
<1>4. ASSUME NEW p \in Resumer, copy'[p] = copy[p] PROVE Earned(copy[p])'
  <2>1. Earned(copy[p])
    BY DEF ValidationInv, ResumeInv
  <2> QED
    BY <1>4, <2>1, EarnedStays DEF Earned, Backed
<1>5. ASSUME NEW p \in Resumer, outcome'[p] = outcome[p] PROVE Backed(outcome[p])'
  <2>1. Backed(outcome[p])
    BY DEF ValidationInv, ResumeInv
  <2> QED
    BY <1>5, <2>1, BackedStays DEF Backed
<1>6. ASSUME NEW p \in Resumer, saw'[p] = saw[p]
      PROVE (saw[p] \in Settled => dispute \in Settled)'
  BY <1>6 DEF ValidationInv, ResumeInv, Grows, Settled
<1> QED
  BY <1>1, <1>2, <1>3, <1>4, <1>5, <1>6

LEMMA ValidationInvInit == Init => ValidationInv
<1> SUFFICES ASSUME Init PROVE ValidationInv
  OBVIOUS
<1>1. Earned(Blank)
  BY DEF Earned, Backed, Blank
<1>2. StageInv
  BY DEF Init, StageInv, Blank
<1>3. ResumeInv
  BY <1>1 DEF Init, ResumeInv, Backed, Settled
<1> QED
  BY <1>1, <1>2, <1>3 DEF Init, ValidationInv

(* The initial run: no resume is under way yet, and what it enters in its    *)
(* draft it has just seen happen.                                            *)
LEMMA InitialRunKeeps ==
    ASSUME TypeOK, ValidationInv, InitialRun, Grows
    PROVE  ValidationInv'
<1> USE DEF Report, PhaseStatus, DisputePhase
<1>1. UNCHANGED resumeVars /\ (\A p \in Resumer : pc[p] # "idle" => stage' = "end")
  BY DEF InitialRun, RunDeep, RunBid, Initiate, Defer, ResolveAtOnce, WriteReport,
         ValidationInv, ResumeInv
<1>2. ResumeInv'
  <2> SUFFICES ASSUME NEW p \in Resumer
               PROVE  /\ pc'[p] # "idle" => stage' = "end"
                      /\ Earned(copy[p])'
                      /\ saw'[p] \in Settled => dispute' \in Settled
                      /\ pc'[p] \in {"judge", "resolve"} => saw'[p] # "none"
                      /\ pc'[p] = "verify" => dispute' = "Resolved"
                      /\ Backed(outcome[p])'
    BY DEF ResumeInv
  <2>1. copy'[p] = copy[p] /\ outcome'[p] = outcome[p] /\ saw'[p] = saw[p] /\ pc'[p] = pc[p]
    BY <1>1 DEF resumeVars
  <2>2. pc[p] = "verify" => dispute' = "Resolved"
    BY DEF ValidationInv, ResumeInv, Grows, Settled
  <2>3. pc[p] \in {"judge", "resolve"} => saw[p] # "none"
    BY DEF ValidationInv, ResumeInv
  <2> QED
    BY <1>1, <2>1, <2>2, <2>3, OthersKeep DEF Settled
<1>3. ASSUME NEW s \in {"passed", "failed", "deferred"}, NEW b \in BOOLEAN, EndDisputes(s, b),
             s = "passed" => dispute' = "Resolved",
             b => disputeFile', s = "deferred" => b,
             disputeFile' => dispute' # "none",
             UNCHANGED <<reportVars, deepDone, bidSettled>>, stage # "end"
      PROVE  StageInv' /\ Earned(draft)' /\ Earned(report)'
  <2>1. draft' = [draft EXCEPT !.disputes = s, !.resumePath = b] /\ stage' = "write"
    BY <1>3 DEF EndDisputes
  <2>2. /\ draft'.deep = draft.deep /\ draft'.bid = draft.bid
        /\ draft'.bidArtifact = draft.bidArtifact
        /\ draft'.disputes = s /\ draft'.resumePath = b
    BY <2>1 DEF TypeOK
  <2>3. Earned(draft)'
    BY <1>3, <2>2 DEF Earned, Backed, ValidationInv
  <2>4. StageInv'
    BY <1>3, <2>1 DEF StageInv, ValidationInv, reportVars
  <2> QED
    BY <1>3, <2>3, <2>4, OthersKeep DEF reportVars
<1>4. CASE RunDeep
  <2>1. PICK s \in PhaseStatus : /\ draft' = [draft EXCEPT !.deep = s]
                                 /\ s = "passed" => deepDone'
    BY <1>4 DEF RunDeep
  <2>2. /\ draft'.deep = s /\ draft'.bid = draft.bid
        /\ draft'.bidArtifact = draft.bidArtifact
        /\ draft'.disputes = draft.disputes /\ draft'.resumePath = draft.resumePath
    BY <2>1 DEF TypeOK
  <2>3. Earned(draft)'
    BY <1>4, <2>1, <2>2 DEF Earned, Backed, ValidationInv, RunDeep, chainVars
  <2>4. StageInv'
    BY <1>4, <2>2 DEF StageInv, ValidationInv, RunDeep, chainVars, reportVars
  <2>5. Earned(report)'
    BY <1>4, OthersKeep DEF RunDeep, reportVars
  <2> QED
    BY <1>2, <2>3, <2>4, <2>5 DEF ValidationInv
<1>5. CASE RunBid
  <2>1. PICK s \in PhaseStatus, b \in BOOLEAN :
            /\ draft' = [draft EXCEPT !.bid = s, !.bidArtifact = b]
            /\ s = "passed" \/ b => bidSettled'
    <3>1. PICK settled, announced, exit0, readable \in BOOLEAN :
              /\ announced => settled
              /\ exit0 => announced
              /\ bidSettled' = settled
              /\ draft' = [draft EXCEPT
                    !.bid = IF exit0 \/ (announced /\ readable) THEN "passed" ELSE "failed",
                    !.bidArtifact = announced]
      BY <1>5 DEF RunBid
    <3>2. CASE exit0 \/ (announced /\ readable)
      <4>1. draft' = [draft EXCEPT !.bid = "passed", !.bidArtifact = announced]
        BY <3>1, <3>2
      <4> QED
        BY <3>1, <3>2, <4>1
    <3>3. CASE ~(exit0 \/ (announced /\ readable))
      <4>1. draft' = [draft EXCEPT !.bid = "failed", !.bidArtifact = announced]
        BY <3>1, <3>3
      <4> QED
        BY <3>1, <4>1
    <3> QED
      BY <3>2, <3>3
  <2>2. /\ draft'.deep = draft.deep /\ draft'.bid = s /\ draft'.bidArtifact = b
        /\ draft'.disputes = draft.disputes /\ draft'.resumePath = draft.resumePath
    BY <2>1 DEF TypeOK
  <2>3. Earned(draft)'
    BY <1>5, <2>1, <2>2 DEF Earned, Backed, ValidationInv, RunBid
  <2>4. StageInv'
    BY <1>5, <2>2 DEF StageInv, ValidationInv, RunBid, reportVars
  <2>5. Earned(report)'
    BY <1>5, OthersKeep DEF RunBid, reportVars
  <2> QED
    BY <1>2, <2>3, <2>4, <2>5 DEF ValidationInv
<1>6. CASE Initiate
  <2>1. CASE EndDisputes("failed", FALSE)
    <3>1. ~disputeFile'
      BY <1>6 DEF Initiate, ValidationInv, StageInv
    <3> QED
      BY <1>6, <2>1, <3>1, <1>2, <1>3 DEF Initiate, ValidationInv
  <2>2. CASE dispute' = "Active" /\ stage' = "voted" /\ UNCHANGED draft
    <3>1. StageInv'
      BY <1>6, <2>2 DEF Initiate, StageInv, ValidationInv, reportVars
    <3> QED
      BY <1>6, <2>2, <3>1, <1>2, OthersKeep DEF Initiate, ValidationInv, reportVars
  <2> QED
    BY <1>6, <2>1, <2>2 DEF Initiate
<1>7. CASE Defer
  <2>1. dispute' # "none"
    BY <1>7 DEF Defer, ValidationInv, StageInv, chainVars
  <2> QED
    BY <1>7, <2>1, <1>2, <1>3 DEF Defer, ValidationInv, chainVars
<1>8. CASE ResolveAtOnce
  <2>1. ~disputeFile'
    BY <1>8 DEF ResolveAtOnce, ValidationInv, StageInv
  <2> QED
    BY <1>8, <2>1, <1>2, <1>3 DEF ResolveAtOnce, ResolveOnChain, ValidationInv
<1>9. CASE WriteReport
  <2>1. Earned(draft)' /\ report' = draft /\ draft' = draft
    BY <1>9, OthersKeep DEF WriteReport
  <2>2. Earned(report)'
    BY <2>1 DEF Earned, Backed
  <2>3. StageInv'
    BY <1>9 DEF WriteReport, StageInv, ValidationInv, chainVars
  <2> QED
    BY <1>2, <2>1, <2>2, <2>3 DEF ValidationInv
<1> QED
  BY <1>4, <1>5, <1>6, <1>7, <1>8, <1>9 DEF InitialRun

(* One resume's step: the others rely on what they relied on before.         *)
LEMMA ResumeKeeps ==
    ASSUME TypeOK, ValidationInv, Grows, NEW p \in Resumer,
           UNCHANGED <<stage, draft, deepDone, disputeFile, bidSettled>>,
           stage = "end" /\ Earned(report)',
           \A q \in Resumer \ {p} : /\ pc'[q] = pc[q] /\ copy'[q] = copy[q]
                                    /\ saw'[q] = saw[q] /\ outcome'[q] = outcome[q],
           Earned(copy[p])',
           saw'[p] \in Settled => dispute' \in Settled,
           pc'[p] \in {"judge", "resolve"} => saw'[p] # "none",
           pc'[p] = "verify" => dispute' = "Resolved",
           Backed(outcome[p])'
    PROVE  ValidationInv'
<1>1. Earned(draft)'
  BY OthersKeep
<1>2. StageInv'
  BY DEF StageInv, ValidationInv, Grows
<1>3. ASSUME NEW q \in Resumer
      PROVE  /\ pc'[q] # "idle" => stage' = "end"
             /\ Earned(copy[q])'
             /\ saw'[q] \in Settled => dispute' \in Settled
             /\ pc'[q] \in {"judge", "resolve"} => saw'[q] # "none"
             /\ pc'[q] = "verify" => dispute' = "Resolved"
             /\ Backed(outcome[q])'
  <2>1. CASE q = p
    BY <2>1
  <2>2. CASE q # p
    <3>1. pc'[q] = pc[q] /\ copy'[q] = copy[q] /\ saw'[q] = saw[q] /\ outcome'[q] = outcome[q]
      BY <2>2
    <3>2. pc[q] = "verify" => dispute' = "Resolved"
      BY DEF ValidationInv, ResumeInv, Grows, Settled
    <3>3. pc[q] \in {"judge", "resolve"} => saw[q] # "none"
      BY DEF ValidationInv, ResumeInv
    <3> QED
      BY <3>1, <3>2, <3>3, OthersKeep DEF Settled
  <2> QED
    BY <2>1, <2>2
<1> QED
  BY <1>1, <1>2, <1>3 DEF ValidationInv, ResumeInv

(* What a resume does to its own memory.                                     *)
LEMMA ResumerKeeps ==
    ASSUME TypeOK, ValidationInv, Grows, NEW p \in Resumer,
           ReadReport(p) \/ ScriptStep(p) \/ FaultStep(p)
    PROVE  ValidationInv'
<1> USE DEF Settled
<1>1. /\ UNCHANGED <<stage, draft, deepDone, disputeFile, bidSettled>>
      /\ \A q \in Resumer \ {p} : /\ pc'[q] = pc[q] /\ copy'[q] = copy[q]
                                  /\ saw'[q] = saw[q] /\ outcome'[q] = outcome[q]
  BY DEF ReadReport, ScriptStep, FaultStep, Look, StillLocked, Wait, AlreadyMoved, StillActive,
         Resolve, ResolveRefused, Verify, WriteBack, ResolveThrows, FetchFails, Crash, Ends,
         Quits, chainVars, initialVars, TypeOK
<1>2. stage = "end"
  <2>1. CASE ReadReport(p)
    BY <2>1 DEF ReadReport, Written, ValidationInv, StageInv
  <2>2. CASE ScriptStep(p) \/ FaultStep(p)
    <3>1. pc[p] # "idle"
      BY <2>2 DEF ScriptStep, FaultStep, Look, StillLocked, Wait, AlreadyMoved, StillActive,
                  Resolve, ResolveRefused, Verify, WriteBack, ResolveThrows, FetchFails, Crash
    <3> QED
      BY <3>1 DEF ValidationInv, ResumeInv
  <2> QED
    BY <2>1, <2>2
<1>3. copy'[p] = copy[p] => Earned(copy[p])'
  BY OthersKeep
<1>4. outcome'[p] = outcome[p] => Backed(outcome[p])'
  BY OthersKeep
<1>5. UNCHANGED report => Earned(report)'
  BY OthersKeep
<1>6. ASSUME NEW s \in {"failed", "deferred"}, outcome'[p] = s PROVE Backed(outcome[p])'
  BY <1>6 DEF Backed
<1>7. saw'[p] = saw[p] => (saw'[p] \in Settled => dispute' \in Settled)
  BY DEF Grows, ValidationInv, ResumeInv
<1>8. ASSUME NEW s, Ends(p, s),
             s = "passed" => dispute' = "Resolved", s = "already-resolved" => dispute' \in Settled
      PROVE  ValidationInv'
  <2>1. pc'[p] = "write" /\ outcome'[p] = s /\ saw'[p] = "none" /\ copy' = copy
        /\ report' = report
    BY <1>8 DEF Ends, reportVars, TypeOK
  <2>2. Backed(outcome[p])'
    BY <1>8, <2>1 DEF Backed
  <2> QED
    BY <1>1, <1>2, <1>3, <1>5, <2>1, <2>2, ResumeKeeps
<1>9. CASE ReadReport(p)
  <2>1. Earned(report) /\ Earned(Normalized(report))
    BY DEF ValidationInv, Earned, Normalized, TypeOK, Report
  <2>2. /\ copy'[p] = report \/ copy'[p] = Normalized(report)
        /\ pc'[p] = "look" /\ UNCHANGED <<report, saw, outcome, dispute>>
    BY <1>9 DEF ReadReport, chainVars, reportVars, TypeOK
  <2>3. Earned(copy[p])'
    BY <2>1, <2>2, EarnedStays DEF Earned, Backed
  <2> QED
    BY <1>1, <1>2, <1>4, <1>5, <1>7, <2>2, <2>3, ResumeKeeps
<1>10. CASE Look(p)
  <2>1. /\ pc'[p] = "judge" /\ saw'[p] = dispute /\ UNCHANGED <<report, copy, outcome, dispute>>
    BY <1>10 DEF Look, chainVars, reportVars, TypeOK
  <2>2. copy[p].resumePath /\ Earned(copy[p])
    BY <1>10 DEF Look, TypeOK, ValidationInv, ResumeInv
  <2>3. dispute # "none"
    BY <2>2 DEF Earned, ValidationInv, StageInv
  <2> QED
    BY <1>1, <1>2, <1>3, <1>4, <1>5, <2>1, <2>3, ResumeKeeps
<1>11. CASE StillLocked(p)
  BY <1>8, <1>11 DEF StillLocked
<1>12. CASE Wait(p)
  <2>1. pc'[p] = "wait" /\ UNCHANGED <<report, copy, saw, outcome>>
    BY <1>12 DEF Wait, reportVars, TypeOK
  <2> QED
    BY <1>1, <1>2, <1>3, <1>4, <1>5, <1>7, <2>1, ResumeKeeps
<1>13. CASE AlreadyMoved(p)
  <2>1. saw[p] # "none" /\ saw[p] \in DisputeStatus
    BY <1>13 DEF AlreadyMoved, ValidationInv, ResumeInv, TypeOK
  <2>2. dispute \in Settled /\ dispute' = dispute
    BY <1>13, <2>1 DEF AlreadyMoved, chainVars, ValidationInv, ResumeInv, DisputeStatus
  <2> QED
    BY <1>8, <1>13, <2>2 DEF AlreadyMoved
<1>14. CASE StillActive(p)
  <2>1. pc'[p] = "resolve" /\ saw[p] = "Active" /\ UNCHANGED <<report, copy, saw, outcome>>
    BY <1>14 DEF StillActive, reportVars, TypeOK
  <2> QED
    BY <1>1, <1>2, <1>3, <1>4, <1>5, <1>7, <2>1, ResumeKeeps
<1>15. CASE Resolve(p)
  <2>1. pc'[p] = "verify" /\ dispute' = "Resolved" /\ UNCHANGED <<report, copy, saw, outcome>>
    BY <1>15 DEF Resolve, ResolveOnChain, reportVars, TypeOK
  <2> QED
    BY <1>1, <1>2, <1>3, <1>4, <1>5, <1>7, <2>1, ResumeKeeps
<1>16. CASE ResolveRefused(p)
  BY <1>8, <1>16 DEF ResolveRefused
<1>17. CASE Verify(p)
  <2>1. dispute = "Resolved" /\ dispute' = dispute
    BY <1>17 DEF Verify, chainVars, ValidationInv, ResumeInv
  <2> QED
    BY <1>8, <1>17, <2>1 DEF Verify
<1>18. ASSUME Quits(p), Earned(report)' PROVE ValidationInv'
  <2>1. pc'[p] = "idle" /\ copy'[p] = Blank /\ saw'[p] = "none" /\ outcome'[p] = "failed"
    BY <1>18 DEF Quits, TypeOK
  <2>2. Earned(copy[p])'
    BY <2>1 DEF Earned, Backed, Blank
  <2> QED
    BY <1>1, <1>2, <1>6, <1>18, <2>1, <2>2, ResumeKeeps
<1>19. CASE WriteBack(p)
  <2>1. report' = Updated(p) /\ Earned(copy[p]) /\ Backed(outcome[p])
        /\ copy[p].resumePath /\ dispute' = dispute
    BY <1>19 DEF WriteBack, ValidationInv, ResumeInv, TypeOK, chainVars
  <2>2. copy[p] \in Report
    BY DEF TypeOK
  <2>3. /\ report'.deep = copy[p].deep /\ report'.bid = copy[p].bid
        /\ report'.bidArtifact = copy[p].bidArtifact
        /\ report'.disputes = outcome[p] /\ report'.resumePath
    BY <2>1, <2>2 DEF Updated, Report
  <2>4. Earned(report)'
    BY <1>1, <2>1, <2>3 DEF Earned, Backed
  <2> QED
    BY <1>18, <1>19, <2>4 DEF WriteBack
<1>20. CASE ResolveThrows(p)
  BY <1>8, <1>20 DEF ResolveThrows
<1>21. CASE FetchFails(p)
  BY <1>8, <1>21 DEF FetchFails
<1>22. CASE Crash(p)
  BY <1>5, <1>18, <1>22 DEF Crash
<1> QED
  BY <1>9, <1>10, <1>11, <1>12, <1>13, <1>14, <1>15, <1>16, <1>17, <1>19, <1>20, <1>21, <1>22
  DEF ScriptStep, FaultStep

LEMMA ValidationInvHolds == Spec => []ValidationInv
<1>1. TypeOK /\ ValidationInv /\ [Next]_vars => ValidationInv'
  <2> SUFFICES ASSUME TypeOK, ValidationInv, [Next]_vars PROVE ValidationInv'
    OBVIOUS
  <2>1. Grows
    BY EveryStepGrows
  <2>2. ASSUME UNCHANGED resumeVars, UNCHANGED <<initialVars, reportVars, bidSettled>>,
               stage \in {"deep", "bid", "disputes"} => dispute' = dispute
        PROVE  ValidationInv'
    <3>1. UNCHANGED <<stage, draft, deepDone, disputeFile, file, report, pc, copy, saw, outcome>>
      BY <2>2 DEF initialVars, reportVars, resumeVars
    <3>2. Earned(draft)' /\ Earned(report)' /\ StageInv'
      BY <2>1, <2>2, <3>1, OthersKeep
    <3>3. ASSUME NEW p \in Resumer
          PROVE  /\ pc'[p] # "idle" => stage' = "end"
                 /\ Earned(copy[p])'
                 /\ saw'[p] \in Settled => dispute' \in Settled
                 /\ pc'[p] \in {"judge", "resolve"} => saw'[p] # "none"
                 /\ pc'[p] = "verify" => dispute' = "Resolved"
                 /\ Backed(outcome[p])'
      <4>1. /\ pc[p] # "idle" => stage = "end"
            /\ pc[p] \in {"judge", "resolve"} => saw[p] # "none"
            /\ pc[p] = "verify" => dispute' = "Resolved"
        BY <2>1 DEF ValidationInv, ResumeInv, Grows, Settled
      <4> QED
        BY <2>1, <3>1, <4>1, OthersKeep DEF Settled
    <3> QED
      BY <3>2, <3>3 DEF ValidationInv, ResumeInv
  <2>3. CASE UNCHANGED vars
    BY <2>2, <2>3 DEF vars, chainVars
  <2>4. CASE VotingEnds \/ OthersSettle
    BY <2>2, <2>4 DEF VotingEnds, OthersSettle, ValidationInv, StageInv
  <2> QED
    BY <2>1, <2>3, <2>4, InitialRunKeeps, ResumerKeeps DEF Next
<1> QED
  BY <1>1, ValidationInvInit, ValidationTypeCorrect, PTL DEF Spec

-----------------------------------------------------------------------------
(***************************************************************************)
(* A report says "passed" only of work that was done.                      *)
(***************************************************************************)
THEOREM ValidationPassedIsEarned == Spec => []PassedReportIsEarned
<1>1. TypeOK /\ ValidationInv => PassedReportIsEarned
  <2> SUFFICES ASSUME TypeOK, ValidationInv, Overall(report) = "passed"
               PROVE  deepDone /\ bidSettled /\ dispute \notin {"none", "Active"}
    BY DEF PassedReportIsEarned
  <2>1. /\ report.deep = "passed" /\ report.bid = "passed"
        /\ report.disputes \in {"passed", "already-resolved"}
    BY DEF Overall, TypeOK, Report, PhaseStatus, DisputePhase
  <2> QED
    BY <2>1 DEF ValidationInv, Earned, Backed, Settled
<1> QED
  BY <1>1, ValidationInvHolds, ValidationTypeCorrect, PTL

(***************************************************************************)
(* The dispute phase "passed" means resolved.                              *)
(***************************************************************************)
THEOREM ValidationPassedPhaseWasResolved == Spec => []PassedPhaseWasResolved
<1>1. ValidationInv => PassedPhaseWasResolved
  BY DEF ValidationInv, Earned, Backed, PassedPhaseWasResolved
<1> QED
  BY <1>1, ValidationInvHolds, PTL

(***************************************************************************)
(* A deferred report can be resumed.                                       *)
(***************************************************************************)
THEOREM ValidationDeferredIsResumable == Spec => []DeferredIsResumable
<1>1. TypeOK /\ ValidationInv => DeferredIsResumable
  <2> SUFFICES ASSUME TypeOK, ValidationInv, Overall(report) = "deferred"
               PROVE  report.resumePath /\ disputeFile
    BY DEF DeferredIsResumable
  <2>1. report.disputes = "deferred"
    BY DEF Overall
  <2> QED
    BY <2>1 DEF ValidationInv, Earned
<1> QED
  BY <1>1, ValidationInvHolds, ValidationTypeCorrect, PTL

-----------------------------------------------------------------------------
(* The reputation run.                                                     *)

ResumeRecord ==
    [phase : {"idle", "reading", "revoking", "reviewing", "withdrawing", "closing"},
     tx : {"none", "sent", "landed"},
     misread : SUBSET {"delegationBefore", "stakeAfterRevoke", "finalDelegation"},
     reported : BOOLEAN]

\* Types.  What the times are makes no difference.
RepShape ==
    /\ DOMAIN repChain = {"stake", "lockedUntil", "delegated", "createdAt"}
    /\ repChain.stake \in {0, 1} /\ repChain.delegated \in BOOLEAN
    /\ DOMAIN repRun = {"phase", "maxWait", "readyAt"}
    /\ repRun.phase \in {"off", "start", "staking", "delegating", "reviewing", "deferred", "done",
                         "threw"}
    /\ resume \in [Process -> ResumeRecord]
    /\ late \subseteq {"revoking", "withdrawing"}

\* Nothing is resumed before there is an artifact.
NothingResumed ==
    repRun.phase # "deferred" => late = {} /\ \A p \in Process : resume[p] = Rep!Fresh

\* What a resumed run may rely on at each of its stages, and after it reported.
Knows(r, c) ==
    /\ r.tx # "none" => r.phase \in {"revoking", "withdrawing"}
    /\ r.phase # "idle" => ~r.reported
    /\ r.phase = "revoking" /\ r.tx = "landed" => ~c.delegated
    /\ r.phase \in {"reviewing", "withdrawing", "closing"}
           => ~c.delegated \/ "delegationBefore" \in r.misread
    /\ r.phase = "withdrawing" /\ r.tx = "landed" => c.stake = 0
    /\ r.phase = "closing" => c.stake = 0 \/ "stakeAfterRevoke" \in r.misread
    /\ r.reported => /\ ~c.delegated \/ {"delegationBefore", "finalDelegation"} \subseteq r.misread
                     /\ c.stake = 0 \/ "stakeAfterRevoke" \in r.misread

RepInv == RepShape /\ NothingResumed /\ \A p \in Process : Knows(resume[p], repChain)

LEMMA FreshKnows ==
  /\ Rep!Fresh \in ResumeRecord
  /\ \A c : Knows(Rep!Fresh, c)
BY DEF Rep!Fresh, ResumeRecord, Knows

\* What is given back stays given back, so what was known stays true.
LEMMA KnowsStays ==
  ASSUME NEW r, NEW c, NEW d, Knows(r, c),
         ~c.delegated => ~d.delegated, c.stake = 0 => d.stake = 0
  PROVE  Knows(r, d)
BY DEF Knows

\* What is executed takes something back.
LEMMA ExecuteTakesBack ==
  ASSUME RepShape, NEW op, Rep!Execute(op)
  PROVE  /\ DOMAIN repChain' = DOMAIN repChain
         /\ repChain'.stake \in {0, 1} /\ repChain'.delegated \in BOOLEAN
         /\ ~repChain.delegated => ~repChain'.delegated
         /\ repChain.stake = 0 => repChain'.stake = 0
         /\ op = "revoking" => ~repChain'.delegated
         /\ op = "withdrawing" => repChain'.stake = 0
<1>1. CASE op = "revoking" /\ Rep!revokeDelegation
  BY <1>1 DEF RepShape, Rep!revokeDelegation
<1>2. CASE op = "withdrawing" /\ Rep!withdrawReputationStake
  BY <1>2 DEF RepShape, Rep!withdrawReputationStake
<1> QED
  BY <1>1, <1>2 DEF Rep!Execute

\* A step of one resumed run, after the artifact was written.
LEMMA ResumedRunStep ==
  ASSUME RepInv, NEW p \in Process, NEW r, r \in ResumeRecord, Rep!Set(p, r),
         repRun.phase = "deferred", UNCHANGED repRun,
         late' \subseteq {"revoking", "withdrawing"},
         DOMAIN repChain' = DOMAIN repChain,
         repChain'.stake \in {0, 1}, repChain'.delegated \in BOOLEAN,
         ~repChain.delegated => ~repChain'.delegated,
         repChain.stake = 0 => repChain'.stake = 0,
         Knows(r, repChain')
  PROVE  RepInv'
<1>1. resume' = [resume EXCEPT ![p] = r] /\ resume \in [Process -> ResumeRecord]
  BY DEF Rep!Set, RepInv, RepShape
<1>2. resume' \in [Process -> ResumeRecord]
  BY <1>1
<1>3. RepShape'
  BY <1>2 DEF RepInv, RepShape
<1>4. \A q \in Process : Knows(resume'[q], repChain')
  <2> TAKE q \in Process
  <2>1. CASE q = p
    BY <2>1, <1>1
  <2>2. CASE q # p
    <3>1. resume'[q] = resume[q] /\ Knows(resume[q], repChain)
      BY <2>2, <1>1 DEF RepInv
    <3> QED
      BY <3>1, KnowsStays
  <2> QED
    BY <2>1, <2>2
<1> QED
  BY <1>3, <1>4 DEF RepInv, NothingResumed

\* Only runs that are under way take steps: there is an artifact.
LEMMA ResumedIsDeferred ==
  ASSUME RepInv, NEW p \in Process, Rep!ResumeStep(p)
  PROVE  repRun.phase = "deferred"
<1> SUFFICES ASSUME repRun.phase # "deferred" PROVE FALSE
  OBVIOUS
<1>1. resume[p].phase = "idle" /\ resume[p].tx = "none"
  BY DEF RepInv, NothingResumed, Rep!Fresh
<1> QED
  BY <1>1 DEF Rep!ResumeStep, Rep!Start, Rep!ReadBefore, Rep!ReadStake, Rep!ReadAfter, Rep!Land, Rep!Confirm,
          Rep!TxThrows, Rep!RpcLosesTx, Rep!Killed, Rep!At

LEMMA ResumeStepKeeps ==
  ASSUME RepInv, NEW p \in Process, Rep!ResumeStep(p)
  PROVE  RepInv'
<1>1. repRun.phase = "deferred"
  BY ResumedIsDeferred
<1>2. resume[p] \in ResumeRecord /\ Knows(resume[p], repChain) /\ RepShape
  BY DEF RepInv, RepShape
<1> DEFINE r == resume[p]
           stopped == [r EXCEPT !.phase = "idle", !.tx = "none"]
<1>3. stopped \in ResumeRecord /\ Knows(stopped, repChain)
  BY <1>2 DEF ResumeRecord, Knows
<1>4. Rep!Stop(p) => Rep!Set(p, stopped)
  BY DEF Rep!Stop
<1> HIDE DEF stopped
<1>5. CASE Rep!Start(p)
  <2> DEFINE s == [Rep!Fresh EXCEPT !.phase = "reading"]
  <2>1. s \in ResumeRecord /\ Knows(s, repChain)
    BY DEF Rep!Fresh, ResumeRecord, Knows
  <2>2. Rep!Set(p, s) /\ UNCHANGED <<repChain, clock, repRun, late>>
    BY <1>5 DEF Rep!Start
  <2> HIDE DEF s
  <2> QED
    BY <2>1, <2>2, <1>1, <1>2, ResumedRunStep DEF RepShape
<1>6. ASSUME NEW failed \in BOOLEAN, Rep!ReadBefore(p, failed)
      PROVE  RepInv'
  <2> DEFINE revoke == repChain.delegated /\ ~failed
             s == [r EXCEPT !.phase = IF revoke THEN "revoking" ELSE "reviewing",
                            !.tx = IF revoke THEN "sent" ELSE "none",
                            !.misread = Rep!Misread("delegationBefore", failed)]
  <2>1. r.phase = "reading" /\ UNCHANGED <<repChain, clock, repRun, late>>
    BY <1>6 DEF Rep!ReadBefore, Rep!At
  <2>2. s \in ResumeRecord /\ Knows(s, repChain)
    BY <1>2, <2>1 DEF ResumeRecord, Knows, Rep!Misread, RepShape
  <2>3. Rep!Stop(p) \/ Rep!Set(p, s)
    BY <1>6 DEF Rep!ReadBefore
  <2> HIDE DEF s
  <2> QED
    BY <2>1, <2>2, <2>3, <1>1, <1>2, <1>3, <1>4, ResumedRunStep DEF RepShape
<1>7. ASSUME NEW failed \in BOOLEAN, Rep!ReadStake(p, failed)
      PROVE  RepInv'
  <2> DEFINE withdraw == repChain.stake > 0 /\ ~failed
             s == [r EXCEPT !.phase = IF withdraw THEN "withdrawing" ELSE "closing",
                            !.tx = IF withdraw THEN "sent" ELSE "none",
                            !.misread = @ \cup Rep!Misread("stakeAfterRevoke", failed)]
  <2>1. r.phase = "reviewing" /\ UNCHANGED <<repChain, clock, repRun, late>> /\ Rep!Set(p, s)
    BY <1>7 DEF Rep!ReadStake, Rep!At
  <2>2. /\ s \in ResumeRecord /\ s.reported = r.reported
        /\ s.phase = (IF withdraw THEN "withdrawing" ELSE "closing")
        /\ s.tx = (IF withdraw THEN "sent" ELSE "none")
        /\ s.misread = r.misread \cup (IF failed THEN {"stakeAfterRevoke"} ELSE {})
    BY <1>2 DEF ResumeRecord, Rep!Misread
  <2>3. withdraw \/ failed \/ repChain.stake = 0
    BY <1>2 DEF RepShape
  <2> HIDE DEF s, withdraw
  <2>4. Knows(s, repChain)
    BY <1>2, <2>1, <2>2, <2>3 DEF Knows
  <2> QED
    BY <2>1, <2>2, <2>4, <1>1, <1>2, ResumedRunStep DEF RepShape
<1>8. ASSUME NEW failed \in BOOLEAN, Rep!ReadAfter(p, failed)
      PROVE  RepInv'
  <2> DEFINE s == [r EXCEPT !.phase = "idle", !.reported = TRUE,
                            !.misread = @ \cup Rep!Misread("finalDelegation", failed)]
  <2>1. r.phase = "closing" /\ UNCHANGED <<repChain, clock, repRun, late>>
    BY <1>8 DEF Rep!ReadAfter, Rep!At
  <2>2. Rep!Stop(p) \/ ((~repChain.delegated \/ failed) /\ Rep!Set(p, s))
    BY <1>8 DEF Rep!ReadAfter
  <2>3. ASSUME ~repChain.delegated \/ failed
        PROVE  s \in ResumeRecord /\ Knows(s, repChain)
    <3>1. /\ s \in ResumeRecord /\ s.reported = TRUE /\ s.phase = "idle" /\ s.tx = r.tx
          /\ s.misread = r.misread \cup (IF failed THEN {"finalDelegation"} ELSE {})
      BY <1>2 DEF ResumeRecord, Rep!Misread
    <3> HIDE DEF s
    <3> QED
      BY <1>2, <2>1, <2>3, <3>1 DEF Knows
  <2> HIDE DEF s
  <2> QED
    BY <2>1, <2>2, <2>3, <1>1, <1>2, <1>3, <1>4, ResumedRunStep DEF RepShape
<1>9. CASE Rep!Land(p)
  <2> DEFINE s == [r EXCEPT !.tx = "landed"]
  <2>1. r.tx = "sent" /\ Rep!Execute(r.phase) /\ Rep!Set(p, s) /\ UNCHANGED <<clock, repRun, late>>
    BY <1>9 DEF Rep!Land
  <2>2. /\ s \in ResumeRecord /\ s.phase = r.phase /\ s.tx = "landed"
        /\ s.misread = r.misread /\ s.reported = r.reported
    BY <1>2 DEF ResumeRecord
  <2>3. Knows(r, repChain')
    BY <1>2, <2>1, ExecuteTakesBack, KnowsStays
  <2>4. Knows(s, repChain')
    BY <1>2, <2>1, <2>2, <2>3, ExecuteTakesBack DEF Knows
  <2> HIDE DEF s
  <2> QED
    BY <2>1, <2>2, <2>4, <1>1, <1>2, ExecuteTakesBack, ResumedRunStep DEF RepShape
<1>10. CASE Rep!Confirm(p)
  <2> DEFINE s == [r EXCEPT !.tx = "none",
                            !.phase = IF @ = "revoking" THEN "reviewing" ELSE "closing"]
  <2>1. r.tx = "landed" /\ Rep!Set(p, s) /\ UNCHANGED <<repChain, clock, repRun, late>>
    BY <1>10 DEF Rep!Confirm
  <2>2. s \in ResumeRecord /\ Knows(s, repChain)
    BY <1>2, <2>1 DEF ResumeRecord, Knows
  <2> HIDE DEF s
  <2> QED
    BY <2>1, <2>2, <1>1, <1>2, ResumedRunStep DEF RepShape
<1>11. CASE Rep!TxThrows(p) \/ Rep!RpcLosesTx(p) \/ Rep!Killed(p)
  <2>1. Rep!Stop(p) /\ UNCHANGED <<repChain, clock, repRun>>
    BY <1>11 DEF Rep!TxThrows, Rep!RpcLosesTx, Rep!Killed
  <2>2. late' \subseteq {"revoking", "withdrawing"}
    BY <1>11, <1>2 DEF Rep!TxThrows, Rep!RpcLosesTx, Rep!Killed, RepShape, Knows
  <2> QED
    BY <2>1, <2>2, <1>1, <1>2, <1>3, <1>4, ResumedRunStep DEF RepShape
<1> QED
  BY <1>5, <1>6, <1>7, <1>8, <1>9, <1>10, <1>11 DEF Rep!ResumeStep

\* A step of the initial run: there is nothing yet that a resumed run could know.
LEMMA StakingKeeps ==
  ASSUME RepInv, repRun.phase # "deferred", UNCHANGED <<resume, late>>, RepShape'
  PROVE  RepInv'
BY FreshKnows DEF RepInv, NothingResumed

LEMMA RepStepKeeps ==
  ASSUME RepInv, Rep!RepNext
  PROVE  RepInv'
<1>1. RepShape
  BY DEF RepInv
<1>2. CASE Rep!Prepare
  BY <1>1, <1>2, StakingKeeps DEF Rep!Prepare, Rep!Fail, RepShape
<1>3. CASE Rep!StakeReputation
  BY <1>1, <1>3, StakingKeeps DEF Rep!StakeReputation, Rep!Fail, RepShape
<1>4. CASE Rep!DelegateReputation
  BY <1>1, <1>4, StakingKeeps DEF Rep!DelegateReputation, Rep!Fail, RepShape
<1>5. CASE Rep!Review
  BY <1>1, <1>5, StakingKeeps DEF Rep!Review, Rep!Fail, RepShape
<1>6. CASE Rep!Tick
  BY <1>6 DEF Rep!Tick, RepInv, RepShape, NothingResumed
<1>7. CASE Rep!LandLate
  <2>1. PICK op \in late : Rep!Execute(op) /\ late' = late \ {op} /\ UNCHANGED <<clock, repRun, resume>>
    BY <1>7 DEF Rep!LandLate
  <2>2. repRun.phase = "deferred"
    BY <2>1 DEF RepInv, NothingResumed
  <2>3. RepShape'
    BY <1>1, <2>1, ExecuteTakesBack DEF RepShape
  <2>4. \A p \in Process : Knows(resume'[p], repChain')
    BY <1>1, <2>1, ExecuteTakesBack, KnowsStays DEF RepInv
  <2> QED
    BY <2>1, <2>2, <2>3, <2>4 DEF RepInv, NothingResumed
<1>8. ASSUME NEW p \in Process, Rep!ResumeStep(p)
      PROVE  RepInv'
  BY <1>8, ResumeStepKeeps
<1> QED
  BY <1>2, <1>3, <1>4, <1>5, <1>6, <1>7, <1>8 DEF Rep!RepNext

LEMMA RepInvariant == ScriptsSpec => []RepInv
<1>1. ScriptsInit => RepInv
  <2> SUFFICES ASSUME ScriptsInit PROVE RepInv
    OBVIOUS
  <2>1. resume = [p \in Process |-> Rep!Fresh] /\ late = {}
    BY DEF ScriptsInit, Rep!RepInit, RepOff
  <2>2. RepShape
    <3>1. resume \in [Process -> ResumeRecord]
      BY <2>1, FreshKnows
    <3>2. /\ repChain = [stake |-> 0, lockedUntil |-> 0, delegated |-> FALSE, createdAt |-> 0]
          /\ \E phase, maxWait : /\ phase \in {"off", "start"}
                                 /\ repRun = [phase |-> phase, maxWait |-> maxWait, readyAt |-> 0]
      BY DEF ScriptsInit, Rep!RepInit, RepOff
    <3> QED
      BY <2>1, <3>1, <3>2 DEF RepShape
  <2> QED
    BY <2>1, <2>2, FreshKnows DEF RepInv, NothingResumed
<1>2. RepInv /\ [ScriptsNext]_scriptsVars => RepInv'
  <2> SUFFICES ASSUME RepInv, [ScriptsNext]_scriptsVars PROVE RepInv'
    OBVIOUS
  <2>1. CASE Rep!RepNext
    BY <2>1, RepStepKeeps
  <2>2. CASE UNCHANGED <<repChain, clock, repRun, resume, late>>
    BY <2>2 DEF RepInv, RepShape, NothingResumed
  <2> QED
    BY <2>1, <2>2 DEF ScriptsNext, scriptsVars
<1> QED
  BY <1>1, <1>2, PTL DEF ScriptsSpec

(***************************************************************************)
(* A resumed run whose report says that the delegation is revoked is       *)
(* wrong only when both its reads of it failed, for any number of          *)
(* processes that are killed and started again and any late transactions.  *)
(***************************************************************************)
THEOREM ReportsAreHonest == ScriptsSpec => []ReportHonest
<1>1. RepInv => ReportHonest
  BY DEF RepInv, RepShape, Knows, ResumeRecord, ReportHonest, Rep!ReportHonest
<1> QED
  BY <1>1, RepInvariant, PTL

-----------------------------------------------------------------------------
(* The deep run.                                                           *)

TaskStates == {"none", "Open", "InProgress", "Completed", "Cancelled"}

DeepChains == [agents : SUBSET Deep!Agent, tasks : [Deep!Task -> TaskStates],
               claims : [Deep!Task -> SUBSET Deep!Agent]]

Operations == {"registerAgent", "deregisterAgent", "createTask", "claimTask", "completeTask",
               "cancelTask"}

Calls == {k \in [op : Operations, agent : Deep!Agent, task : Deep!Task \cup {"none"}] :
             k.task = "none" <=> k.op \in {"registerAgent", "deregisterAgent"}}

\* The steps of the finally block.
CleanSteps == {Deep!Maybe(Deep!Call("cancelTask", "creator", t)) : t \in Deep!Task}
    \cup {Deep!Maybe(Deep!Call("deregisterAgent", a, "none")) : a \in {"creator", "worker"}}

Elements(s) == {s[i] : i \in 1 .. Len(s)}

LeftOf(c) == c.agents \cup {t \in Deep!Task : c.tasks[t] \in {"Open", "InProgress"}}

\* What is left of the script after n steps, and how many tasks these created.
Rest(n) == SubSeq(Deep!Script, n + 1, 16)

Created(n) == IF n < 5 THEN 0 ELSE IF n < 9 THEN 1 ELSE IF n < 12 THEN 2 ELSE 3

\* The chain after n steps to which the program answered as its sources do.
Sound(n) ==
    [agents |-> IF n < 2 THEN {} ELSE IF n < 3 THEN {"creator"} ELSE {"creator", "worker"},
     tasks |-> [t \in Deep!Task |->
        CASE t = "capability" -> IF n < 5 THEN "none" ELSE IF n < 8 THEN "Open" ELSE "Cancelled"
          [] t = "unclaimed" -> IF n < 9 THEN "none" ELSE IF n < 11 THEN "Open" ELSE "Cancelled"
          [] t = "happy" -> IF n < 12 THEN "none" ELSE IF n < 13 THEN "Open"
                            ELSE IF n < 15 THEN "InProgress" ELSE "Completed"
          [] OTHER -> "none"],
     claims |-> [t \in Deep!Task |-> IF t = "happy" /\ n \in 13 .. 14 THEN {"worker"} ELSE {}]]

RunFields == {"todo", "stage", "tx", "created", "mismatches", "outcome", "making", "warned",
              "trouble", "deviated", "driftMode"}

DeepShape ==
    /\ DOMAIN deepRun = RunFields
    /\ deepRun.stage \in {"try", "finally"}
    /\ deepRun.tx \in {"none", "sent", "landed"}
    /\ deepRun.outcome \in {"pending", "passed", "threw"}
    /\ deepRun.trouble \in BOOLEAN /\ deepRun.deviated \in BOOLEAN
    /\ deepChain \in DeepChains
    /\ adrift \subseteq Calls

Landed == deepRun.tx = "landed"

\* n steps are behind the run.
Position(n) ==
    /\ deepRun.todo = Rest(n)
    /\ n = 16 => deepRun.tx = "none"
    /\ deepRun.created \in Seq(Deep!Task) /\ Len(deepRun.created) = Created(n)
    /\ n >= 5 => "capability" \in Elements(deepRun.created)
    \* What an expected refusal did not refuse is noticed.
    /\ deepRun.deviated => \/ deepRun.mismatches # {}
                           \/ Landed /\ Deep!Step.kind = "expect"
    \* Nothing else has happened.
    /\ ~deepRun.deviated /\ ~deepRun.trouble
           => /\ deepRun.mismatches = {} /\ adrift = {}
              /\ ~(Landed /\ Deep!Step.kind = "expect")
              /\ deepChain = Sound(IF Landed THEN n + 1 ELSE n)
    \* What is left is known to the run.
    /\ Deep!Left \subseteq {"creator", "worker"} \cup Elements(deepRun.created)
                           \cup (IF Landed THEN Deep!Making(Deep!Step.call) ELSE {})

TryInv ==
    deepRun.stage = "try" =>
        /\ deepRun.outcome = "pending" /\ deepRun.making = {}
        /\ \A k \in adrift : k.op = "cancelTask"
        /\ \E n \in 0 .. 16 : Position(n)

GoodReasons == {"network", "WorkerAccountsRequired", "AgentHasActiveTasks"}

Explained(x) == \E name \in GoodReasons : <<x, name>> \in deepRun.warned

\* x is still to be cleared away.
Scheduled(x) == \E i \in 1 .. Len(deepRun.todo) :
                   /\ Deep!Target(deepRun.todo[i].call) = x
                   /\ ~(i = 1 /\ Landed)

FinallyInv ==
    deepRun.stage = "finally" =>
        /\ deepRun.todo \in Seq(CleanSteps) /\ Len(deepRun.todo) <= 16
        /\ deepRun.outcome # "pending"
        /\ deepRun.outcome = "passed" => ~deepRun.deviated
        /\ deepRun.outcome = "threw" => deepRun.deviated \/ deepRun.trouble
        /\ \A k \in adrift : Deep!Making(k) \subseteq deepRun.making
        /\ \A x \in Deep!Left \ deepRun.making : Scheduled(x) \/ Explained(x)

DeepOver == deepRun.stage = "off" /\ deepRun.todo = <<>> /\ deepRun.outcome = "pending" /\ adrift = {}

DeepInv == DeepOver \/ (DeepShape /\ TryInv /\ FinallyInv)

-----------------------------------------------------------------------------
(* The script.                                                             *)

LEMMA ElementOfConcat ==
  ASSUME NEW S, NEW s \in Seq(S), NEW t \in Seq(S), NEW u, u = s \o t
  PROVE  /\ u \in Seq(S)
         /\ Len(u) = Len(s) + Len(t)
         /\ \A i \in 1 .. Len(s) : u[i] = s[i]
         /\ \A i \in 1 .. Len(t) : u[Len(s) + i] = t[i]
<1>1. /\ u \in Seq(S) /\ Len(u) = Len(s) + Len(t) /\ Len(s) \in Nat /\ Len(t) \in Nat
      /\ \A i \in 1 .. Len(s) + Len(t) : u[i] = IF i <= Len(s) THEN s[i] ELSE t[i - Len(s)]
  BY ConcatProperties, LenProperties
<1>2. ASSUME NEW i \in 1 .. Len(t) PROVE u[Len(s) + i] = t[i]
  <2>1. Len(s) + i \in 1 .. Len(s) + Len(t) /\ ~(Len(s) + i <= Len(s)) /\ (Len(s) + i) - Len(s) = i
    BY <1>1
  <2> QED
    BY <1>1, <2>1
<1> QED
  BY <1>1, <1>2

Steps == { Deep!Registrations[1], Deep!Registrations[2], Deep!Registrations[3], Deep!PastDeadline[1],
           Deep!CapabilityTask[1], Deep!CapabilityTask[2], Deep!CapabilityTask[3], Deep!CapabilityTask[4],
           Deep!UnclaimedTask[1], Deep!UnclaimedTask[2], Deep!UnclaimedTask[3],
           Deep!HappyTask[1], Deep!HappyTask[2], Deep!HappyTask[3], Deep!HappyTask[4], Deep!HappyTask[5] }

LEMMA PartsOfScript ==
  /\ Deep!Registrations \in Seq(Steps) /\ Len(Deep!Registrations) = 3
  /\ Deep!PastDeadline \in Seq(Steps) /\ Len(Deep!PastDeadline) = 1
  /\ Deep!CapabilityTask \in Seq(Steps) /\ Len(Deep!CapabilityTask) = 4
  /\ Deep!UnclaimedTask \in Seq(Steps) /\ Len(Deep!UnclaimedTask) = 3
  /\ Deep!HappyTask \in Seq(Steps) /\ Len(Deep!HappyTask) = 5
<1>1. ASSUME NEW S, NEW a \in S
      PROVE  << a >> \in Seq(S) /\ Len(<< a >>) = 1
  OBVIOUS
<1>2. ASSUME NEW S, NEW a \in S, NEW b \in S, NEW c \in S
      PROVE  << a, b, c >> \in Seq(S) /\ Len(<< a, b, c >>) = 3
  OBVIOUS
<1>3. ASSUME NEW S, NEW a \in S, NEW b \in S, NEW c \in S, NEW d \in S
      PROVE  << a, b, c, d >> \in Seq(S) /\ Len(<< a, b, c, d >>) = 4
  OBVIOUS
<1>4. ASSUME NEW S, NEW a \in S, NEW b \in S, NEW c \in S, NEW d \in S, NEW e \in S
      PROVE  << a, b, c, d, e >> \in Seq(S) /\ Len(<< a, b, c, d, e >>) = 5
  OBVIOUS
<1> QED
  BY <1>1, <1>2, <1>3, <1>4
  DEF Steps, Deep!Registrations, Deep!PastDeadline, Deep!CapabilityTask, Deep!UnclaimedTask, Deep!HappyTask

LEMMA ScriptIs ==
  /\ Deep!Script \in Seq(Steps) /\ Len(Deep!Script) = 16
  /\ Deep!Script[1] = Deep!Registrations[1] /\ Deep!Script[2] = Deep!Registrations[2]
  /\ Deep!Script[3] = Deep!Registrations[3] /\ Deep!Script[4] = Deep!PastDeadline[1]
  /\ Deep!Script[5] = Deep!CapabilityTask[1] /\ Deep!Script[6] = Deep!CapabilityTask[2]
  /\ Deep!Script[7] = Deep!CapabilityTask[3] /\ Deep!Script[8] = Deep!CapabilityTask[4]
  /\ Deep!Script[9] = Deep!UnclaimedTask[1] /\ Deep!Script[10] = Deep!UnclaimedTask[2]
  /\ Deep!Script[11] = Deep!UnclaimedTask[3] /\ Deep!Script[12] = Deep!HappyTask[1]
  /\ Deep!Script[13] = Deep!HappyTask[2] /\ Deep!Script[14] = Deep!HappyTask[3]
  /\ Deep!Script[15] = Deep!HappyTask[4] /\ Deep!Script[16] = Deep!HappyTask[5]
<1> DEFINE a == Deep!Registrations
           b == Deep!PastDeadline
           c == Deep!CapabilityTask
           d == Deep!UnclaimedTask
           e == Deep!HappyTask
           ab == a \o b
           abc == ab \o c
           abcd == abc \o d
<1>1. Deep!Script = abcd \o e /\ abcd = abc \o d /\ abc = ab \o c /\ ab = a \o b
  BY DEF Deep!Script
<1> HIDE DEF a, b, c, d, e, ab, abc, abcd
<1>2. /\ a \in Seq(Steps) /\ Len(a) = 3 /\ b \in Seq(Steps) /\ Len(b) = 1
      /\ c \in Seq(Steps) /\ Len(c) = 4 /\ d \in Seq(Steps) /\ Len(d) = 3
      /\ e \in Seq(Steps) /\ Len(e) = 5
  BY PartsOfScript DEF a, b, c, d, e
<1>3. /\ ab \in Seq(Steps) /\ Len(ab) = 3 + 1
      /\ \A i \in 1 .. 3 : ab[i] = a[i]
      /\ \A i \in 1 .. 1 : ab[3 + i] = b[i]
  <2>1. a \in Seq(Steps) /\ b \in Seq(Steps)
    BY <1>2
  <2>2. /\ ab \in Seq(Steps) /\ Len(ab) = Len(a) + Len(b)
        /\ \A i \in 1 .. Len(a) : ab[i] = a[i]
        /\ \A i \in 1 .. Len(b) : ab[Len(a) + i] = b[i]
    BY <1>1, <2>1, ElementOfConcat
  <2> QED
    BY <2>2, <1>2
<1>4. /\ abc \in Seq(Steps) /\ Len(abc) = 4 + 4
      /\ \A i \in 1 .. 4 : abc[i] = ab[i]
      /\ \A i \in 1 .. 4 : abc[4 + i] = c[i]
  <2>1. ab \in Seq(Steps) /\ c \in Seq(Steps)
    BY <1>2, <1>3
  <2>2. /\ abc \in Seq(Steps) /\ Len(abc) = Len(ab) + Len(c)
        /\ \A i \in 1 .. Len(ab) : abc[i] = ab[i]
        /\ \A i \in 1 .. Len(c) : abc[Len(ab) + i] = c[i]
    BY <1>1, <2>1, ElementOfConcat
  <2> QED
    BY <2>2, <1>2, <1>3
<1>5. /\ abcd \in Seq(Steps) /\ Len(abcd) = 8 + 3
      /\ \A i \in 1 .. 8 : abcd[i] = abc[i]
      /\ \A i \in 1 .. 3 : abcd[8 + i] = d[i]
  <2>1. abc \in Seq(Steps) /\ d \in Seq(Steps)
    BY <1>2, <1>4
  <2>2. /\ abcd \in Seq(Steps) /\ Len(abcd) = Len(abc) + Len(d)
        /\ \A i \in 1 .. Len(abc) : abcd[i] = abc[i]
        /\ \A i \in 1 .. Len(d) : abcd[Len(abc) + i] = d[i]
    BY <1>1, <2>1, ElementOfConcat
  <2> QED
    BY <2>2, <1>2, <1>4
<1>6. /\ Deep!Script \in Seq(Steps) /\ Len(Deep!Script) = 11 + 5
      /\ \A i \in 1 .. 11 : Deep!Script[i] = abcd[i]
      /\ \A i \in 1 .. 5 : Deep!Script[11 + i] = e[i]
  <2>1. abcd \in Seq(Steps) /\ e \in Seq(Steps)
    BY <1>2, <1>5
  <2>2. /\ Deep!Script \in Seq(Steps) /\ Len(Deep!Script) = Len(abcd) + Len(e)
        /\ \A i \in 1 .. Len(abcd) : Deep!Script[i] = abcd[i]
        /\ \A i \in 1 .. Len(e) : Deep!Script[Len(abcd) + i] = e[i]
    BY <1>1, <2>1, ElementOfConcat
  <2> QED
    BY <2>2, <1>2, <1>5
<1>7. /\ \A i \in 1 .. 4 : Deep!Script[i] = ab[i] /\ Deep!Script[4 + i] = c[i]
      /\ \A i \in 1 .. 3 : Deep!Script[8 + i] = d[i]
  BY <1>4, <1>5, <1>6
<1>8. Deep!Script[1] = a[1] /\ Deep!Script[2] = a[2] /\ Deep!Script[3] = a[3] /\ Deep!Script[4] = b[1]
  BY <1>3, <1>7
<1>9. Deep!Script[5] = c[1] /\ Deep!Script[6] = c[2] /\ Deep!Script[7] = c[3] /\ Deep!Script[8] = c[4]
  BY <1>7
<1>10. Deep!Script[9] = d[1] /\ Deep!Script[10] = d[2] /\ Deep!Script[11] = d[3]
  BY <1>7
<1>11. /\ Deep!Script[12] = e[1] /\ Deep!Script[13] = e[2] /\ Deep!Script[14] = e[3]
       /\ Deep!Script[15] = e[4] /\ Deep!Script[16] = e[5]
  BY <1>6
<1> QED
  BY <1>6, <1>8, <1>9, <1>10, <1>11 DEF a, b, c, d, e

\* The first step of what is left, and what is left after it.
LEMMA RestFacts ==
  ASSUME NEW n \in 0 .. 16
  PROVE  /\ Rest(n) \in Seq(Steps) /\ Len(Rest(n)) = 16 - n
         /\ n < 16 => Head(Rest(n)) = Deep!Script[n + 1] /\ Tail(Rest(n)) = Rest(n + 1)
         /\ Rest(n) = <<>> <=> n = 16
<1>1. Deep!Script \in Seq(Steps) /\ Len(Deep!Script) = 16
  BY ScriptIs
<1>2. Rest(n) \in Seq(Steps) /\ Len(Rest(n)) = 16 - n
  <2>1. ASSUME NEW i \in n + 1 .. 16 PROVE Deep!Script[i] \in Steps
    <3>1. i \in 1 .. Len(Deep!Script)
      BY <1>1
    <3> QED
      BY <1>1, <3>1, ElementOfSeq
  <2> QED
    BY <1>1, <2>1, SubSeqProperties DEF Rest
<1>3. n < 16 => Head(Rest(n)) = Deep!Script[n + 1] /\ Tail(Rest(n)) = Rest(n + 1)
  BY <1>1, HeadTailOfSubSeq DEF Rest
<1>4. Rest(n) = <<>> <=> n = 16
  BY <1>2, EmptySeq
<1> QED
  BY <1>2, <1>3, <1>4




\* A step of the script, to a program that answers as its sources do.
StepSound(s, n) ==
    /\ s.call \in Calls
    /\ s.kind \in {"must", "maybe", "expect"}
    /\ s.kind = "expect" => /\ Deep!Errors(Sound(n), s.call) # {}
                            /\ Deep!Errors(Sound(n), s.call) \subseteq s.wanted
                            /\ Sound(n + 1) = Sound(n)
                            /\ "network" \notin s.wanted \cup s.allowed
                            /\ "other" \notin s.wanted \cup s.allowed
    /\ s.kind # "expect" => /\ Deep!Errors(Sound(n), s.call) = {}
                            /\ Deep!After(Sound(n), s.call) = Sound(n + 1)
    /\ s.kind = "maybe" => s.call.op = "cancelTask"
    /\ s.kind # "expect" /\ s.call.op = "registerAgent" => s.call.agent \in {"creator", "worker"}
    /\ s.kind = "expect" /\ s.call.op = "claimTask" => s.call.task = "capability" /\ n >= 5
    /\ Created(n + 1) = IF s.kind = "must" /\ s.call.op = "createTask" THEN Created(n) + 1 ELSE Created(n)
    /\ n + 1 >= 5 => n >= 5 \/ (s.kind = "must" /\ s.call = Deep!Call("createTask", "creator", "capability"))

LEMMA CallFacts ==
  ASSUME NEW op, NEW agent, NEW task
  PROVE  /\ Deep!Call(op, agent, task).op = op
         /\ Deep!Call(op, agent, task).agent = agent
         /\ Deep!Call(op, agent, task).task = task
BY DEF Deep!Call

\* What a call leaves of the chain.
LEMMA AfterFields ==
  ASSUME NEW c \in DeepChains, NEW k \in Calls
  PROVE  /\ Deep!After(c, k) \in DeepChains
         /\ Deep!After(c, k).agents =
               CASE k.op = "registerAgent" -> c.agents \cup {k.agent}
                 [] k.op = "deregisterAgent" -> c.agents \ {k.agent}
                 [] OTHER -> c.agents
         /\ \A t \in Deep!Task : Deep!After(c, k).tasks[t] =
               IF t # k.task THEN c.tasks[t]
               ELSE CASE k.op = "createTask" -> "Open"
                      [] k.op = "claimTask" -> "InProgress"
                      [] k.op = "completeTask" -> "Completed"
                      [] k.op = "cancelTask" -> "Cancelled"
                      [] OTHER -> c.tasks[t]
         /\ \A t \in Deep!Task : Deep!After(c, k).claims[t] =
               IF t # k.task THEN c.claims[t]
               ELSE CASE k.op = "claimTask" -> c.claims[t] \cup {k.agent}
                      [] k.op \in {"completeTask", "cancelTask"} -> {}
                      [] OTHER -> c.claims[t]
<1>1. CASE k.op = "registerAgent"
  BY <1>1 DEF Deep!After, DeepChains, Calls
<1>2. CASE k.op = "createTask"
  <2>1. k.task \in Deep!Task
    BY <1>2 DEF Calls
  <2> QED
    BY <1>2, <2>1 DEF Deep!After, DeepChains, TaskStates
<1>3. CASE k.op = "claimTask"
  <2>1. k.task \in Deep!Task /\ k.agent \in Deep!Agent
    BY <1>3 DEF Calls
  <2> QED
    BY <1>3, <2>1 DEF Deep!After, DeepChains, TaskStates
<1>4. CASE k.op = "completeTask"
  <2>1. k.task \in Deep!Task
    BY <1>4 DEF Calls
  <2> QED
    BY <1>4, <2>1 DEF Deep!After, DeepChains, TaskStates
<1>5. CASE k.op = "cancelTask"
  <2>1. k.task \in Deep!Task
    BY <1>5 DEF Calls
  <2> QED
    BY <1>5, <2>1 DEF Deep!After, DeepChains, TaskStates
<1>6. CASE k.op = "deregisterAgent"
  BY <1>6 DEF Deep!After, DeepChains, Calls
<1> QED
  BY <1>1, <1>2, <1>3, <1>4, <1>5, <1>6 DEF Calls, Operations

LEMMA ChainsEqual ==
  ASSUME NEW c \in DeepChains, NEW d \in DeepChains, c.agents = d.agents,
         \A t \in Deep!Task : c.tasks[t] = d.tasks[t] /\ c.claims[t] = d.claims[t]
  PROVE  c = d
<1>1. c.tasks = d.tasks /\ c.claims = d.claims
  BY DEF DeepChains
<1> QED
  BY <1>1 DEF DeepChains

LEMMA SoundFields ==
  ASSUME NEW n \in Nat
  PROVE  /\ Sound(n) \in DeepChains
         /\ Sound(n).agents = IF n < 2 THEN {} ELSE IF n < 3 THEN {"creator"} ELSE {"creator", "worker"}
         /\ Sound(n).tasks["late"] = "none"
         /\ Sound(n).tasks["capability"] = IF n < 5 THEN "none" ELSE IF n < 8 THEN "Open" ELSE "Cancelled"
         /\ Sound(n).tasks["unclaimed"] = IF n < 9 THEN "none" ELSE IF n < 11 THEN "Open" ELSE "Cancelled"
         /\ Sound(n).tasks["happy"] = IF n < 12 THEN "none" ELSE IF n < 13 THEN "Open"
                                       ELSE IF n < 15 THEN "InProgress" ELSE "Completed"
         /\ Sound(n).claims["late"] = {} /\ Sound(n).claims["capability"] = {}
         /\ Sound(n).claims["unclaimed"] = {}
         /\ Sound(n).claims["happy"] = IF n \in 13 .. 14 THEN {"worker"} ELSE {}
<1>1. Sound(n).agents \in SUBSET Deep!Agent
  BY DEF Sound, Deep!Agent
<1>2. Sound(n).tasks \in [Deep!Task -> TaskStates]
  BY DEF Sound, TaskStates
<1>3. Sound(n).claims \in [Deep!Task -> SUBSET Deep!Agent]
  BY DEF Sound, Deep!Agent
<1>4. Sound(n) \in DeepChains
  BY <1>1, <1>2, <1>3 DEF DeepChains, Sound
<1> QED
  BY <1>4 DEF Sound, Deep!Task

\* What is on the chain, account by account.
Holds(c, agents, capability, unclaimed, happy, workers) ==
    /\ c \in DeepChains /\ c.agents = agents
    /\ c.tasks["late"] = "none" /\ c.claims["late"] = {}
    /\ c.tasks["capability"] = capability /\ c.claims["capability"] = {}
    /\ c.tasks["unclaimed"] = unclaimed /\ c.claims["unclaimed"] = {}
    /\ c.tasks["happy"] = happy /\ c.claims["happy"] = workers

LEMMA SameChains ==
  ASSUME NEW agents, NEW capability, NEW unclaimed, NEW happy, NEW workers,
         NEW c, Holds(c, agents, capability, unclaimed, happy, workers),
         NEW d, Holds(d, agents, capability, unclaimed, happy, workers)
  PROVE  c = d
<1>1. c \in DeepChains /\ d \in DeepChains /\ c.agents = d.agents
  BY DEF Holds
<1>2. \A t \in Deep!Task : c.tasks[t] = d.tasks[t] /\ c.claims[t] = d.claims[t]
  BY DEF Holds, Deep!Task
<1> QED
  BY <1>1, <1>2, ChainsEqual

LEMMA SoundSteps ==
  ASSUME NEW n \in 0 .. 15
  PROVE  StepSound(Deep!Script[n + 1], n)
<1>1. CASE n = 0
  <2> DEFINE s == Deep!Script[1]
             k == Deep!Call("registerAgent", "poor", "none")
  <2>1. s = Deep!Registrations[1]
    BY ScriptIs
  <2>2. /\ s.kind = "expect" /\ s.call = k
        /\ "InsufficientStake" \in s.wanted
        /\ "network" \notin s.wanted \cup s.allowed
        /\ "other" \notin s.wanted \cup s.allowed
    BY <2>1 DEF Deep!Registrations, Deep!Expect
  <2>3. k \in Calls /\ k.op = "registerAgent" /\ k.agent = "poor" /\ k.task = "none"
    BY DEF Deep!Call, Calls, Operations, Deep!Agent, Deep!Task
  <2>4. Deep!Errors(Sound(0), k) = {"InsufficientStake"}
    BY <2>3 DEF Deep!Errors, Sound, Deep!Task
  <2>5. Sound(1) = Sound(0)
    BY DEF Sound
  <2>6. Created(1) = Created(0)
    BY DEF Created
  <2> HIDE DEF s, k
  <2>7. StepSound(s, 0)
    BY <2>2, <2>3, <2>4, <2>5, <2>6 DEF StepSound
  <2> QED
    BY <1>1, <2>7 DEF s
<1>2. CASE n = 1
  <2> DEFINE s == Deep!Script[2]
             k == Deep!Call("registerAgent", "creator", "none")
  <2>1. s = Deep!Registrations[2]
    BY ScriptIs
  <2>2. s.kind = "must" /\ s.call = k
    BY <2>1 DEF Deep!Registrations, Deep!Must
  <2>3. k \in Calls /\ k.op = "registerAgent" /\ k.agent = "creator" /\ k.task = "none"
    BY DEF Deep!Call, Calls, Operations, Deep!Agent, Deep!Task
  <2>4. Deep!Errors(Sound(1), k) = {}
    BY <2>3 DEF Deep!Errors, Sound, Deep!Task
  <2>5. Deep!After(Sound(1), k) = Sound(2)
    <3> DEFINE c == Sound(1)
               d == Sound(2)
               a == Deep!After(c, k)
    <3>1. Holds(c, {}, "none", "none", "none", {})
      BY SoundFields DEF Holds
    <3>2. Holds(d, {"creator"}, "none", "none", "none", {})
      BY SoundFields DEF Holds
    <3> HIDE DEF c, d
    <3>3. Holds(a, {"creator"}, "none", "none", "none", {})
      <4>1. c \in DeepChains
        BY <3>1 DEF Holds
      <4>2. /\ a \in DeepChains /\ a.agents = c.agents \cup {k.agent}
            /\ \A t \in Deep!Task : a.tasks[t] = c.tasks[t] /\ a.claims[t] = c.claims[t]
        BY <2>3, <4>1, AfterFields DEF Deep!Task
      <4> HIDE DEF a
      <4> QED
        BY <2>3, <3>1, <4>2 DEF Holds, Deep!Task
    <3> HIDE DEF a
    <3>4. a = d
      BY <3>2, <3>3, SameChains
    <3> QED
      BY <3>4 DEF a, c, d
  <2>6. Created(2) = Created(1)
    BY DEF Created
  <2> HIDE DEF s, k
  <2>7. StepSound(s, 1)
    BY <2>2, <2>3, <2>4, <2>5, <2>6 DEF StepSound
  <2> QED
    BY <1>2, <2>7 DEF s
<1>3. CASE n = 2
  <2> DEFINE s == Deep!Script[3]
             k == Deep!Call("registerAgent", "worker", "none")
  <2>1. s = Deep!Registrations[3]
    BY ScriptIs
  <2>2. s.kind = "must" /\ s.call = k
    BY <2>1 DEF Deep!Registrations, Deep!Must
  <2>3. k \in Calls /\ k.op = "registerAgent" /\ k.agent = "worker" /\ k.task = "none"
    BY DEF Deep!Call, Calls, Operations, Deep!Agent, Deep!Task
  <2>4. Deep!Errors(Sound(2), k) = {}
    BY <2>3 DEF Deep!Errors, Sound, Deep!Task
  <2>5. Deep!After(Sound(2), k) = Sound(3)
    <3> DEFINE c == Sound(2)
               d == Sound(3)
               a == Deep!After(c, k)
    <3>1. Holds(c, {"creator"}, "none", "none", "none", {})
      BY SoundFields DEF Holds
    <3>2. Holds(d, {"creator", "worker"}, "none", "none", "none", {})
      BY SoundFields DEF Holds
    <3> HIDE DEF c, d
    <3>3. Holds(a, {"creator", "worker"}, "none", "none", "none", {})
      <4>1. c \in DeepChains
        BY <3>1 DEF Holds
      <4>2. /\ a \in DeepChains /\ a.agents = c.agents \cup {k.agent}
            /\ \A t \in Deep!Task : a.tasks[t] = c.tasks[t] /\ a.claims[t] = c.claims[t]
        BY <2>3, <4>1, AfterFields DEF Deep!Task
      <4> HIDE DEF a
      <4> QED
        BY <2>3, <3>1, <4>2 DEF Holds, Deep!Task
    <3> HIDE DEF a
    <3>4. a = d
      BY <3>2, <3>3, SameChains
    <3> QED
      BY <3>4 DEF a, c, d
  <2>6. Created(3) = Created(2)
    BY DEF Created
  <2> HIDE DEF s, k
  <2>7. StepSound(s, 2)
    BY <2>2, <2>3, <2>4, <2>5, <2>6 DEF StepSound
  <2> QED
    BY <1>3, <2>7 DEF s
<1>4. CASE n = 3
  <2> DEFINE s == Deep!Script[4]
             k == Deep!Call("createTask", "creator", "late")
  <2>1. s = Deep!PastDeadline[1]
    BY ScriptIs
  <2>2. /\ s.kind = "expect" /\ s.call = k
        /\ "InvalidInput" \in s.wanted
        /\ "network" \notin s.wanted \cup s.allowed
        /\ "other" \notin s.wanted \cup s.allowed
    BY <2>1 DEF Deep!PastDeadline, Deep!Expect
  <2>3. k \in Calls /\ k.op = "createTask" /\ k.agent = "creator" /\ k.task = "late"
    BY DEF Deep!Call, Calls, Operations, Deep!Agent, Deep!Task
  <2>4. Deep!Errors(Sound(3), k) = {"InvalidInput"}
    BY <2>3 DEF Deep!Errors, Sound, Deep!Task
  <2>5. Sound(4) = Sound(3)
    BY DEF Sound
  <2>6. Created(4) = Created(3)
    BY DEF Created
  <2> HIDE DEF s, k
  <2>7. StepSound(s, 3)
    BY <2>2, <2>3, <2>4, <2>5, <2>6 DEF StepSound
  <2> QED
    BY <1>4, <2>7 DEF s
<1>5. CASE n = 4
  <2> DEFINE s == Deep!Script[5]
             k == Deep!Call("createTask", "creator", "capability")
  <2>1. s = Deep!CapabilityTask[1]
    BY ScriptIs
  <2>2. s.kind = "must" /\ s.call = k
    BY <2>1 DEF Deep!CapabilityTask, Deep!Must
  <2>3. k \in Calls /\ k.op = "createTask" /\ k.agent = "creator" /\ k.task = "capability"
    BY DEF Deep!Call, Calls, Operations, Deep!Agent, Deep!Task
  <2>4. Deep!Errors(Sound(4), k) = {}
    BY <2>3 DEF Deep!Errors, Sound, Deep!Task
  <2>5. Deep!After(Sound(4), k) = Sound(5)
    <3> DEFINE c == Sound(4)
               d == Sound(5)
               a == Deep!After(c, k)
    <3>1. Holds(c, {"creator", "worker"}, "none", "none", "none", {})
      BY SoundFields DEF Holds
    <3>2. Holds(d, {"creator", "worker"}, "Open", "none", "none", {})
      BY SoundFields DEF Holds
    <3> HIDE DEF c, d
    <3>3. Holds(a, {"creator", "worker"}, "Open", "none", "none", {})
      BY <2>3, <3>1, AfterFields DEF Holds, Deep!Task
    <3> HIDE DEF a
    <3>4. a = d
      BY <3>2, <3>3, SameChains
    <3> QED
      BY <3>4 DEF a, c, d
  <2>6. Created(5) = Created(4) + 1
    BY DEF Created
  <2> HIDE DEF s, k
  <2>7. StepSound(s, 4)
    BY <2>2, <2>3, <2>4, <2>5, <2>6 DEF StepSound, k
  <2> QED
    BY <1>5, <2>7 DEF s
<1>6. CASE n = 5
  <2> DEFINE s == Deep!Script[6]
             k == Deep!Call("claimTask", "worker", "capability")
  <2>1. s = Deep!CapabilityTask[2]
    BY ScriptIs
  <2>2. /\ s.kind = "expect" /\ s.call = k
        /\ "InsufficientCapabilities" \in s.wanted
        /\ "network" \notin s.wanted \cup s.allowed
        /\ "other" \notin s.wanted \cup s.allowed
    BY <2>1 DEF Deep!CapabilityTask, Deep!Expect
  <2>3. k \in Calls /\ k.op = "claimTask" /\ k.agent = "worker" /\ k.task = "capability"
    BY DEF Deep!Call, Calls, Operations, Deep!Agent, Deep!Task
  <2>4. Deep!Errors(Sound(5), k) = {"InsufficientCapabilities"}
    BY <2>3 DEF Deep!Errors, Sound, Deep!Task
  <2>5. Sound(6) = Sound(5)
    BY DEF Sound
  <2>6. Created(6) = Created(5)
    BY DEF Created
  <2> HIDE DEF s, k
  <2>7. StepSound(s, 5)
    BY <2>2, <2>3, <2>4, <2>5, <2>6 DEF StepSound
  <2> QED
    BY <1>6, <2>7 DEF s
<1>7. CASE n = 6
  <2> DEFINE s == Deep!Script[7]
             k == Deep!Call("claimTask", "creator", "capability")
  <2>1. s = Deep!CapabilityTask[3]
    BY ScriptIs
  <2>2. /\ s.kind = "expect" /\ s.call = k
        /\ "SelfTaskNotAllowed" \in s.wanted
        /\ "network" \notin s.wanted \cup s.allowed
        /\ "other" \notin s.wanted \cup s.allowed
    BY <2>1 DEF Deep!CapabilityTask, Deep!Expect
  <2>3. k \in Calls /\ k.op = "claimTask" /\ k.agent = "creator" /\ k.task = "capability"
    BY DEF Deep!Call, Calls, Operations, Deep!Agent, Deep!Task
  <2>4. Deep!Errors(Sound(6), k) = {"SelfTaskNotAllowed"}
    BY <2>3 DEF Deep!Errors, Sound, Deep!Task
  <2>5. Sound(7) = Sound(6)
    BY DEF Sound
  <2>6. Created(7) = Created(6)
    BY DEF Created
  <2> HIDE DEF s, k
  <2>7. StepSound(s, 6)
    BY <2>2, <2>3, <2>4, <2>5, <2>6 DEF StepSound
  <2> QED
    BY <1>7, <2>7 DEF s
<1>8. CASE n = 7
  <2> DEFINE s == Deep!Script[8]
             k == Deep!Call("cancelTask", "creator", "capability")
  <2>1. s = Deep!CapabilityTask[4]
    BY ScriptIs
  <2>2. s.kind = "maybe" /\ s.call = k
    BY <2>1 DEF Deep!CapabilityTask, Deep!Maybe
  <2>3. k \in Calls /\ k.op = "cancelTask" /\ k.agent = "creator" /\ k.task = "capability"
    BY DEF Deep!Call, Calls, Operations, Deep!Agent, Deep!Task
  <2>4. Deep!Errors(Sound(7), k) = {}
    BY <2>3 DEF Deep!Errors, Sound, Deep!Task
  <2>5. Deep!After(Sound(7), k) = Sound(8)
    <3> DEFINE c == Sound(7)
               d == Sound(8)
               a == Deep!After(c, k)
    <3>1. Holds(c, {"creator", "worker"}, "Open", "none", "none", {})
      BY SoundFields DEF Holds
    <3>2. Holds(d, {"creator", "worker"}, "Cancelled", "none", "none", {})
      BY SoundFields DEF Holds
    <3> HIDE DEF c, d
    <3>3. Holds(a, {"creator", "worker"}, "Cancelled", "none", "none", {})
      BY <2>3, <3>1, AfterFields DEF Holds, Deep!Task
    <3> HIDE DEF a
    <3>4. a = d
      BY <3>2, <3>3, SameChains
    <3> QED
      BY <3>4 DEF a, c, d
  <2>6. Created(8) = Created(7)
    BY DEF Created
  <2> HIDE DEF s, k
  <2>7. StepSound(s, 7)
    BY <2>2, <2>3, <2>4, <2>5, <2>6 DEF StepSound
  <2> QED
    BY <1>8, <2>7 DEF s
<1>9. CASE n = 8
  <2> DEFINE s == Deep!Script[9]
             k == Deep!Call("createTask", "creator", "unclaimed")
  <2>1. s = Deep!UnclaimedTask[1]
    BY ScriptIs
  <2>2. s.kind = "must" /\ s.call = k
    BY <2>1 DEF Deep!UnclaimedTask, Deep!Must
  <2>3. k \in Calls /\ k.op = "createTask" /\ k.agent = "creator" /\ k.task = "unclaimed"
    BY DEF Deep!Call, Calls, Operations, Deep!Agent, Deep!Task
  <2>4. Deep!Errors(Sound(8), k) = {}
    BY <2>3 DEF Deep!Errors, Sound, Deep!Task
  <2>5. Deep!After(Sound(8), k) = Sound(9)
    <3> DEFINE c == Sound(8)
               d == Sound(9)
               a == Deep!After(c, k)
    <3>1. Holds(c, {"creator", "worker"}, "Cancelled", "none", "none", {})
      BY SoundFields DEF Holds
    <3>2. Holds(d, {"creator", "worker"}, "Cancelled", "Open", "none", {})
      BY SoundFields DEF Holds
    <3> HIDE DEF c, d
    <3>3. Holds(a, {"creator", "worker"}, "Cancelled", "Open", "none", {})
      BY <2>3, <3>1, AfterFields DEF Holds, Deep!Task
    <3> HIDE DEF a
    <3>4. a = d
      BY <3>2, <3>3, SameChains
    <3> QED
      BY <3>4 DEF a, c, d
  <2>6. Created(9) = Created(8) + 1
    BY DEF Created
  <2> HIDE DEF s, k
  <2>7. StepSound(s, 8)
    BY <2>2, <2>3, <2>4, <2>5, <2>6 DEF StepSound
  <2> QED
    BY <1>9, <2>7 DEF s
<1>10. CASE n = 9
  <2> DEFINE s == Deep!Script[10]
             k == Deep!Call("completeTask", "worker", "unclaimed")
  <2>1. s = Deep!UnclaimedTask[2]
    BY ScriptIs
  <2>2. /\ s.kind = "expect" /\ s.call = k
        /\ "NotClaimed" \in s.wanted
        /\ "network" \notin s.wanted \cup s.allowed
        /\ "other" \notin s.wanted \cup s.allowed
    BY <2>1 DEF Deep!UnclaimedTask, Deep!Expect
  <2>3. k \in Calls /\ k.op = "completeTask" /\ k.agent = "worker" /\ k.task = "unclaimed"
    BY DEF Deep!Call, Calls, Operations, Deep!Agent, Deep!Task
  <2>4. Deep!Errors(Sound(9), k) = {"NotClaimed"}
    BY <2>3 DEF Deep!Errors, Sound, Deep!Task
  <2>5. Sound(10) = Sound(9)
    BY DEF Sound
  <2>6. Created(10) = Created(9)
    BY DEF Created
  <2> HIDE DEF s, k
  <2>7. StepSound(s, 9)
    BY <2>2, <2>3, <2>4, <2>5, <2>6 DEF StepSound
  <2> QED
    BY <1>10, <2>7 DEF s
<1>11. CASE n = 10
  <2> DEFINE s == Deep!Script[11]
             k == Deep!Call("cancelTask", "creator", "unclaimed")
  <2>1. s = Deep!UnclaimedTask[3]
    BY ScriptIs
  <2>2. s.kind = "maybe" /\ s.call = k
    BY <2>1 DEF Deep!UnclaimedTask, Deep!Maybe
  <2>3. k \in Calls /\ k.op = "cancelTask" /\ k.agent = "creator" /\ k.task = "unclaimed"
    BY DEF Deep!Call, Calls, Operations, Deep!Agent, Deep!Task
  <2>4. Deep!Errors(Sound(10), k) = {}
    BY <2>3 DEF Deep!Errors, Sound, Deep!Task
  <2>5. Deep!After(Sound(10), k) = Sound(11)
    <3> DEFINE c == Sound(10)
               d == Sound(11)
               a == Deep!After(c, k)
    <3>1. Holds(c, {"creator", "worker"}, "Cancelled", "Open", "none", {})
      BY SoundFields DEF Holds
    <3>2. Holds(d, {"creator", "worker"}, "Cancelled", "Cancelled", "none", {})
      BY SoundFields DEF Holds
    <3> HIDE DEF c, d
    <3>3. Holds(a, {"creator", "worker"}, "Cancelled", "Cancelled", "none", {})
      BY <2>3, <3>1, AfterFields DEF Holds, Deep!Task
    <3> HIDE DEF a
    <3>4. a = d
      BY <3>2, <3>3, SameChains
    <3> QED
      BY <3>4 DEF a, c, d
  <2>6. Created(11) = Created(10)
    BY DEF Created
  <2> HIDE DEF s, k
  <2>7. StepSound(s, 10)
    BY <2>2, <2>3, <2>4, <2>5, <2>6 DEF StepSound
  <2> QED
    BY <1>11, <2>7 DEF s
<1>12. CASE n = 11
  <2> DEFINE s == Deep!Script[12]
             k == Deep!Call("createTask", "creator", "happy")
  <2>1. s = Deep!HappyTask[1]
    BY ScriptIs
  <2>2. s.kind = "must" /\ s.call = k
    BY <2>1 DEF Deep!HappyTask, Deep!Must
  <2>3. k \in Calls /\ k.op = "createTask" /\ k.agent = "creator" /\ k.task = "happy"
    BY DEF Deep!Call, Calls, Operations, Deep!Agent, Deep!Task
  <2>4. Deep!Errors(Sound(11), k) = {}
    BY <2>3 DEF Deep!Errors, Sound, Deep!Task
  <2>5. Deep!After(Sound(11), k) = Sound(12)
    <3> DEFINE c == Sound(11)
               d == Sound(12)
               a == Deep!After(c, k)
    <3>1. Holds(c, {"creator", "worker"}, "Cancelled", "Cancelled", "none", {})
      BY SoundFields DEF Holds
    <3>2. Holds(d, {"creator", "worker"}, "Cancelled", "Cancelled", "Open", {})
      BY SoundFields DEF Holds
    <3> HIDE DEF c, d
    <3>3. Holds(a, {"creator", "worker"}, "Cancelled", "Cancelled", "Open", {})
      BY <2>3, <3>1, AfterFields DEF Holds, Deep!Task
    <3> HIDE DEF a
    <3>4. a = d
      BY <3>2, <3>3, SameChains
    <3> QED
      BY <3>4 DEF a, c, d
  <2>6. Created(12) = Created(11) + 1
    BY DEF Created
  <2> HIDE DEF s, k
  <2>7. StepSound(s, 11)
    BY <2>2, <2>3, <2>4, <2>5, <2>6 DEF StepSound
  <2> QED
    BY <1>12, <2>7 DEF s
<1>13. CASE n = 12
  <2> DEFINE s == Deep!Script[13]
             k == Deep!Call("claimTask", "worker", "happy")
  <2>1. s = Deep!HappyTask[2]
    BY ScriptIs
  <2>2. s.kind = "must" /\ s.call = k
    BY <2>1 DEF Deep!HappyTask, Deep!Must
  <2>3. k \in Calls /\ k.op = "claimTask" /\ k.agent = "worker" /\ k.task = "happy"
    BY DEF Deep!Call, Calls, Operations, Deep!Agent, Deep!Task
  <2>4. Deep!Errors(Sound(12), k) = {}
    BY <2>3 DEF Deep!Errors, Sound, Deep!Task
  <2>5. Deep!After(Sound(12), k) = Sound(13)
    <3> DEFINE c == Sound(12)
               d == Sound(13)
               a == Deep!After(c, k)
    <3>1. Holds(c, {"creator", "worker"}, "Cancelled", "Cancelled", "Open", {})
      BY SoundFields DEF Holds
    <3>2. Holds(d, {"creator", "worker"}, "Cancelled", "Cancelled", "InProgress", {"worker"})
      BY SoundFields DEF Holds
    <3> HIDE DEF c, d
    <3>3. Holds(a, {"creator", "worker"}, "Cancelled", "Cancelled", "InProgress", {"worker"})
      BY <2>3, <3>1, AfterFields DEF Holds, Deep!Task
    <3> HIDE DEF a
    <3>4. a = d
      BY <3>2, <3>3, SameChains
    <3> QED
      BY <3>4 DEF a, c, d
  <2>6. Created(13) = Created(12)
    BY DEF Created
  <2> HIDE DEF s, k
  <2>7. StepSound(s, 12)
    BY <2>2, <2>3, <2>4, <2>5, <2>6 DEF StepSound
  <2> QED
    BY <1>13, <2>7 DEF s
<1>14. CASE n = 13
  <2> DEFINE s == Deep!Script[14]
             k == Deep!Call("deregisterAgent", "worker", "none")
  <2>1. s = Deep!HappyTask[3]
    BY ScriptIs
  <2>2. /\ s.kind = "expect" /\ s.call = k
        /\ "AgentHasActiveTasks" \in s.wanted
        /\ "network" \notin s.wanted \cup s.allowed
        /\ "other" \notin s.wanted \cup s.allowed
    BY <2>1 DEF Deep!HappyTask, Deep!Expect
  <2>3. k \in Calls /\ k.op = "deregisterAgent" /\ k.agent = "worker" /\ k.task = "none"
    BY DEF Deep!Call, Calls, Operations, Deep!Agent, Deep!Task
  <2>4. Deep!Errors(Sound(13), k) = {"AgentHasActiveTasks"}
    BY <2>3 DEF Deep!Errors, Sound, Deep!Task, Deep!Busy
  <2>5. Sound(14) = Sound(13)
    BY DEF Sound
  <2>6. Created(14) = Created(13)
    BY DEF Created
  <2> HIDE DEF s, k
  <2>7. StepSound(s, 13)
    BY <2>2, <2>3, <2>4, <2>5, <2>6 DEF StepSound
  <2> QED
    BY <1>14, <2>7 DEF s
<1>15. CASE n = 14
  <2> DEFINE s == Deep!Script[15]
             k == Deep!Call("completeTask", "worker", "happy")
  <2>1. s = Deep!HappyTask[4]
    BY ScriptIs
  <2>2. s.kind = "must" /\ s.call = k
    BY <2>1 DEF Deep!HappyTask, Deep!Must
  <2>3. k \in Calls /\ k.op = "completeTask" /\ k.agent = "worker" /\ k.task = "happy"
    BY DEF Deep!Call, Calls, Operations, Deep!Agent, Deep!Task
  <2>4. Deep!Errors(Sound(14), k) = {}
    BY <2>3 DEF Deep!Errors, Sound, Deep!Task
  <2>5. Deep!After(Sound(14), k) = Sound(15)
    <3> DEFINE c == Sound(14)
               d == Sound(15)
               a == Deep!After(c, k)
    <3>1. Holds(c, {"creator", "worker"}, "Cancelled", "Cancelled", "InProgress", {"worker"})
      BY SoundFields DEF Holds
    <3>2. Holds(d, {"creator", "worker"}, "Cancelled", "Cancelled", "Completed", {})
      BY SoundFields DEF Holds
    <3> HIDE DEF c, d
    <3>3. Holds(a, {"creator", "worker"}, "Cancelled", "Cancelled", "Completed", {})
      BY <2>3, <3>1, AfterFields DEF Holds, Deep!Task
    <3> HIDE DEF a
    <3>4. a = d
      BY <3>2, <3>3, SameChains
    <3> QED
      BY <3>4 DEF a, c, d
  <2>6. Created(15) = Created(14)
    BY DEF Created
  <2> HIDE DEF s, k
  <2>7. StepSound(s, 14)
    BY <2>2, <2>3, <2>4, <2>5, <2>6 DEF StepSound
  <2> QED
    BY <1>15, <2>7 DEF s
<1>16. CASE n = 15
  <2> DEFINE s == Deep!Script[16]
             k == Deep!Call("cancelTask", "creator", "happy")
  <2>1. s = Deep!HappyTask[5]
    BY ScriptIs
  <2>2. /\ s.kind = "expect" /\ s.call = k
        /\ "TaskCannotBeCancelled" \in s.wanted
        /\ "network" \notin s.wanted \cup s.allowed
        /\ "other" \notin s.wanted \cup s.allowed
    BY <2>1 DEF Deep!HappyTask, Deep!Expect, Deep!Ending
  <2>3. k \in Calls /\ k.op = "cancelTask" /\ k.agent = "creator" /\ k.task = "happy"
    BY DEF Deep!Call, Calls, Operations, Deep!Agent, Deep!Task
  <2>4. Deep!Errors(Sound(15), k) = {"TaskCannotBeCancelled"}
    BY <2>3 DEF Deep!Errors, Sound, Deep!Task
  <2>5. Sound(16) = Sound(15)
    BY DEF Sound
  <2>6. Created(16) = Created(15)
    BY DEF Created
  <2> HIDE DEF s, k
  <2>7. StepSound(s, 15)
    BY <2>2, <2>3, <2>4, <2>5, <2>6 DEF StepSound
  <2> QED
    BY <1>16, <2>7 DEF s
<1> QED
  BY <1>1, <1>2, <1>3, <1>4, <1>5, <1>6, <1>7, <1>8, <1>9, <1>10, <1>11, <1>12, <1>13, <1>14, <1>15, <1>16

-----------------------------------------------------------------------------
(* What a call leaves behind.                                              *)

LEMMA AfterLeft ==
  ASSUME NEW c \in DeepChains, NEW k \in Calls
  PROVE  /\ LeftOf(Deep!After(c, k))
              \subseteq LeftOf(c) \cup Deep!Making(k) \cup (IF k.op = "claimTask" THEN {k.task} ELSE {})
         /\ Deep!Errors(c, k) = {} => LeftOf(Deep!After(c, k)) \subseteq LeftOf(c) \cup Deep!Making(k)
         /\ k.op \in {"cancelTask", "deregisterAgent"} => Deep!Target(k) \notin LeftOf(Deep!After(c, k))
<1> DEFINE d == Deep!After(c, k)
<1>1. /\ d \in DeepChains
      /\ d.agents = CASE k.op = "registerAgent" -> c.agents \cup {k.agent}
                      [] k.op = "deregisterAgent" -> c.agents \ {k.agent}
                      [] OTHER -> c.agents
      /\ \A t \in Deep!Task : d.tasks[t] =
            IF t # k.task THEN c.tasks[t]
            ELSE CASE k.op = "createTask" -> "Open"
                   [] k.op = "claimTask" -> "InProgress"
                   [] k.op = "completeTask" -> "Completed"
                   [] k.op = "cancelTask" -> "Cancelled"
                   [] OTHER -> c.tasks[t]
  BY AfterFields
<1>2. Deep!Errors(c, k) = {} /\ k.op = "claimTask" => c.tasks[k.task] = "Open"
  BY DEF Deep!Errors
<1>3. /\ (k.task = "none") <=> k.op \in {"registerAgent", "deregisterAgent"}
      /\ k.op \in Operations /\ k.agent \in Deep!Agent /\ k.task \in Deep!Task \cup {"none"}
  BY DEF Calls
<1>4. /\ c.agents \subseteq Deep!Agent /\ d.agents \subseteq Deep!Agent
      /\ Deep!Agent \cap Deep!Task = {} /\ "none" \notin Deep!Task
  BY <1>1 DEF DeepChains, Deep!Agent, Deep!Task
<1> HIDE DEF d
<1>5. \A x \in d.agents : x \in c.agents \/ (k.op = "registerAgent" /\ x = k.agent)
  BY <1>1, <1>3
<1>6. \A t \in Deep!Task : d.tasks[t] \in {"Open", "InProgress"} =>
         \/ c.tasks[t] \in {"Open", "InProgress"}
         \/ k.op = "createTask" /\ t = k.task
         \/ k.op = "claimTask" /\ t = k.task
  BY <1>1, <1>3 DEF Operations
<1>7. k.op = "registerAgent" => Deep!Making(k) = {k.agent}
  BY <1>3 DEF Deep!Making, Deep!Target
<1>8. k.op = "createTask" => Deep!Making(k) = {k.task}
  BY <1>3 DEF Deep!Making, Deep!Target
<1>9. \A x \in LeftOf(d) : \/ x \in LeftOf(c) \cup Deep!Making(k)
                           \/ k.op = "claimTask" /\ x = k.task
  BY <1>5, <1>6, <1>7, <1>8 DEF LeftOf
<1>10. Deep!Errors(c, k) = {} /\ k.op = "claimTask" => k.task \in LeftOf(c)
  BY <1>2, <1>3 DEF LeftOf
<1>11. ASSUME k.op = "cancelTask" PROVE Deep!Target(k) \notin LeftOf(d)
  <2>1. Deep!Target(k) = k.task /\ k.task \in Deep!Task /\ d.tasks[k.task] = "Cancelled"
    BY <1>1, <1>3, <1>11 DEF Deep!Target
  <2> QED
    BY <1>4, <2>1 DEF LeftOf
<1>12. ASSUME k.op = "deregisterAgent" PROVE Deep!Target(k) \notin LeftOf(d)
  <2>1. Deep!Target(k) = k.agent /\ k.agent \in Deep!Agent /\ k.agent \notin d.agents
    BY <1>1, <1>3, <1>12 DEF Deep!Target
  <2> QED
    BY <1>4, <2>1 DEF LeftOf
<1> QED
  BY <1>9, <1>10, <1>11, <1>12 DEF d

LEMMA LeftIs == Deep!Left = LeftOf(deepChain)
BY DEF Deep!Left, LeftOf

LEMMA LeftIsPrimed == (Deep!Left)' = LeftOf(deepChain')
BY DEF Deep!Left, LeftOf

LEMMA CleanStepFacts ==
  ASSUME NEW s \in CleanSteps
  PROVE  /\ s.kind = "maybe" /\ s.call \in Calls
         /\ s.call.op \in {"cancelTask", "deregisterAgent"}
         /\ Deep!Making(s.call) = {}
<1>1. CASE \E t \in Deep!Task : s = Deep!Maybe(Deep!Call("cancelTask", "creator", t))
  BY <1>1 DEF Deep!Maybe, Deep!Call, Calls, Operations, Deep!Agent, Deep!Task, Deep!Making
<1>2. CASE \E a \in {"creator", "worker"} : s = Deep!Maybe(Deep!Call("deregisterAgent", a, "none"))
  BY <1>2 DEF Deep!Maybe, Deep!Call, Calls, Operations, Deep!Agent, Deep!Task, Deep!Making
<1> QED
  BY <1>1, <1>2 DEF CleanSteps

\* Why a step of the finally block is refused.
LEMMA CleanErrors ==
  ASSUME NEW c \in DeepChains, NEW s \in CleanSteps, NEW name \in Deep!Errors(c, s.call)
  PROVE  name \in GoodReasons \/ Deep!Target(s.call) \notin LeftOf(c)
<1>1. c.agents \subseteq Deep!Agent /\ Deep!Agent \cap Deep!Task = {}
  BY DEF DeepChains, Deep!Agent, Deep!Task
<1>2. CASE s.call.op = "cancelTask"
  <2>1. s.call.task \in Deep!Task /\ Deep!Target(s.call) = s.call.task
    BY <1>2, CleanStepFacts DEF Calls, Deep!Target, Deep!Task
  <2>2. name = "WorkerAccountsRequired" \/ c.tasks[s.call.task] \notin {"Open", "InProgress"}
    BY <1>2 DEF Deep!Errors
  <2> QED
    BY <1>1, <2>1, <2>2 DEF LeftOf, GoodReasons
<1>3. CASE s.call.op = "deregisterAgent"
  <2>1. s.call.agent \in Deep!Agent /\ Deep!Target(s.call) = s.call.agent
    BY <1>3, CleanStepFacts DEF Calls, Deep!Target
  <2>2. name = "AgentHasActiveTasks" \/ s.call.agent \notin c.agents
    BY <1>3 DEF Deep!Errors
  <2> QED
    BY <1>1, <2>1, <2>2 DEF LeftOf, GoodReasons
<1> QED
  BY <1>2, <1>3, CleanStepFacts

\* The finally block: every task that was made, and the two agents.
LEMMA CleanUpFacts ==
  ASSUME NEW created \in Seq(Deep!Task), NEW m \in 0 .. 3, Len(created) = m
  PROVE  /\ Deep!CleanUp(created) \in Seq(CleanSteps)
         /\ Len(Deep!CleanUp(created)) = m + 2
         /\ \A x \in {"creator", "worker"} \cup Elements(created) :
               \E i \in 1 .. m + 2 : Deep!Target(Deep!CleanUp(created)[i].call) = x
<1> DEFINE u == Deep!CleanUp(created)
           s == [i \in 1 .. Len(created) |-> Deep!Maybe(Deep!Call("cancelTask", "creator", created[i]))]
           c == Deep!Maybe(Deep!Call("deregisterAgent", "creator", "none"))
           w == Deep!Maybe(Deep!Call("deregisterAgent", "worker", "none"))
           t == << c, w >>
<1>1. u = s \o t
  BY DEF Deep!CleanUp
<1>2. /\ c \in CleanSteps /\ Deep!Target(c.call) = "creator"
      /\ w \in CleanSteps /\ Deep!Target(w.call) = "worker"
  BY DEF CleanSteps, Deep!Maybe, Deep!Call, Deep!Target
<1>3. \A i \in 1 .. m : /\ created[i] \in Deep!Task /\ s[i] \in CleanSteps
                        /\ Deep!Target(s[i].call) = created[i]
  <2> TAKE i \in 1 .. m
  <2>1. created[i] \in Deep!Task
    BY ElementOfSeq
  <2>2. s[i] = Deep!Maybe(Deep!Call("cancelTask", "creator", created[i]))
    OBVIOUS
  <2> QED
    BY <2>1, <2>2 DEF CleanSteps, Deep!Maybe, Deep!Call, Deep!Target, Deep!Task
<1>4. s \in Seq(CleanSteps) /\ Len(s) = m
  <2>1. s \in [1 .. m -> CleanSteps]
    BY <1>3
  <2> QED
    BY <2>1, SeqDef, LenProperties
<1> HIDE DEF u, s, c, w
<1>5. t \in Seq(CleanSteps) /\ Len(t) = 2 /\ t[1] = c /\ t[2] = w
  BY <1>2
<1> HIDE DEF t
<1>6. /\ u \in Seq(CleanSteps) /\ Len(u) = m + 2
      /\ \A i \in 1 .. m : u[i] = s[i]
      /\ \A i \in 1 .. 2 : u[m + i] = t[i]
  <2>1. s \in Seq(CleanSteps) /\ t \in Seq(CleanSteps)
    BY <1>4, <1>5
  <2>2. /\ u \in Seq(CleanSteps) /\ Len(u) = Len(s) + Len(t)
        /\ \A i \in 1 .. Len(s) : u[i] = s[i]
        /\ \A i \in 1 .. Len(t) : u[Len(s) + i] = t[i]
    BY <1>1, <2>1, ElementOfConcat
  <2> QED
    BY <2>2, <1>4, <1>5
<1>7. u[m + 1] = c /\ u[m + 2] = w
  BY <1>5, <1>6
<1>8. ASSUME NEW x \in {"creator", "worker"} \cup Elements(created)
      PROVE  \E i \in 1 .. m + 2 : Deep!Target(u[i].call) = x
  <2>1. CASE x = "creator"
    BY <1>2, <1>7, <2>1
  <2>2. CASE x = "worker"
    BY <1>2, <1>7, <2>2
  <2>3. CASE x \in Elements(created)
    <3>1. PICK i \in 1 .. m : x = created[i]
      BY <2>3 DEF Elements
    <3>2. i \in 1 .. m + 2 /\ Deep!Target(u[i].call) = x
      BY <3>1, <1>3, <1>6
    <3> QED
      BY <3>2
  <2> QED
    BY <2>1, <2>2, <2>3
<1> QED
  BY <1>6, <1>8 DEF u

-----------------------------------------------------------------------------
(* How a step ends.                                                        *)

\* The run goes on with the next step.
Advances ==
    /\ deepRun'.todo = Tail(deepRun.todo) /\ deepRun'.tx = "none"
    /\ deepRun'.stage = deepRun.stage /\ deepRun'.outcome = deepRun.outcome
    /\ deepRun'.making = deepRun.making

\* The run goes on with the finally block.
Throws ==
    /\ deepRun'.todo = Deep!CleanUp(deepRun.created) /\ deepRun'.tx = "none"
    /\ deepRun'.stage = "finally" /\ deepRun'.outcome = "threw"
    /\ deepRun'.making = Deep!Making(Deep!Step.call)
    /\ deepRun'.created = deepRun.created /\ deepRun'.warned = deepRun.warned

LEMMA FailsFacts ==
  ASSUME DeepShape, NEW name, NEW deviating \in BOOLEAN, Deep!Fails(name, deviating)
  PROVE  /\ DOMAIN deepRun' = RunFields
         /\ deepRun'.trouble \in BOOLEAN /\ deepRun'.deviated \in BOOLEAN
         /\ deepRun'.trouble <=> deepRun.trouble \/ name = "network"
         /\ deepRun'.deviated <=> deepRun.deviated \/ deviating
         /\ deepRun'.created = deepRun.created
         /\ Deep!Step.kind = "maybe" =>
               /\ Advances /\ deepRun'.mismatches = deepRun.mismatches
               /\ deepRun'.warned = IF deepRun.stage = "finally"
                                    THEN deepRun.warned \cup {<<Deep!Target(Deep!Step.call), name>>}
                                    ELSE deepRun.warned
         /\ Deep!Step.kind = "must" => Throws
         /\ Deep!Step.kind = "expect" /\ name \in Deep!Step.wanted =>
               /\ Advances /\ deepRun'.mismatches = deepRun.mismatches
               /\ deepRun'.warned = deepRun.warned
         /\ Deep!Step.kind = "expect" /\ name \in Deep!Step.allowed \ Deep!Step.wanted =>
               /\ Advances /\ deepRun'.mismatches = deepRun.mismatches \cup {name}
               /\ deepRun'.warned = deepRun.warned
         /\ Deep!Step.kind = "expect" /\ name \notin Deep!Step.allowed \cup Deep!Step.wanted => Throws
<1> DEFINE a == Deep!Advance(deepRun)
           w == IF deepRun.stage = "finally"
                THEN deepRun.warned \cup {<<Deep!Target(Deep!Step.call), name>>} ELSE deepRun.warned
           b == [a EXCEPT !.warned = IF deepRun.stage = "finally"
                                     THEN @ \cup {<<Deep!Target(Deep!Step.call), name>>} ELSE @]
           t == Deep!Throw(deepRun)
           m == [a EXCEPT !.mismatches = @ \cup {name}]
           e == Deep!expectFailure(name)
           r == CASE Deep!Step.kind = "maybe" -> b
                  [] Deep!Step.kind = "must" -> t
                  [] OTHER -> e
<1>1. /\ DOMAIN deepRun = RunFields
      /\ deepRun.trouble \in BOOLEAN /\ deepRun.deviated \in BOOLEAN
  BY DEF DeepShape
<1>2. /\ DOMAIN a = RunFields /\ a.todo = Tail(deepRun.todo) /\ a.tx = "none"
      /\ \A f \in RunFields \ {"todo", "tx"} : a[f] = deepRun[f]
  BY <1>1 DEF Deep!Advance, RunFields
<1>3. /\ DOMAIN b = RunFields /\ b.todo = Tail(deepRun.todo) /\ b.tx = "none" /\ b.warned = w
      /\ \A f \in RunFields \ {"todo", "tx", "warned"} : b[f] = deepRun[f]
  <2> HIDE DEF a
  <2> QED
    BY <1>2 DEF RunFields
<1>4. /\ DOMAIN t = RunFields /\ t.todo = Deep!CleanUp(deepRun.created) /\ t.tx = "none"
      /\ t.stage = "finally" /\ t.outcome = "threw" /\ t.making = Deep!Making(Deep!Step.call)
      /\ \A f \in {"created", "warned", "trouble", "deviated", "mismatches"} : t[f] = deepRun[f]
  BY <1>1 DEF Deep!Throw, RunFields
<1>5. /\ DOMAIN m = RunFields /\ m.todo = Tail(deepRun.todo) /\ m.tx = "none"
      /\ m.mismatches = deepRun.mismatches \cup {name}
      /\ \A f \in RunFields \ {"todo", "tx", "mismatches"} : m[f] = deepRun[f]
  <2> HIDE DEF a
  <2> QED
    BY <1>2 DEF RunFields
<1>6. deepRun' = [r EXCEPT !.trouble = @ \/ name = "network", !.deviated = @ \/ deviating]
  BY DEF Deep!Fails
<1>7. /\ name \in Deep!Step.wanted => e = a
      /\ name \in Deep!Step.allowed \ Deep!Step.wanted => e = m
      /\ name \notin Deep!Step.allowed \cup Deep!Step.wanted => e = t
  BY DEF Deep!expectFailure
<1> HIDE DEF a, b, t, m, e
<1>8. /\ Deep!Step.kind = "maybe" => r = b
      /\ Deep!Step.kind = "must" => r = t
      /\ Deep!Step.kind = "expect" /\ name \in Deep!Step.wanted => r = a
      /\ Deep!Step.kind = "expect" /\ name \in Deep!Step.allowed \ Deep!Step.wanted => r = m
      /\ Deep!Step.kind = "expect" /\ name \notin Deep!Step.allowed \cup Deep!Step.wanted => r = t
      /\ r = a \/ r = b \/ r = m \/ r = t
  BY <1>7
<1> HIDE DEF r
<1>9. DOMAIN r = RunFields /\ r.trouble = deepRun.trouble /\ r.deviated = deepRun.deviated
      /\ r.created = deepRun.created
  BY <1>2, <1>3, <1>4, <1>5, <1>8 DEF RunFields
<1>10. /\ DOMAIN deepRun' = RunFields
      /\ \A f \in RunFields \ {"trouble", "deviated"} : deepRun'[f] = r[f]
  BY <1>6, <1>9 DEF RunFields
<1>11. /\ deepRun'.trouble = (r.trouble \/ name = "network")
       /\ deepRun'.deviated = (r.deviated \/ deviating)
  BY <1>6, <1>9 DEF RunFields
<1>12. /\ deepRun'.todo = r.todo /\ deepRun'.tx = r.tx /\ deepRun'.stage = r.stage
       /\ deepRun'.outcome = r.outcome /\ deepRun'.making = r.making /\ deepRun'.created = r.created
       /\ deepRun'.warned = r.warned /\ deepRun'.mismatches = r.mismatches
  BY <1>10 DEF RunFields
<1>13. /\ deepRun'.trouble \in BOOLEAN /\ deepRun'.deviated \in BOOLEAN
       /\ deepRun'.trouble <=> deepRun.trouble \/ name = "network"
       /\ deepRun'.deviated <=> deepRun.deviated \/ deviating
  BY <1>1, <1>9, <1>11
<1>14. CASE Deep!Step.kind = "maybe"
  <2>1. Advances /\ deepRun'.mismatches = deepRun.mismatches /\ deepRun'.warned = w
    BY <1>3, <1>8, <1>12, <1>14 DEF Advances, RunFields
  <2> QED
    BY <1>9, <1>10, <1>12, <1>13, <1>14, <2>1
<1>15. r = t => Throws
  BY <1>4, <1>12 DEF Throws
<1>16. r = a => Advances /\ deepRun'.mismatches = deepRun.mismatches /\ deepRun'.warned = deepRun.warned
  BY <1>2, <1>12 DEF Advances, RunFields
<1>17. r = m => /\ Advances /\ deepRun'.mismatches = deepRun.mismatches \cup {name}
                /\ deepRun'.warned = deepRun.warned
  BY <1>5, <1>12 DEF Advances, RunFields
<1> HIDE DEF w
<1> QED
  BY <1>8, <1>9, <1>10, <1>12, <1>13, <1>14, <1>15, <1>16, <1>17

LEMMA SucceedsFacts ==
  ASSUME DeepShape, Deep!Succeeds
  PROVE  /\ DOMAIN deepRun' = RunFields
         /\ deepRun'.trouble = deepRun.trouble /\ deepRun'.deviated = deepRun.deviated
         /\ deepRun'.warned = deepRun.warned
         /\ Deep!Step.kind = "expect" => Throws
         /\ Deep!Step.kind # "expect" => Advances /\ deepRun'.mismatches = deepRun.mismatches
         /\ Deep!Step.kind # "expect" =>
               deepRun'.created = IF Deep!Step.kind = "must" /\ Deep!Step.call.op = "createTask"
                                  THEN Append(deepRun.created, Deep!Step.call.task) ELSE deepRun.created
<1> DEFINE a == Deep!Advance(deepRun)
           b == [a EXCEPT !.created = Append(@, Deep!Step.call.task)]
           t == Deep!Throw(deepRun)
<1>1. DOMAIN deepRun = RunFields
  BY DEF DeepShape
<1>2. /\ DOMAIN a = RunFields /\ a.todo = Tail(deepRun.todo) /\ a.tx = "none"
      /\ \A f \in RunFields \ {"todo", "tx"} : a[f] = deepRun[f]
  BY <1>1 DEF Deep!Advance, RunFields
<1>3. /\ DOMAIN b = RunFields /\ b.todo = Tail(deepRun.todo) /\ b.tx = "none"
      /\ b.created = Append(deepRun.created, Deep!Step.call.task)
      /\ \A f \in RunFields \ {"todo", "tx", "created"} : b[f] = deepRun[f]
  <2> HIDE DEF a
  <2> QED
    BY <1>2 DEF RunFields
<1>4. /\ DOMAIN t = RunFields /\ t.todo = Deep!CleanUp(deepRun.created) /\ t.tx = "none"
      /\ t.stage = "finally" /\ t.outcome = "threw" /\ t.making = Deep!Making(Deep!Step.call)
      /\ \A f \in {"created", "warned", "trouble", "deviated", "mismatches"} : t[f] = deepRun[f]
  BY <1>1 DEF Deep!Throw, RunFields
<1>5. /\ Deep!Step.kind = "expect" => deepRun' = t
      /\ Deep!Step.kind = "must" /\ Deep!Step.call.op = "createTask" => deepRun' = b
      /\ Deep!Step.kind # "expect" /\ ~(Deep!Step.kind = "must" /\ Deep!Step.call.op = "createTask")
            => deepRun' = a
  BY DEF Deep!Succeeds
<1> HIDE DEF a, b, t
<1>6. CASE Deep!Step.kind = "expect"
  BY <1>4, <1>5, <1>6 DEF Throws, RunFields
<1>7. CASE Deep!Step.kind = "must" /\ Deep!Step.call.op = "createTask"
  BY <1>3, <1>5, <1>7 DEF Advances, RunFields
<1>8. CASE Deep!Step.kind # "expect" /\ ~(Deep!Step.kind = "must" /\ Deep!Step.call.op = "createTask")
  BY <1>2, <1>5, <1>8 DEF Advances, RunFields
<1> QED
  BY <1>6, <1>7, <1>8

-----------------------------------------------------------------------------
(* The steps of the script.                                                *)

\* In the try block, with the step that is next.
Trying(n) ==
    /\ DeepShape /\ TryInv /\ deepRun.stage = "try" /\ n \in 0 .. 15 /\ Position(n)
    /\ Deep!Step = Deep!Script[n + 1]

LEMMA TryingFacts ==
  ASSUME NEW n, Trying(n)
  PROVE  /\ n \in 0 .. 15 /\ n + 1 \in 0 .. 16
         /\ StepSound(Deep!Step, n)
         /\ Tail(deepRun.todo) = Rest(n + 1)
         /\ deepRun.outcome = "pending" /\ deepRun.making = {}
         /\ \A k \in adrift : k.op = "cancelTask"
         /\ Deep!Step.call \in Calls
<1>1. n \in 0 .. 15 /\ n + 1 \in 0 .. 16 /\ n \in 0 .. 16 /\ deepRun.todo = Rest(n)
  BY DEF Trying, Position
<1>2. StepSound(Deep!Step, n)
  BY <1>1, SoundSteps DEF Trying
<1>3. Tail(deepRun.todo) = Rest(n + 1)
  <2>1. n \in 0 .. 16 /\ n < 16
    BY <1>1
  <2>2. Tail(Rest(n)) = Rest(n + 1)
    BY <2>1, RestFacts
  <2> QED
    BY <1>1, <2>2
<1> QED
  BY <1>1, <1>2, <1>3 DEF Trying, TryInv, StepSound

LEMMA TryingWhere ==
  ASSUME DeepShape, TryInv, deepRun.stage = "try", deepRun.todo # <<>>
  PROVE  \E n : Trying(n)
<1>1. PICK n \in 0 .. 16 : Position(n)
  BY DEF TryInv
<1>2. deepRun.todo = Rest(n)
  BY <1>1 DEF Position
<1>3. n \in 0 .. 15
  BY <1>2, RestFacts
<1>4. Deep!Step = Deep!Script[n + 1]
  <2>1. n < 16
    BY <1>3
  <2>2. Head(Rest(n)) = Deep!Script[n + 1]
    BY <2>1, RestFacts
  <2> QED
    BY <1>2, <2>2 DEF Deep!Step
<1> QED
  BY <1>1, <1>3, <1>4 DEF Trying

\* The next position, when what is left is known to the run.
LEMMA NextPosition ==
  ASSUME NEW n, Trying(n), Advances, DeepShape',
         deepRun'.created \in Seq(Deep!Task), Len(deepRun'.created) = Created(n + 1),
         n + 1 >= 5 => "capability" \in Elements(deepRun'.created),
         deepRun'.deviated => deepRun'.mismatches # {},
         ~deepRun'.deviated /\ ~deepRun'.trouble
            => deepRun'.mismatches = {} /\ adrift' = {} /\ deepChain' = Sound(n + 1),
         LeftOf(deepChain') \subseteq {"creator", "worker"} \cup Elements(deepRun'.created),
         \A k \in adrift' : k.op = "cancelTask"
  PROVE  DeepInv'
<1>1. n + 1 \in 0 .. 16 /\ Tail(deepRun.todo) = Rest(n + 1)
      /\ deepRun.outcome = "pending" /\ deepRun.making = {}
  BY TryingFacts
<1>2. ~Landed'
  BY DEF Advances, Landed
<1>3. Position(n + 1)'
  BY <1>1, <1>2, LeftIsPrimed DEF Advances, Position
<1>4. TryInv'
  BY <1>1, <1>3 DEF Advances, TryInv
<1>5. FinallyInv'
  BY DEF Advances, Trying, FinallyInv
<1> QED
  BY <1>4, <1>5 DEF DeepInv

\* The try block is left by an error, which is the program's or the network's.
LEMMA TryThrows ==
  ASSUME NEW n, Trying(n), Throws, DeepShape', UNCHANGED deepChain,
         deepRun'.deviated \/ deepRun'.trouble,
         \A k \in adrift' : Deep!Making(k) \subseteq Deep!Making(Deep!Step.call)
  PROVE  DeepInv'
<1>1. deepRun.created \in Seq(Deep!Task) /\ Len(deepRun.created) = Created(n) /\ n \in 0 .. 16
      /\ Created(n) \in 0 .. 3
  BY DEF Trying, Position, Created
<1>2. /\ deepRun'.todo \in Seq(CleanSteps)
      /\ Len(deepRun'.todo) = Created(n) + 2
      /\ \A x \in {"creator", "worker"} \cup Elements(deepRun.created) :
            \E i \in 1 .. Created(n) + 2 : Deep!Target(deepRun'.todo[i].call) = x
  BY <1>1, CleanUpFacts DEF Throws
<1>3. ~Landed'
  BY DEF Throws, Landed
<1>4. ASSUME NEW x \in (Deep!Left)' \ deepRun'.making
      PROVE  Scheduled(x)'
  <2>1. x \in {"creator", "worker"} \cup Elements(deepRun.created)
    BY <1>4, LeftIs, LeftIsPrimed DEF Trying, Position, Throws
  <2>2. PICK i \in 1 .. Created(n) + 2 : Deep!Target(deepRun'.todo[i].call) = x
    BY <1>2, <2>1
  <2> QED
    BY <1>2, <1>3, <2>2 DEF Scheduled
<1>5. FinallyInv'
  BY <1>1, <1>2, <1>4 DEF FinallyInv, Throws
<1>6. TryInv'
  BY DEF TryInv, Throws
<1> QED
  BY <1>5, <1>6 DEF DeepInv

\* A call that was lost has left what the run was making, or nothing.
LEMMA CancelMakesNothing ==
  ASSUME NEW k, k.op \in {"cancelTask", "deregisterAgent"}
  PROVE  Deep!Making(k) = {}
BY DEF Deep!Making

\* Types after a step that changes the run alone.
LEMMA ShapeAfter ==
  ASSUME DeepShape, DOMAIN deepRun' = RunFields, Advances \/ Throws,
         deepRun'.trouble \in BOOLEAN, deepRun'.deviated \in BOOLEAN,
         deepChain' \in DeepChains, adrift' \subseteq Calls
  PROVE  DeepShape'
BY DEF DeepShape, Advances, Throws

\* A step the program refuses, or of which the run hears nothing.
LEMMA TryFails ==
  ASSUME NEW n, Trying(n), NEW name, NEW deviating \in BOOLEAN, Deep!Fails(name, deviating),
         UNCHANGED deepChain, adrift' \subseteq adrift \cup {Deep!Step.call},
         deepRun.tx = "sent" => \/ name = "network" /\ ~deviating
                                \/ /\ Deep!Step.kind = "expect" /\ deviating
                                   /\ name \in (Deep!Step.allowed \ Deep!Step.wanted) \cup {"other"}
                                \/ name \in Deep!Errors(deepChain, Deep!Step.call) /\ ~deviating,
         deepRun.tx # "sent" => Landed /\ name = "network" /\ ~deviating,
         name # "network" => UNCHANGED adrift
  PROVE  DeepInv'
<1> DEFINE s == Deep!Step
<1>1. /\ n \in 0 .. 15 /\ StepSound(s, n) /\ s.call \in Calls
      /\ \A k \in adrift : k.op = "cancelTask"
  BY TryingFacts
<1>2. DeepShape /\ Position(n)
  BY DEF Trying
<1>3. /\ DOMAIN deepRun' = RunFields
      /\ deepRun'.trouble \in BOOLEAN /\ deepRun'.deviated \in BOOLEAN
      /\ deepRun'.trouble <=> deepRun.trouble \/ name = "network"
      /\ deepRun'.deviated <=> deepRun.deviated \/ deviating
      /\ deepRun'.created = deepRun.created
      /\ s.kind = "maybe" => Advances /\ deepRun'.mismatches = deepRun.mismatches
      /\ s.kind = "must" => Throws
      /\ s.kind = "expect" /\ name \in s.wanted => Advances /\ deepRun'.mismatches = deepRun.mismatches
      /\ s.kind = "expect" /\ name \in s.allowed \ s.wanted =>
            Advances /\ deepRun'.mismatches = deepRun.mismatches \cup {name}
      /\ s.kind = "expect" /\ name \notin s.allowed \cup s.wanted => Throws
  BY <1>2, FailsFacts
<1>4. deepChain' \in DeepChains /\ adrift' \subseteq Calls /\ deepChain \in DeepChains
  BY <1>1, <1>2 DEF DeepShape
<1> HIDE DEF s
<1>5. \* What happened when the run is in no trouble.
      ~deepRun'.deviated /\ ~deepRun'.trouble =>
         /\ ~deepRun.deviated /\ ~deepRun.trouble /\ deepRun.tx = "sent" /\ ~Landed
         /\ deepChain = Sound(n) /\ deepRun.mismatches = {} /\ adrift = {} /\ adrift' = {}
         /\ name \in Deep!Errors(Sound(n), s.call)
         /\ s.kind = "expect" /\ name \in s.wanted
  BY <1>1, <1>2, <1>3 DEF Position, Landed, StepSound, s
<1>6. CASE Throws
  <2>1. DeepShape'
    BY <1>2, <1>3, <1>4, <1>6, ShapeAfter
  <2>2. deepRun'.deviated \/ deepRun'.trouble
    <3>1. CASE s.kind = "expect" /\ name \in s.wanted
      <4>1. Advances
        BY <1>3, <3>1
      <4>2. deepRun.stage = "try" /\ deepRun'.stage = "finally"
        BY <1>6 DEF Trying, Throws
      <4> QED
        BY <4>1, <4>2 DEF Advances
    <3> QED
      BY <1>5, <3>1
  <2>3. ASSUME NEW k \in adrift' PROVE Deep!Making(k) \subseteq Deep!Making(Deep!Step.call)
    BY <1>1, <2>3, CancelMakesNothing
  <2> QED
    BY <1>6, <2>1, <2>2, <2>3, TryThrows
<1>7. CASE Advances /\ ~Throws
  <2>1. DeepShape'
    BY <1>2, <1>3, <1>4, <1>7, ShapeAfter
  <2>2. s.kind \in {"maybe", "expect"}
    BY <1>1, <1>3, <1>7 DEF StepSound
  <2>3. deepRun'.created \in Seq(Deep!Task) /\ Len(deepRun'.created) = Created(n + 1)
    BY <1>1, <1>2, <1>3, <2>2 DEF Position, StepSound
  <2>4. n + 1 >= 5 => "capability" \in Elements(deepRun'.created)
    BY <1>1, <1>2, <1>3, <2>2 DEF Position, StepSound
  <2>5. s.kind = "expect" => name # "network"
    BY <1>1, <1>3, <1>7 DEF StepSound
  <2>6. deepRun'.deviated => deepRun'.mismatches # {}
    <3>1. CASE s.kind = "expect" /\ name \in s.allowed \ s.wanted
      BY <1>3, <3>1
    <3>2. CASE ~(s.kind = "expect" /\ name \in s.allowed \ s.wanted)
      <4>1. deepRun'.mismatches = deepRun.mismatches
        BY <1>3, <1>7, <2>2, <3>2
      <4>2. ~deviating
        BY <1>1, <1>3, <1>7, <2>5, <3>2 DEF StepSound, Landed, s
      <4>3. deepRun.deviated => deepRun.mismatches # {}
        BY <1>2, <2>2, <2>5 DEF Position, Landed, s
      <4> QED
        BY <1>3, <4>1, <4>2, <4>3
    <3> QED
      BY <3>1, <3>2
  <2>7. ~deepRun'.deviated /\ ~deepRun'.trouble
            => deepRun'.mismatches = {} /\ adrift' = {} /\ deepChain' = Sound(n + 1)
    BY <1>1, <1>3, <1>5 DEF StepSound
  <2>8. LeftOf(deepChain') \subseteq {"creator", "worker"} \cup Elements(deepRun'.created)
    <3>1. Landed => s.kind = "maybe"
      BY <2>2, <2>5 DEF Landed
    <3>2. Landed => Deep!Making(s.call) = {}
      BY <1>1, <3>1, CancelMakesNothing DEF StepSound
    <3> QED
      BY <1>2, <1>3, <3>2, LeftIs DEF Position, s
  <2>9. \A k \in adrift' : k.op = "cancelTask"
    BY <1>1, <2>2, <2>5 DEF StepSound, s
  <2> QED
    BY <1>7, <2>1, <2>3, <2>4, <2>6, <2>7, <2>8, <2>9, NextPosition
<1> QED
  BY <1>1, <1>3, <1>6, <1>7 DEF StepSound

LEMMA TrySend ==
  ASSUME NEW n, Trying(n), Deep!SendStep
  PROVE  DeepInv'
<1>1. DeepShape /\ Position(n) /\ n \in 0 .. 15 /\ deepRun.tx = "none" /\ TryInv
  BY DEF Trying, Deep!SendStep
<1>2. /\ DOMAIN deepRun' = RunFields /\ deepRun'.tx = "sent"
      /\ \A f \in RunFields \ {"tx"} : deepRun'[f] = deepRun[f]
      /\ UNCHANGED <<deepChain, adrift>>
  BY <1>1 DEF Deep!SendStep, DeepShape, RunFields
<1>3. /\ deepRun'.todo = deepRun.todo /\ deepRun'.stage = deepRun.stage
      /\ deepRun'.created = deepRun.created /\ deepRun'.mismatches = deepRun.mismatches
      /\ deepRun'.outcome = deepRun.outcome /\ deepRun'.making = deepRun.making
      /\ deepRun'.trouble = deepRun.trouble /\ deepRun'.deviated = deepRun.deviated
  BY <1>2 DEF RunFields
<1>4. DeepShape'
  BY <1>1, <1>2, <1>3 DEF DeepShape
<1>5. ~Landed /\ ~Landed'
  BY <1>1, <1>2 DEF Landed
<1>6. Position(n)'
  BY <1>1, <1>2, <1>3, <1>5, LeftIs, LeftIsPrimed DEF Position
<1>7. TryInv' /\ FinallyInv'
  BY <1>1, <1>2, <1>3, <1>6 DEF Trying, TryInv, FinallyInv
<1> QED
  BY <1>4, <1>7 DEF DeepInv

LEMMA TryLand ==
  ASSUME NEW n, Trying(n), Deep!LandStep
  PROVE  DeepInv'
<1> DEFINE s == Deep!Step
<1>1. DeepShape /\ Position(n) /\ n \in 0 .. 15 /\ deepRun.tx = "sent" /\ TryInv
  BY DEF Trying, Deep!LandStep
<1>2. StepSound(s, n) /\ s.call \in Calls
  BY TryingFacts
<1>3. /\ deepRun' = [deepRun EXCEPT !.tx = "landed", !.deviated = @ \/ Deep!Probing]
      /\ Deep!Errors(deepChain, s.call) = {} \/ Deep!Probing
      /\ deepChain' = Deep!After(deepChain, s.call) /\ UNCHANGED adrift
  BY DEF Deep!LandStep
<1>4. Deep!Probing \in BOOLEAN /\ (Deep!Probing => s.kind = "expect")
  BY DEF Deep!Probing
<1>5. /\ DOMAIN deepRun' = RunFields /\ deepRun'.tx = "landed"
      /\ \A f \in RunFields \ {"tx", "deviated"} : deepRun'[f] = deepRun[f]
  BY <1>1, <1>3 DEF DeepShape, RunFields
<1>6. deepRun'.deviated = (deepRun.deviated \/ Deep!Probing)
  BY <1>1, <1>3 DEF DeepShape, RunFields
<1>7. deepRun'.deviated \in BOOLEAN /\ (deepRun'.deviated <=> deepRun.deviated \/ Deep!Probing)
  BY <1>1, <1>4, <1>6 DEF DeepShape
<1>8. /\ deepRun'.todo = deepRun.todo /\ deepRun'.stage = deepRun.stage
      /\ deepRun'.created = deepRun.created /\ deepRun'.mismatches = deepRun.mismatches
      /\ deepRun'.outcome = deepRun.outcome /\ deepRun'.making = deepRun.making
      /\ deepRun'.trouble = deepRun.trouble
  BY <1>5 DEF RunFields
<1>9. (Deep!Step)' = s
  BY <1>8 DEF Deep!Step
<1> HIDE DEF s
<1>10. deepChain \in DeepChains /\ deepChain' \in DeepChains
  BY <1>1, <1>2, <1>3, AfterFields DEF DeepShape
<1>11. DeepShape'
  BY <1>1, <1>3, <1>5, <1>7, <1>8, <1>10 DEF DeepShape
<1>12. ~Landed /\ Landed'
  BY <1>1, <1>5 DEF Landed
<1>13. deepRun'.deviated => deepRun'.mismatches # {} \/ s.kind = "expect"
  BY <1>1, <1>4, <1>7, <1>8, <1>12 DEF Position
<1>14. ~deepRun'.deviated /\ ~deepRun'.trouble
          => /\ deepRun'.mismatches = {} /\ adrift' = {}
             /\ s.kind # "expect" /\ deepChain' = Sound(n + 1)
  BY <1>1, <1>2, <1>3, <1>7, <1>8, <1>12 DEF Position, StepSound
<1>15. LeftOf(deepChain') \subseteq {"creator", "worker"} \cup Elements(deepRun'.created)
                                   \cup Deep!Making(s.call)
  <2>1. LeftOf(deepChain) \subseteq {"creator", "worker"} \cup Elements(deepRun.created)
    BY <1>1, <1>12, LeftIs DEF Position
  <2>2. CASE Deep!Errors(deepChain, s.call) = {}
    BY <1>2, <1>3, <1>8, <1>10, <2>1, <2>2, AfterLeft
  <2>3. CASE Deep!Probing
    <3>1. s.call.op = "claimTask" => s.call.task \in Elements(deepRun.created)
      BY <1>1, <1>2, <1>4, <2>3 DEF StepSound, Position
    <3>2. LeftOf(deepChain')
            \subseteq LeftOf(deepChain) \cup Deep!Making(s.call)
                      \cup (IF s.call.op = "claimTask" THEN {s.call.task} ELSE {})
      BY <1>2, <1>3, <1>10, AfterLeft
    <3> QED
      BY <1>8, <2>1, <3>1, <3>2
  <2> QED
    BY <1>3, <2>2, <2>3
<1>16. Position(n)'
  BY <1>1, <1>8, <1>9, <1>12, <1>13, <1>14, <1>15, LeftIsPrimed DEF Position
<1>17. TryInv' /\ FinallyInv'
  BY <1>1, <1>3, <1>8, <1>16 DEF Trying, TryInv, FinallyInv
<1> QED
  BY <1>11, <1>17 DEF DeepInv

LEMMA ElementsAppend ==
  ASSUME NEW s \in Seq(Deep!Task), NEW t \in Deep!Task
  PROVE  /\ Append(s, t) \in Seq(Deep!Task) /\ Len(Append(s, t)) = Len(s) + 1
         /\ Elements(Append(s, t)) = Elements(s) \cup {t}
<1>1. /\ Append(s, t) \in Seq(Deep!Task) /\ Len(Append(s, t)) = Len(s) + 1 /\ Len(s) \in Nat
      /\ \A i \in 1 .. Len(s) : Append(s, t)[i] = s[i]
      /\ Append(s, t)[Len(s) + 1] = t
  BY AppendProperties, LenProperties
<1>2. \A i \in 1 .. Len(s) + 1 : i \in 1 .. Len(s) \/ i = Len(s) + 1
  BY <1>1
<1>3. Len(s) + 1 \in 1 .. Len(s) + 1 /\ \A i \in 1 .. Len(s) : i \in 1 .. Len(s) + 1
  BY <1>1
<1>4. ASSUME NEW x PROVE x \in Elements(Append(s, t)) <=> x \in Elements(s) \cup {t}
  BY <1>1, <1>2, <1>3 DEF Elements
<1> QED
  BY <1>1, <1>4

LEMMA TryConfirm ==
  ASSUME NEW n, Trying(n), Deep!ConfirmStep
  PROVE  DeepInv'
<1> DEFINE s == Deep!Step
<1>1. DeepShape /\ Position(n) /\ n \in 0 .. 15 /\ deepRun.tx = "landed" /\ Landed /\ TryInv
  BY DEF Trying, Deep!ConfirmStep, Landed
<1>2. StepSound(s, n) /\ s.call \in Calls /\ \A k \in adrift : k.op = "cancelTask"
  BY TryingFacts
<1>3. Deep!Succeeds /\ UNCHANGED <<deepChain, adrift>>
  BY DEF Deep!ConfirmStep
<1>4. /\ DOMAIN deepRun' = RunFields
      /\ deepRun'.trouble = deepRun.trouble /\ deepRun'.deviated = deepRun.deviated
      /\ s.kind = "expect" => Throws
      /\ s.kind # "expect" => Advances /\ deepRun'.mismatches = deepRun.mismatches
      /\ s.kind # "expect" =>
            deepRun'.created = IF s.kind = "must" /\ s.call.op = "createTask"
                               THEN Append(deepRun.created, s.call.task) ELSE deepRun.created
  BY <1>1, <1>3, SucceedsFacts
<1>5. DeepShape'
  BY <1>1, <1>3, <1>4, ShapeAfter DEF DeepShape
<1>6. CASE s.kind = "expect"
  <2>1. deepRun'.deviated \/ deepRun'.trouble
    BY <1>1, <1>4, <1>6 DEF Position
  <2>2. ASSUME NEW k \in adrift' PROVE Deep!Making(k) \subseteq Deep!Making(Deep!Step.call)
    BY <1>2, <1>3, <2>2, CancelMakesNothing
  <2> QED
    BY <1>3, <1>4, <1>5, <1>6, <2>1, <2>2, TryThrows
<1>7. CASE s.kind # "expect"
  <2> DEFINE made == s.kind = "must" /\ s.call.op = "createTask"
  <2>1. made => s.call.task \in Deep!Task
    BY <1>2 DEF Calls
  <2>2. deepRun.created \in Seq(Deep!Task) /\ Len(deepRun.created) = Created(n)
    BY <1>1 DEF Position
  <2>3. /\ deepRun'.created \in Seq(Deep!Task) /\ Len(deepRun'.created) = Created(n + 1)
        /\ Elements(deepRun'.created) = Elements(deepRun.created) \cup (IF made THEN {s.call.task} ELSE {})
    <3>1. CASE made
      BY <1>2, <1>4, <1>7, <2>1, <2>2, <3>1, ElementsAppend DEF StepSound
    <3>2. CASE ~made
      BY <1>2, <1>4, <1>7, <2>2, <3>2 DEF StepSound
    <3> QED
      BY <3>1, <3>2
  <2>4. n + 1 >= 5 => "capability" \in Elements(deepRun'.created)
    <3>1. CASE n >= 5
      BY <1>1, <2>3, <3>1 DEF Position
    <3>2. CASE s.kind = "must" /\ s.call = Deep!Call("createTask", "creator", "capability")
      BY <2>3, <3>2, CallFacts
    <3> QED
      BY <1>2, <3>1, <3>2 DEF StepSound
  <2>5. deepRun'.deviated => deepRun'.mismatches # {}
    BY <1>1, <1>4, <1>7 DEF Position
  <2>6. ~deepRun'.deviated /\ ~deepRun'.trouble
            => deepRun'.mismatches = {} /\ adrift' = {} /\ deepChain' = Sound(n + 1)
    BY <1>1, <1>3, <1>4, <1>7 DEF Position
  <2>7. Deep!Making(s.call) \subseteq {"creator", "worker"} \cup (IF made THEN {s.call.task} ELSE {})
    <3>1. CASE s.call.op = "registerAgent"
      BY <1>2, <1>7, <3>1 DEF StepSound, Deep!Making, Deep!Target, Calls
    <3>2. CASE s.call.op = "createTask"
      <4>1. made
        BY <1>2, <1>7, <3>2 DEF StepSound
      <4>2. Deep!Target(s.call) = s.call.task
        BY <1>2, <3>2 DEF Deep!Target, Calls
      <4> QED
        BY <4>1, <4>2 DEF Deep!Making
    <3>3. CASE s.call.op \notin {"registerAgent", "createTask"}
      BY <3>3 DEF Deep!Making
    <3> QED
      BY <3>1, <3>2, <3>3
  <2> HIDE DEF made
  <2>8. LeftOf(deepChain') \subseteq {"creator", "worker"} \cup Elements(deepRun'.created)
    BY <1>1, <1>3, <2>3, <2>7, LeftIs DEF Position
  <2> QED
    BY <1>2, <1>3, <1>4, <1>5, <1>7, <2>3, <2>4, <2>5, <2>6, <2>8, NextPosition
<1> QED
  BY <1>6, <1>7

\* A transaction that the try block lost can only be the one that cancels a task.
LEMMA TryDrift ==
  ASSUME NEW n, n \in 0 .. 16, DeepShape, TryInv, deepRun.stage = "try", Position(n), Deep!DriftAshore
  PROVE  DeepInv'
<1>1. PICK k \in adrift : /\ Deep!Errors(deepChain, k) = {} /\ deepChain' = Deep!After(deepChain, k)
                          /\ adrift' = adrift \ {k} /\ UNCHANGED deepRun
  BY DEF Deep!DriftAshore
<1>2. k \in Calls /\ k.op = "cancelTask" /\ deepChain \in DeepChains /\ Deep!Making(k) = {}
  BY CancelMakesNothing DEF TryInv, DeepShape
<1>3. deepChain' \in DeepChains /\ LeftOf(deepChain') \subseteq LeftOf(deepChain)
  BY <1>1, <1>2, AfterFields, AfterLeft
<1>4. DeepShape'
  BY <1>1, <1>3 DEF DeepShape
<1>5. (Deep!Step)' = Deep!Step /\ Landed' = Landed
  BY <1>1 DEF Deep!Step, Landed
<1>6. deepRun.deviated \/ deepRun.trouble
  BY <1>1 DEF Position
<1>7. Position(n)'
  BY <1>1, <1>3, <1>5, <1>6, LeftIs, LeftIsPrimed DEF Position
<1>8. TryInv' /\ FinallyInv'
  BY <1>1, <1>7 DEF TryInv, FinallyInv
<1> QED
  BY <1>4, <1>8 DEF DeepInv

LEMMA TryVerdict ==
  ASSUME DeepShape, TryInv, Deep!Verdict
  PROVE  DeepInv'
<1>1. PICK n \in 0 .. 16 : Position(n)
  BY DEF TryInv, Deep!Verdict
<1>2. /\ deepRun.stage = "try" /\ deepRun.todo = <<>> /\ UNCHANGED <<deepChain, adrift>>
      /\ deepRun.outcome = "pending" /\ deepRun.making = {}
      /\ \A k \in adrift : k.op = "cancelTask"
  BY DEF Deep!Verdict, TryInv
<1>3. n = 16 /\ ~Landed /\ deepRun.tx = "none"
  <2>1. n \in 0 .. 16 /\ (Rest(n) = <<>> <=> n = 16)
    BY RestFacts
  <2> QED
    BY <1>1, <1>2, <2>1 DEF Position, Landed
<1> DEFINE Passed(read) ==
      /\ read /\ deepChain.tasks["happy"] = "Completed"
      /\ IF deepRun.driftMode = "strict" THEN deepRun.mismatches = {}
         ELSE deepRun.mismatches \subseteq Deep!KNOWN_DEVNET_DRIFT
<1>4. PICK read \in BOOLEAN :
         deepRun' = [deepRun EXCEPT !.todo = Deep!CleanUp(deepRun.created), !.stage = "finally",
                                    !.trouble = @ \/ ~read,
                                    !.outcome = IF Passed(read) THEN "passed" ELSE "threw"]
  BY DEF Deep!Verdict
<1>5. Passed(read) => deepRun.mismatches = {}
  BY DEF Deep!KNOWN_DEVNET_DRIFT
<1>6. ~deepRun.deviated /\ ~deepRun.trouble /\ read => Passed(read)
  <2> SUFFICES ASSUME ~deepRun.deviated, ~deepRun.trouble, read PROVE Passed(read)
    OBVIOUS
  <2>1. deepRun.mismatches = {} /\ deepChain = Sound(16)
    BY <1>1, <1>3 DEF Position
  <2>2. deepChain.tasks["happy"] = "Completed"
    BY <2>1, SoundFields
  <2> QED
    BY <2>1, <2>2
<1> HIDE DEF Passed
<1>7. /\ DOMAIN deepRun' = RunFields
      /\ deepRun'.todo = Deep!CleanUp(deepRun.created) /\ deepRun'.stage = "finally"
      /\ deepRun'.outcome = IF Passed(read) THEN "passed" ELSE "threw"
      /\ \A f \in RunFields \ {"todo", "stage", "trouble", "outcome"} : deepRun'[f] = deepRun[f]
  BY <1>4 DEF DeepShape, RunFields
<1>8. deepRun'.trouble = (deepRun.trouble \/ ~read)
  BY <1>4 DEF DeepShape, RunFields
<1>9. deepRun'.trouble \in BOOLEAN /\ (deepRun'.trouble <=> deepRun.trouble \/ ~read)
  BY <1>8 DEF DeepShape
<1>10. /\ deepRun'.tx = deepRun.tx /\ deepRun'.making = deepRun.making
       /\ deepRun'.deviated = deepRun.deviated /\ deepRun'.created = deepRun.created
  BY <1>7 DEF RunFields
<1>11. DeepShape'
  BY <1>2, <1>7, <1>9, <1>10 DEF DeepShape
<1>12. deepRun.created \in Seq(Deep!Task) /\ Len(deepRun.created) = 3
  BY <1>1, <1>3 DEF Position, Created
<1>13. /\ deepRun'.todo \in Seq(CleanSteps) /\ Len(deepRun'.todo) = 5
       /\ \A x \in {"creator", "worker"} \cup Elements(deepRun.created) :
             \E i \in 1 .. 5 : Deep!Target(deepRun'.todo[i].call) = x
  <2>1. 3 \in 0 .. 3
    OBVIOUS
  <2> QED
    BY <1>7, <1>12, <2>1, CleanUpFacts
<1>14. ASSUME NEW x \in (Deep!Left)' \ deepRun'.making
       PROVE  Scheduled(x)'
  <2>1. x \in {"creator", "worker"} \cup Elements(deepRun.created)
    BY <1>1, <1>2, <1>3, <1>14, LeftIs, LeftIsPrimed DEF Position
  <2>2. PICK i \in 1 .. 5 : Deep!Target(deepRun'.todo[i].call) = x
    BY <1>13, <2>1
  <2>3. ~Landed'
    BY <1>3, <1>10 DEF Landed
  <2> QED
    BY <1>13, <2>2, <2>3 DEF Scheduled
<1>15. deepRun'.outcome = "passed" => ~deepRun'.deviated
  BY <1>1, <1>3, <1>5, <1>7, <1>10 DEF Position
<1>16. deepRun'.outcome = "threw" => deepRun'.deviated \/ deepRun'.trouble
  BY <1>6, <1>7, <1>9, <1>10
<1>17. \A k \in adrift' : Deep!Making(k) \subseteq deepRun'.making
  BY <1>2, CancelMakesNothing
<1>18. FinallyInv' /\ TryInv'
  BY <1>7, <1>13, <1>14, <1>15, <1>16, <1>17 DEF FinallyInv, TryInv
<1> QED
  BY <1>11, <1>18 DEF DeepInv

-----------------------------------------------------------------------------
(* The steps of the finally block.                                         *)

Clearing == DeepShape /\ FinallyInv /\ deepRun.stage = "finally" /\ deepRun.todo # <<>>

LEMMA ClearingFacts ==
  ASSUME Clearing
  PROVE  /\ Deep!Step \in CleanSteps /\ Deep!Step.kind = "maybe" /\ Deep!Step.call \in Calls
         /\ Deep!Step.call.op \in {"cancelTask", "deregisterAgent"} /\ Deep!Making(Deep!Step.call) = {}
         /\ Deep!Step = deepRun.todo[1] /\ Len(deepRun.todo) \in Nat /\ 1 <= Len(deepRun.todo)
         /\ Tail(deepRun.todo) \in Seq(CleanSteps) /\ Len(Tail(deepRun.todo)) = Len(deepRun.todo) - 1
         /\ \A i \in 1 .. Len(deepRun.todo) - 1 : Tail(deepRun.todo)[i] = deepRun.todo[i + 1]
         /\ ~Deep!Probing
<1> DEFINE u == deepRun.todo
<1>1. u \in Seq(CleanSteps) /\ u # <<>>
  BY DEF Clearing, FinallyInv
<1>2. Deep!Step = Head(u)
  BY DEF Deep!Step
<1> HIDE DEF u
<1>3. /\ Head(u) \in CleanSteps /\ Tail(u) \in Seq(CleanSteps) /\ Len(Tail(u)) = Len(u) - 1
      /\ \A i \in 1 .. Len(Tail(u)) : Tail(u)[i] = u[i + 1]
  BY <1>1, HeadTailProperties
<1>4. Len(u) \in Nat /\ 1 <= Len(u)
  BY <1>1, LenProperties, EmptySeq
<1>5. Head(u) = u[1]
  BY <1>1
<1>6. Deep!Step.kind = "maybe" /\ Deep!Step.call \in Calls
      /\ Deep!Step.call.op \in {"cancelTask", "deregisterAgent"} /\ Deep!Making(Deep!Step.call) = {}
  BY <1>2, <1>3, CleanStepFacts
<1> QED
  BY <1>2, <1>3, <1>4, <1>5, <1>6 DEF u, Deep!Probing

\* What was scheduled and is not what was just seen to stays scheduled.
LEMMA StillScheduled ==
  ASSUME Clearing, deepRun'.todo = Tail(deepRun.todo), deepRun'.tx = "none",
         NEW x, Scheduled(x), Landed \/ Deep!Target(Deep!Step.call) # x
  PROVE  Scheduled(x)'
<1>1. /\ Deep!Step = deepRun.todo[1] /\ Len(deepRun.todo) \in Nat
      /\ Len(Tail(deepRun.todo)) = Len(deepRun.todo) - 1
      /\ \A i \in 1 .. Len(deepRun.todo) - 1 : Tail(deepRun.todo)[i] = deepRun.todo[i + 1]
  BY ClearingFacts
<1>2. PICK i \in 1 .. Len(deepRun.todo) :
         Deep!Target(deepRun.todo[i].call) = x /\ ~(i = 1 /\ Landed)
  BY DEF Scheduled
<1>3. i # 1
  BY <1>1, <1>2
<1>4. i - 1 \in 1 .. Len(deepRun.todo) - 1 /\ (i - 1) + 1 = i
  BY <1>1, <1>2, <1>3
<1>5. Tail(deepRun.todo)[i - 1] = deepRun.todo[i]
  BY <1>1, <1>4
<1>6. i - 1 \in 1 .. Len(deepRun'.todo) /\ Deep!Target(deepRun'.todo[i - 1].call) = x
  BY <1>1, <1>2, <1>4, <1>5
<1>7. ~Landed'
  BY DEF Landed
<1> QED
  BY <1>6, <1>7 DEF Scheduled

\* The finally block after a step: what must still hold is the explanation.
LEMMA StillClearing ==
  ASSUME Clearing, DeepShape', deepRun'.stage = "finally",
         deepRun'.todo = deepRun.todo \/ deepRun'.todo = Tail(deepRun.todo),
         deepRun'.outcome = deepRun.outcome, deepRun'.making = deepRun.making,
         deepRun'.deviated <=> deepRun.deviated, deepRun.trouble => deepRun'.trouble,
         \A k \in adrift' : k \in adrift \/ Deep!Making(k) = {},
         \A x \in LeftOf(deepChain') \ deepRun.making : Scheduled(x)' \/ Explained(x)'
  PROVE  DeepInv'
<1>1. deepRun'.todo \in Seq(CleanSteps) /\ Len(deepRun'.todo) <= 16
  <2>1. deepRun.todo \in Seq(CleanSteps) /\ Len(deepRun.todo) <= 16
    BY DEF Clearing, FinallyInv
  <2>2. Tail(deepRun.todo) \in Seq(CleanSteps) /\ Len(Tail(deepRun.todo)) <= 16
    BY <2>1, ClearingFacts
  <2> QED
    BY <2>1, <2>2
<1>2. FinallyInv'
  BY <1>1, LeftIsPrimed DEF Clearing, FinallyInv
<1> QED
  BY <1>2 DEF DeepInv, TryInv

LEMMA ClearSend ==
  ASSUME Clearing, Deep!SendStep
  PROVE  DeepInv'
<1>1. /\ DOMAIN deepRun' = RunFields /\ deepRun'.tx = "sent" /\ deepRun.tx = "none"
      /\ \A f \in RunFields \ {"tx"} : deepRun'[f] = deepRun[f]
      /\ UNCHANGED <<deepChain, adrift>>
  BY DEF Deep!SendStep, Clearing, DeepShape, RunFields
<1>2. /\ deepRun'.todo = deepRun.todo /\ deepRun'.stage = deepRun.stage
      /\ deepRun'.outcome = deepRun.outcome /\ deepRun'.making = deepRun.making
      /\ deepRun'.warned = deepRun.warned
      /\ deepRun'.trouble = deepRun.trouble /\ deepRun'.deviated = deepRun.deviated
  BY <1>1 DEF RunFields
<1>3. DeepShape'
  BY <1>1, <1>2 DEF Clearing, DeepShape
<1>4. ASSUME NEW x \in LeftOf(deepChain') \ deepRun.making
      PROVE  Scheduled(x)' \/ Explained(x)'
  <2>1. Scheduled(x) \/ Explained(x)
    BY <1>1, <1>4, LeftIs DEF Clearing, FinallyInv
  <2> QED
    BY <1>1, <1>2, <2>1 DEF Scheduled, Explained, Landed
<1> QED
  BY <1>1, <1>2, <1>3, <1>4, StillClearing DEF Clearing

LEMMA ClearLand ==
  ASSUME Clearing, Deep!LandStep
  PROVE  DeepInv'
<1> DEFINE s == Deep!Step
<1>1. /\ s = deepRun.todo[1] /\ s.call \in Calls /\ Deep!Making(s.call) = {} /\ ~Deep!Probing
      /\ s.call.op \in {"cancelTask", "deregisterAgent"}
  BY ClearingFacts
<1>2. /\ deepRun' = [deepRun EXCEPT !.tx = "landed", !.deviated = @ \/ Deep!Probing]
      /\ Deep!Errors(deepChain, s.call) = {} /\ deepRun.tx = "sent"
      /\ deepChain' = Deep!After(deepChain, s.call) /\ UNCHANGED adrift
  BY <1>1 DEF Deep!LandStep
<1>3. /\ DOMAIN deepRun' = RunFields /\ deepRun'.tx = "landed"
      /\ \A f \in RunFields \ {"tx", "deviated"} : deepRun'[f] = deepRun[f]
  BY <1>2 DEF Clearing, DeepShape, RunFields
<1>4. deepRun'.deviated = (deepRun.deviated \/ Deep!Probing)
  BY <1>2 DEF Clearing, DeepShape, RunFields
<1>5. deepRun'.deviated \in BOOLEAN /\ (deepRun'.deviated <=> deepRun.deviated)
  BY <1>1, <1>4 DEF Clearing, DeepShape
<1>6. /\ deepRun'.todo = deepRun.todo /\ deepRun'.stage = deepRun.stage
      /\ deepRun'.outcome = deepRun.outcome /\ deepRun'.making = deepRun.making
      /\ deepRun'.warned = deepRun.warned /\ deepRun'.trouble = deepRun.trouble
  BY <1>3 DEF RunFields
<1> HIDE DEF s
<1>7. deepChain \in DeepChains /\ deepChain' \in DeepChains
  BY <1>1, <1>2, AfterFields DEF Clearing, DeepShape
<1>8. DeepShape'
  BY <1>2, <1>3, <1>5, <1>6, <1>7 DEF Clearing, DeepShape
<1>9. /\ LeftOf(deepChain') \subseteq LeftOf(deepChain)
      /\ Deep!Target(s.call) \notin LeftOf(deepChain')
  BY <1>1, <1>2, <1>7, AfterLeft
<1>10. ASSUME NEW x \in LeftOf(deepChain') \ deepRun.making
       PROVE  Scheduled(x)' \/ Explained(x)'
  <2>1. Scheduled(x) \/ Explained(x)
    BY <1>9, <1>10, LeftIs DEF Clearing, FinallyInv
  <2>2. Explained(x) => Explained(x)'
    BY <1>6 DEF Explained
  <2>3. ASSUME Scheduled(x) PROVE Scheduled(x)'
    <3>1. PICK i \in 1 .. Len(deepRun.todo) : Deep!Target(deepRun.todo[i].call) = x
      BY <2>3 DEF Scheduled
    <3>2. i # 1
      BY <1>1, <1>9, <1>10, <3>1
    <3> QED
      BY <1>6, <3>1, <3>2 DEF Scheduled
  <2> QED
    BY <2>1, <2>2, <2>3
<1> QED
  BY <1>2, <1>5, <1>6, <1>8, <1>10, StillClearing DEF Clearing

\* A refusal, or no answer: the run warns, for a good reason or of nothing that is left.
LEMMA ClearFails ==
  ASSUME Clearing, NEW name, Deep!Fails(name, FALSE), UNCHANGED deepChain,
         \A k \in adrift' : k \in adrift \/ k = Deep!Step.call,
         name = "network" \/ name \in Deep!Errors(deepChain, Deep!Step.call)
  PROVE  DeepInv'
<1> DEFINE s == Deep!Step
<1>1. s \in CleanSteps /\ s.kind = "maybe" /\ s.call \in Calls /\ Deep!Making(s.call) = {}
  BY ClearingFacts
<1>2. DeepShape /\ deepRun.stage = "finally"
  BY DEF Clearing
<1>3. /\ DOMAIN deepRun' = RunFields
      /\ deepRun'.trouble \in BOOLEAN /\ deepRun'.deviated \in BOOLEAN
      /\ deepRun'.trouble <=> deepRun.trouble \/ name = "network"
      /\ deepRun'.deviated <=> deepRun.deviated \/ FALSE
      /\ Advances
      /\ deepRun'.warned = deepRun.warned \cup {<<Deep!Target(s.call), name>>}
  BY <1>1, <1>2, FailsFacts
<1> HIDE DEF s
<1>4. adrift' \subseteq Calls /\ deepChain' \in DeepChains /\ deepChain \in DeepChains
  BY <1>1, <1>2 DEF DeepShape, s
<1>5. DeepShape'
  BY <1>2, <1>3, <1>4, ShapeAfter
<1>6. ASSUME NEW x \in LeftOf(deepChain') \ deepRun.making
      PROVE  Scheduled(x)' \/ Explained(x)'
  <2>1. Scheduled(x) \/ Explained(x)
    BY <1>6, LeftIs DEF Clearing, FinallyInv
  <2>2. Explained(x) => Explained(x)'
    BY <1>3 DEF Explained
  <2>3. CASE Deep!Target(s.call) = x
    <3>1. name \in GoodReasons
      BY <1>1, <1>4, <1>6, <2>3, CleanErrors DEF GoodReasons, s
    <3> QED
      BY <1>3, <2>3, <3>1 DEF Explained
  <2>4. CASE Deep!Target(s.call) # x
    BY <1>3, <2>1, <2>2, <2>4, StillScheduled DEF Advances, s
  <2> QED
    BY <2>3, <2>4
<1>7. \A k \in adrift' : k \in adrift \/ Deep!Making(k) = {}
  BY <1>1 DEF s
<1> QED
  BY <1>2, <1>3, <1>5, <1>6, <1>7, StillClearing DEF Advances

LEMMA ClearConfirm ==
  ASSUME Clearing, Deep!ConfirmStep
  PROVE  DeepInv'
<1>1. DeepShape /\ deepRun.stage = "finally" /\ Landed /\ Deep!Succeeds /\ UNCHANGED <<deepChain, adrift>>
  BY DEF Clearing, Deep!ConfirmStep, Landed
<1>2. /\ DOMAIN deepRun' = RunFields /\ Advances
      /\ deepRun'.trouble = deepRun.trouble /\ deepRun'.deviated = deepRun.deviated
      /\ deepRun'.warned = deepRun.warned
  BY <1>1, ClearingFacts, SucceedsFacts
<1>3. DeepShape'
  BY <1>1, <1>2, ShapeAfter DEF DeepShape
<1>4. ASSUME NEW x \in LeftOf(deepChain') \ deepRun.making
      PROVE  Scheduled(x)' \/ Explained(x)'
  <2>1. Scheduled(x) \/ Explained(x)
    BY <1>1, <1>4, LeftIs DEF Clearing, FinallyInv
  <2>2. Explained(x) => Explained(x)'
    BY <1>2 DEF Explained
  <2> QED
    BY <1>1, <1>2, <2>1, <2>2, StillScheduled DEF Advances
<1> QED
  BY <1>1, <1>2, <1>3, <1>4, StillClearing DEF Advances

\* A transaction that arrives late brings back nothing but what the run was making.
LEMMA ClearDrift ==
  ASSUME DeepShape, FinallyInv, deepRun.stage = "finally", Deep!DriftAshore
  PROVE  DeepInv'
<1>1. PICK k \in adrift : /\ Deep!Errors(deepChain, k) = {} /\ deepChain' = Deep!After(deepChain, k)
                          /\ adrift' = adrift \ {k} /\ UNCHANGED deepRun
  BY DEF Deep!DriftAshore
<1>2. k \in Calls /\ deepChain \in DeepChains /\ Deep!Making(k) \subseteq deepRun.making
  BY DEF FinallyInv, DeepShape
<1>3. deepChain' \in DeepChains /\ LeftOf(deepChain') \subseteq LeftOf(deepChain) \cup deepRun.making
  BY <1>1, <1>2, AfterFields, AfterLeft
<1>4. DeepShape'
  BY <1>1, <1>3 DEF DeepShape
<1>5. \A x : (Scheduled(x)' <=> Scheduled(x)) /\ (Explained(x)' <=> Explained(x))
  BY <1>1 DEF Scheduled, Explained, Landed
<1>6. FinallyInv' /\ TryInv'
  BY <1>1, <1>3, <1>5, LeftIs, LeftIsPrimed DEF FinallyInv, TryInv
<1> QED
  BY <1>4, <1>6 DEF DeepInv

-----------------------------------------------------------------------------
LEMMA DeepStart == Deep!DeepInit => DeepInv
<1> SUFFICES ASSUME Deep!DeepInit PROVE DeepInv
  OBVIOUS
<1>1. /\ deepChain = [agents |-> {}, tasks |-> [t \in Deep!Task |-> "none"],
                      claims |-> [t \in Deep!Task |-> {}]]
      /\ \E driftMode \in DriftMode :
            deepRun = [todo |-> Deep!Script, stage |-> "try", tx |-> "none", created |-> <<>>,
                       mismatches |-> {}, outcome |-> "pending", making |-> {}, warned |-> {},
                       trouble |-> FALSE, deviated |-> FALSE, driftMode |-> driftMode]
      /\ adrift = {}
  BY DEF Deep!DeepInit
<1>2. /\ DOMAIN deepRun = RunFields
      /\ deepRun.todo = Deep!Script /\ deepRun.stage = "try" /\ deepRun.tx = "none"
      /\ deepRun.created = <<>> /\ deepRun.mismatches = {} /\ deepRun.outcome = "pending"
      /\ deepRun.making = {} /\ ~deepRun.trouble /\ ~deepRun.deviated
      /\ deepRun.trouble \in BOOLEAN /\ deepRun.deviated \in BOOLEAN
  BY <1>1 DEF RunFields
<1>3. deepChain = Sound(0)
  BY <1>1 DEF Sound, Deep!Task
<1>4. deepChain \in DeepChains
  BY <1>3, SoundFields
<1>5. DeepShape
  BY <1>1, <1>2, <1>4 DEF DeepShape
<1>6. deepRun.todo = Rest(0)
  <2>1. Deep!Script \in Seq(Steps) /\ Len(Deep!Script) = 16
    BY ScriptIs
  <2>2. SubSeq(Deep!Script, 1, Len(Deep!Script)) = Deep!Script
    BY <2>1, SubSeqFull
  <2> QED
    BY <1>2, <2>1, <2>2 DEF Rest
<1>7. Deep!Left = {}
  BY <1>1 DEF Deep!Left
<1>8. <<>> \in Seq(Deep!Task) /\ Len(<<>>) = 0
  BY EmptySeq
<1>9. Position(0)
  BY <1>1, <1>2, <1>3, <1>6, <1>7, <1>8 DEF Position, Created, Landed
<1>10. TryInv /\ FinallyInv
  BY <1>1, <1>2, <1>9 DEF TryInv, FinallyInv
<1> QED
  BY <1>5, <1>10 DEF DeepInv

LEMMA DeepStepKeeps ==
  ASSUME DeepInv, Deep!DeepNext
  PROVE  DeepInv'
<1>1. CASE DeepOver
  BY <1>1 DEF DeepOver, Deep!DeepNext, Deep!SendStep, Deep!LandStep, Deep!RefuseStep, Deep!RpcThrows,
              Deep!ConfirmStep, Deep!ConfirmThrows, Deep!DriftAshore, Deep!Verdict, Deep!Waiting
<1>2. ASSUME DeepShape, TryInv, FinallyInv
      PROVE  DeepInv'
  <2>1. deepRun.stage = "try" \/ deepRun.stage = "finally"
    BY <1>2 DEF DeepShape
  <2>2. ASSUME deepRun.stage = "try", Deep!Waiting PROVE \E n : Trying(n)
    BY <1>2, <2>2, TryingWhere DEF Deep!Waiting
  <2>3. ASSUME deepRun.stage = "finally", Deep!Waiting PROVE Clearing
    BY <1>2, <2>3 DEF Clearing, Deep!Waiting
  <2>4. CASE Deep!SendStep
    BY <2>1, <2>2, <2>3, <2>4, TrySend, ClearSend DEF Deep!SendStep
  <2>5. CASE Deep!LandStep
    BY <2>1, <2>2, <2>3, <2>5, TryLand, ClearLand DEF Deep!LandStep
  <2>6. CASE Deep!RefuseStep
    <3>1. Deep!Waiting /\ deepRun.tx = "sent" /\ UNCHANGED <<deepChain, adrift>>
      BY <2>6 DEF Deep!RefuseStep
    <3>2. ASSUME NEW name \in Deep!Errors(deepChain, Deep!Step.call), Deep!Fails(name, FALSE)
          PROVE  DeepInv'
      <4>1. CASE deepRun.stage = "try"
        <5>1. PICK n : Trying(n)
          BY <2>2, <3>1, <4>1
        <5> QED
          BY <3>1, <3>2, <5>1, TryFails
      <4>2. CASE deepRun.stage = "finally"
        BY <2>3, <3>1, <3>2, <4>2, ClearFails
      <4> QED
        BY <2>1, <4>1, <4>2
    <3>3. ASSUME Deep!Probing, NEW name \in (Deep!Step.allowed \ Deep!Step.wanted) \cup {"other"},
                 Deep!Fails(name, TRUE)
          PROVE  DeepInv'
      <4>1. CASE deepRun.stage = "try"
        <5>1. PICK n : Trying(n)
          BY <2>2, <3>1, <4>1
        <5>2. Deep!Step.kind = "expect"
          BY <3>3 DEF Deep!Probing
        <5> QED
          BY <3>1, <3>3, <5>1, <5>2, TryFails
      <4>2. CASE deepRun.stage = "finally"
        BY <2>3, <3>1, <3>3, <4>2, ClearingFacts
      <4> QED
        BY <2>1, <4>1, <4>2
    <3> QED
      BY <2>6, <3>2, <3>3 DEF Deep!RefuseStep
  <2>7. CASE Deep!RpcThrows
    <3>1. /\ Deep!Waiting /\ deepRun.tx = "sent" /\ Deep!Fails("network", FALSE) /\ UNCHANGED deepChain
          /\ adrift' \subseteq adrift \cup {Deep!Step.call}
      BY <2>7 DEF Deep!RpcThrows
    <3>2. CASE deepRun.stage = "try"
      <4>1. PICK n : Trying(n)
        BY <2>2, <3>1, <3>2
      <4> QED
        BY <3>1, <4>1, TryFails
    <3>3. CASE deepRun.stage = "finally"
      BY <2>3, <3>1, <3>3, ClearFails
    <3> QED
      BY <2>1, <3>2, <3>3
  <2>8. CASE Deep!ConfirmStep
    BY <2>1, <2>2, <2>3, <2>8, TryConfirm, ClearConfirm DEF Deep!ConfirmStep
  <2>9. CASE Deep!ConfirmThrows
    <3>1. /\ Deep!Waiting /\ deepRun.tx = "landed" /\ Deep!Fails("network", FALSE)
          /\ UNCHANGED <<deepChain, adrift>>
      BY <2>9 DEF Deep!ConfirmThrows
    <3>2. CASE deepRun.stage = "try"
      <4>1. PICK n : Trying(n)
        BY <2>2, <3>1, <3>2
      <4>2. Landed
        BY <3>1 DEF Landed
      <4> QED
        BY <3>1, <4>1, <4>2, TryFails
    <3>3. CASE deepRun.stage = "finally"
      BY <2>3, <3>1, <3>3, ClearFails
    <3> QED
      BY <2>1, <3>2, <3>3
  <2>10. CASE Deep!DriftAshore
    <3>1. CASE deepRun.stage = "try"
      <4>1. PICK n \in 0 .. 16 : Position(n)
        BY <1>2, <3>1 DEF TryInv
      <4> QED
        BY <1>2, <2>10, <3>1, <4>1, TryDrift
    <3> QED
      BY <1>2, <2>1, <2>10, <3>1, ClearDrift
  <2>11. CASE Deep!Verdict
    BY <1>2, <2>11, TryVerdict
  <2> QED
    BY <2>4, <2>5, <2>6, <2>7, <2>8, <2>9, <2>10, <2>11 DEF Deep!DeepNext
<1> QED
  BY <1>1, <1>2 DEF DeepInv

LEMMA DeepInvariant == ScriptsSpec => []DeepInv
<1>1. ScriptsInit => DeepInv
  BY DeepStart DEF ScriptsInit, DeepOff, DeepInv, DeepOver
<1>2. DeepInv /\ [ScriptsNext]_scriptsVars => DeepInv'
  <2> SUFFICES ASSUME DeepInv, [ScriptsNext]_scriptsVars PROVE DeepInv'
    OBVIOUS
  <2>1. CASE Deep!DeepNext
    BY <2>1, DeepStepKeeps
  <2>2. CASE UNCHANGED <<deepChain, deepRun, adrift>>
    BY <2>2 DEF DeepInv, DeepOver, DeepShape, TryInv, FinallyInv, Position, Landed, Scheduled, Explained,
                Deep!Step, Deep!Left
  <2> QED
    BY <2>1, <2>2 DEF ScriptsNext, scriptsVars
<1> QED
  BY <1>1, <1>2, PTL DEF ScriptsSpec

(***************************************************************************)
(* The deep run's verdict is right, however many of its transactions are   *)
(* adrift: it passes only when the deployed program refused every probe as *)
(* the sources do, and fails only when it did not or the network failed.   *)
(***************************************************************************)
THEOREM DeepVerdictIsRight == ScriptsSpec => []VerdictIsRight
<1>1. DeepInv => VerdictIsRight
  BY DEF DeepInv, DeepOver, DeepShape, TryInv, FinallyInv, VerdictIsRight, Deep!VerdictIsRight
<1> QED
  BY <1>1, DeepInvariant, PTL

(***************************************************************************)
(* What the deep run leaves behind it has warned about, because of the     *)
(* network or of a live claim, except for what the step it stopped at was  *)
(* making.                                                                 *)
(***************************************************************************)
THEOREM DeepLeavesExplained == ScriptsSpec => []LeftBehindExplained
<1>1. DeepInv => LeftBehindExplained
  <2> SUFFICES ASSUME DeepInv, Deep!Over, NEW x \in Deep!Left \ deepRun.making
               PROVE  Explained(x)
    BY DEF LeftBehindExplained, Deep!LeftBehindExplained, Explained, GoodReasons
  <2>1. FinallyInv /\ deepRun.stage = "finally" /\ deepRun.todo = <<>>
    BY DEF DeepInv, DeepOver, Deep!Over
  <2>2. ~Scheduled(x)
    BY <2>1, EmptySeq DEF Scheduled
  <2> QED
    BY <2>1, <2>2 DEF FinallyInv
<1> QED
  BY <1>1, DeepInvariant, PTL

(***************************************************************************)
(* Type correctness of both runs: no step of one or of any process of the  *)
(* other leaves the states described.                                      *)
(***************************************************************************)
THEOREM ScriptsTypesCorrect == ScriptsSpec => []ScriptsTypeOK
<1>1. RepInv /\ repRun.phase # "off" => Rep!RepTypeOK
  BY DEF RepInv, RepShape, Knows, ResumeRecord, Rep!RepTypeOK
<1>2. DeepInv /\ deepRun.stage # "off" => Deep!DeepTypeOK
  <2> SUFFICES ASSUME DeepInv, deepRun.stage # "off" PROVE Deep!DeepTypeOK
    OBVIOUS
  <2>1. DeepShape /\ TryInv /\ FinallyInv
    BY DEF DeepInv, DeepOver
  <2>2. Len(deepRun.todo) <= Len(Deep!Script)
    <3>1. CASE deepRun.stage = "try"
      <4>1. PICK n \in 0 .. 16 : Position(n)
        BY <2>1, <3>1 DEF TryInv
      <4>2. n \in 0 .. 16 /\ Len(Rest(n)) = 16 - n
        BY RestFacts
      <4>3. deepRun.todo = Rest(n)
        BY <4>1 DEF Position
      <4> QED
        BY <4>2, <4>3, ScriptIs
    <3>2. CASE deepRun.stage = "finally"
      BY <2>1, <3>2, ScriptIs DEF FinallyInv
    <3> QED
      BY <2>1, <3>1, <3>2 DEF DeepShape
  <2> QED
    BY <2>1, <2>2 DEF DeepShape, DeepChains, TaskStates, Deep!DeepTypeOK
<1>3. RepInv /\ DeepInv => ScriptsTypeOK
  BY <1>1, <1>2 DEF ScriptsTypeOK
<1> QED
  BY <1>3, RepInvariant, DeepInvariant, PTL
=============================================================================
