--------------------------- MODULE TaskMarketProofs ---------------------------
(***************************************************************************)
(* Proofs about TaskMarket, for every set of agents, arbiters and kinds of *)
(* task, every list of signers and every threshold.  The invariant has six *)
(* parts: the fields of the task (ChainInv) and how they hang together     *)
(* (OrderedInv), how far a call is that has executed so many transactions  *)
(* (CallInv), that the second one of a creation sets the job spec          *)
(* (SpecInv), that the options of an informed caller are in order          *)
(* (InformedInv), and that they still fit the task while nobody else has   *)
(* touched it (FreshInv).                                                  *)
(***************************************************************************)
EXTENDS TaskMarket, FiniteSetTheorems, SequenceTheorems, WellFoundedInduction, TLAPS

\* The call as a record, with the fields that every step relies on.
IsCall(k) ==
    k = [op |-> k.op, agent |-> k.agent, by |-> k.by, o |-> k.o, informed |-> k.informed,
         phase |-> k.phase, todo |-> k.todo, landed |-> k.landed, moved |-> k.moved]

\* What an operation may be about, and with which options.
SoundCall(k) ==
    /\ IsCall(k)
    /\ k.op \in Op /\ k.agent \in Agent
    /\ k.op = "voteDispute" => k.by \in Arbiter
    /\ k.op = "configureTaskValidation" => k.o.mode \in Modes
    /\ k.phase \in Phase

\* How many transactions were executed in each phase, and that whatever was
\* sent had passed the checks of the SDK.
Progress(k) ==
    /\ k.landed \in 0..Need(k)
    /\ k.phase \in {"reading", "sent", "late"} => k.landed < Need(k)
    /\ k.phase = "landed" => k.landed >= 1
    /\ k.phase = "refused" => k.landed = 0
    /\ k.phase = "returned" => k.landed = Need(k)
    /\ k.landed > 0 \/ k.phase \in {"sent", "late"} => k.todo = <<>> /\ ~Refused(k)

CallInv == call = NoCall \/ (SoundCall(call) /\ Progress(call))

-----------------------------------------------------------------------------
(* The call.                                                               *)

\* Neither the options nor what they stand for depend on how far a call is.
LEMMA SameOptions ==
    ASSUME NEW k, NEW l, k.op = l.op, k.o = l.o
    PROVE  Need(k) = Need(l) /\ (Refused(k) <=> Refused(l))
BY DEF Need, Refused

\* A call stands for one or two transactions.
LEMMA NeedFacts == ASSUME NEW k PROVE Need(k) \in 1..2 /\ (Need(k) = 2 => k.op = "createTask")
BY DEF Need

\* A step that changes nothing but the phase of a call.
LEMMA GotoFacts ==
    ASSUME NEW k, SoundCall(k), NEW p \in Phase, NEW l, l = [k EXCEPT !.phase = p]
    PROVE  /\ SoundCall(l) /\ l.phase = p /\ l.op = k.op /\ l.o = k.o
           /\ l.landed = k.landed /\ l.todo = k.todo /\ l.informed = k.informed
           /\ l.agent = k.agent /\ l.by = k.by /\ l.moved = k.moved
BY DEF SoundCall, IsCall

\* A phase is no other than its name.
LEMMA PhaseFacts ==
    /\ "idle" \notin Phase
    /\ Phase = {"reading", "sent", "landed", "late", "returned", "refused", "threw"}
BY DEF Phase, Settled

\* The agent of an operation is one, even where it does not matter.
LEMMA AgentsFacts == ASSUME NEW op, NEW a \in Agents(op) PROVE a \in Agent
BY MarketAssumption DEF Agents

\* The caller of a vote is an arbiter.
LEMMA CallersFacts == ASSUME NEW a PROVE Callers("voteDispute", a) = Arbiter
BY DEF Callers

\* The options with a validation mode have one that can be configured.
LEMMA ModeFacts ==
    ASSUME NEW c, NEW by, NEW a, NEW informed \in BOOLEAN,
           NEW o \in IF informed THEN Informed(c, "configureTaskValidation", by, a)
                     ELSE Careless("configureTaskValidation", a)
    PROVE  o.mode \in Modes
<1>1. "configureTaskValidation" \notin BidOp \cup MultisigOp
  BY DEF BidOp, MultisigOp, ProtocolOp
<1>2. Careless("configureTaskValidation", a) = {}
  BY <1>1 DEF Careless
<1>3. Informed(c, "configureTaskValidation", by, a) = [mode : Modes]
  BY <1>1 DEF Informed, Modes
<1> QED BY <1>2, <1>3

\* A call whose caller passes what fits the task, and which task c is in order
\* for.
Ready(c, k) ==
    /\ k.op \in Op /\ k.agent \in Agent /\ k.by \in Callers(k.op, k.agent) /\ k.landed = 0
    /\ k.o \in Informed(c, k.op, k.by, k.agent)
    /\ StatusErrors(c, [op |-> k.op, agent |-> k.agent, by |-> k.by]) = {}

\* The call that Start makes.
LEMMA StartFacts ==
    ASSUME Start
    PROVE  /\ call.phase = "idle" /\ chain' = chain
           /\ SoundCall(call') /\ call'.phase = "reading" /\ call'.landed = 0
           /\ call'.informed = TRUE => Ready(chain, call')
<1> DEFINE Made(op, a, by, informed, o) ==
        /\ StatusErrors(chain, [op |-> op, agent |-> a, by |-> by]) = {}
        /\ call' = [op |-> op, agent |-> a, by |-> by, o |-> o, informed |-> informed,
                    phase |-> "reading", todo |-> Reads(op), landed |-> 0, moved |-> FALSE]
<1>a. PICK op \in Op : \E a \in Agents(op) : \E by \in Callers(op, a) : \E informed \in BOOLEAN :
        \E o \in IF informed THEN Informed(chain, op, by, a) ELSE Careless(op, a) :
           Made(op, a, by, informed, o)
  BY DEF Start
<1>b. PICK a \in Agents(op) : \E by \in Callers(op, a) : \E informed \in BOOLEAN :
        \E o \in IF informed THEN Informed(chain, op, by, a) ELSE Careless(op, a) :
           Made(op, a, by, informed, o)
  BY <1>a
<1>c. PICK by \in Callers(op, a) : \E informed \in BOOLEAN :
        \E o \in IF informed THEN Informed(chain, op, by, a) ELSE Careless(op, a) :
           Made(op, a, by, informed, o)
  BY <1>b
<1>d. PICK informed \in BOOLEAN :
        \E o \in IF informed THEN Informed(chain, op, by, a) ELSE Careless(op, a) :
           Made(op, a, by, informed, o)
  BY <1>c
<1>1. PICK o \in IF informed THEN Informed(chain, op, by, a) ELSE Careless(op, a) :
        Made(op, a, by, informed, o)
  BY <1>d
<1>2. call.phase = "idle" /\ chain' = chain
  BY DEF Start, At
<1>3. /\ IsCall(call') /\ call'.op = op /\ call'.agent = a /\ call'.by = by /\ call'.o = o
      /\ call'.informed = informed /\ call'.phase = "reading" /\ call'.landed = 0
  BY <1>1 DEF IsCall
<1>4. a \in Agent
  BY AgentsFacts
<1>5. op = "voteDispute" => by \in Arbiter
  BY CallersFacts
<1>6. op = "configureTaskValidation" => o.mode \in Modes
  BY ModeFacts
<1>7. SoundCall(call')
  BY <1>3, <1>4, <1>5, <1>6, PhaseFacts DEF SoundCall
<1>8. ASSUME call'.informed = TRUE PROVE Ready(chain, call')
  <2>1. o \in Informed(chain, op, by, a)
    BY <1>3, <1>8
  <2> QED BY <1>1, <1>3, <1>4, <2>1 DEF Ready
<1> QED BY <1>2, <1>3, <1>4, <1>7, <1>8

\* While nothing is observed no phase but "idle" is reached, and otherwise
\* never "idle" again.
LEMMA CallFacts == ASSUME CallInv PROVE call = NoCall <=> call.phase = "idle"
BY PhaseFacts DEF CallInv, NoCall, SoundCall

\* At first there is no call.
LEMMA CallInit == Init => CallInv
BY DEF Init, CallInv

\* What a step of the call does to it: the phases it leads from and to, and
\* by how many transactions it gets further.
Moves(from, to, n) ==
    /\ call # NoCall /\ call.phase \in from
    /\ SoundCall(call) /\ SoundCall(call') /\ call'.phase = to
    /\ call'.op = call.op /\ call'.o = call.o /\ call'.informed = call.informed
    /\ call'.agent = call.agent /\ call'.by = call.by /\ call'.moved = call.moved
    /\ call'.landed = call.landed + n

\* The phases that each step leads from and to, and what it leaves alone.
LEMMA CallSteps ==
    ASSUME CallInv
    PROVE  /\ Read => Moves({"reading"}, "reading", 0) /\ chain' = chain /\ call.todo # <<>>
           /\ Refuse => Moves({"reading"}, "refused", 0) /\ chain' = chain
                        /\ call'.todo = call.todo /\ (call.todo # <<>> \/ Refused(call))
           /\ Send => Moves({"reading"}, "sent", 0) /\ chain' = chain
                      /\ call'.todo = <<>> /\ ~Refused(call)
           /\ Land => Moves({"sent", "late"}, IF call.phase = "sent" THEN "landed" ELSE "threw", 1)
                      /\ call'.todo = call.todo
           /\ Reject => Moves({"sent", "late"}, "threw", 0) /\ chain' = chain
                        /\ call'.todo = call.todo
           /\ RpcThrows => Moves({"sent"}, "late", 0) /\ chain' = chain /\ call'.todo = call.todo
           /\ ConfirmThrows => Moves({"landed"}, "threw", 0) /\ chain' = chain
                               /\ call'.todo = call.todo
           /\ ConfirmReturns => /\ chain' = chain /\ call'.todo = call.todo
                                /\ Moves({"landed"}, IF call.landed = Need(call)
                                                     THEN "returned" ELSE "reading", 0)
<1> USE PhaseFacts
<1>1. ASSUME call.phase # "idle"
      PROVE  call # NoCall /\ SoundCall(call) /\ call.landed = call.landed + 0
  BY <1>1 DEF CallInv, NoCall, Progress
<1>2. ASSUME NEW from, call.phase \in from, "idle" \notin from, NEW p \in Phase, Goto(p)
      PROVE  Moves(from, p, 0) /\ call'.todo = call.todo
  BY <1>1, <1>2, GotoFacts DEF Goto, Moves
<1>3. ASSUME Read
      PROVE  Moves({"reading"}, "reading", 0) /\ chain' = chain /\ call.todo # <<>>
  BY <1>1, <1>3 DEF Read, At, Moves, SoundCall, IsCall
<1>4. ASSUME Refuse
      PROVE  /\ Moves({"reading"}, "refused", 0) /\ chain' = chain
             /\ call'.todo = call.todo /\ (call.todo # <<>> \/ Refused(call))
  BY <1>2, <1>4 DEF Refuse, At
<1>5. ASSUME Send
      PROVE  Moves({"reading"}, "sent", 0) /\ chain' = chain /\ call'.todo = <<>> /\ ~Refused(call)
  BY <1>2, <1>5 DEF Send, At
<1>6. ASSUME Land
      PROVE  /\ Moves({"sent", "late"}, IF call.phase = "sent" THEN "landed" ELSE "threw", 1)
             /\ call'.todo = call.todo
  <2> DEFINE p == IF call.phase = "sent" THEN "landed" ELSE "threw"
  <2>1. p \in Phase
    OBVIOUS
  <2>2. call' = [call EXCEPT !.landed = @ + 1, !.phase = p]
    BY <1>6 DEF Land
  <2>3. call.phase \in {"sent", "late"}
    BY <1>6 DEF Land, At
  <2> HIDE DEF p
  <2>4. call # NoCall /\ SoundCall(call)
    BY <1>1, <2>3
  <2>5. /\ SoundCall(call') /\ call'.phase = p /\ call'.op = call.op /\ call'.o = call.o
        /\ call'.landed = call.landed + 1 /\ call'.todo = call.todo
        /\ call'.informed = call.informed /\ call'.agent = call.agent
        /\ call'.by = call.by /\ call'.moved = call.moved
    BY <2>1, <2>2, <2>4 DEF SoundCall, IsCall
  <2>6. Moves({"sent", "late"}, p, 1) /\ call'.todo = call.todo
    BY <2>3, <2>4, <2>5 DEF Moves
  <2> QED BY <2>6 DEF p
<1>7. ASSUME Reject
      PROVE  Moves({"sent", "late"}, "threw", 0) /\ chain' = chain /\ call'.todo = call.todo
  BY <1>2, <1>7 DEF Reject, At
<1>8. ASSUME RpcThrows
      PROVE  Moves({"sent"}, "late", 0) /\ chain' = chain /\ call'.todo = call.todo
  BY <1>2, <1>8 DEF RpcThrows, At
<1>9. ASSUME ConfirmThrows
      PROVE  Moves({"landed"}, "threw", 0) /\ chain' = chain /\ call'.todo = call.todo
  BY <1>2, <1>9 DEF ConfirmThrows, At
<1>10. ASSUME ConfirmReturns
       PROVE  /\ chain' = chain /\ call'.todo = call.todo
              /\ Moves({"landed"}, IF call.landed = Need(call) THEN "returned" ELSE "reading", 0)
  <2> DEFINE p == IF call.landed = Need(call) THEN "returned" ELSE "reading"
  <2>1. p \in Phase
    OBVIOUS
  <2>2. Goto(p) /\ call.phase \in {"landed"} /\ chain' = chain
    BY <1>10 DEF ConfirmReturns, At
  <2> HIDE DEF p
  <2>3. Moves({"landed"}, p, 0) /\ call'.todo = call.todo
    BY <1>2, <2>1, <2>2
  <2> QED BY <2>2, <2>3 DEF p
<1> QED BY <1>3, <1>4, <1>5, <1>6, <1>7, <1>8, <1>9, <1>10

\* Everybody else marks the call and no more.
LEMMA OthersFacts ==
    ASSUME CallInv, Others
    PROVE  \/ call = NoCall /\ call' = call
           \/ /\ call # NoCall /\ SoundCall(call) /\ SoundCall(call')
              /\ call'.op = call.op /\ call'.o = call.o /\ call'.informed = call.informed
              /\ call'.phase = call.phase /\ call'.landed = call.landed
              /\ call'.todo = call.todo /\ call.phase # "refused"
              /\ call.landed < Need(call) /\ call'.moved = TRUE
<1>1. CASE call = NoCall
  BY <1>1 DEF Others, At, NoCall
<1>2. CASE call # NoCall
  <2>1. SoundCall(call) /\ Progress(call) /\ call.phase # "idle"
    BY <1>2, PhaseFacts DEF CallInv, SoundCall
  <2>2. call' = [call EXCEPT !.moved = TRUE]
    BY <2>1 DEF Others, At
  <2>3. \/ call.phase \in {"reading", "sent"}
        \/ call.phase = "landed" /\ call.landed < Need(call)
    BY <2>1 DEF Others, At
  <2>4. call.landed < Need(call)
    BY <2>1, <2>3 DEF Progress
  <2>5. /\ SoundCall(call') /\ call'.op = call.op /\ call'.o = call.o
        /\ call'.informed = call.informed /\ call'.phase = call.phase
        /\ call'.landed = call.landed /\ call'.todo = call.todo /\ call'.moved = TRUE
    BY <2>1, <2>2 DEF SoundCall, IsCall
  <2> QED BY <1>2, <2>1, <2>3, <2>4, <2>5
<1> QED BY <1>1, <1>2

-----------------------------------------------------------------------------
(* How far a call is.                                                      *)

\* A call keeps within the transactions it stands for, and sends nothing that
\* it has not checked.
LEMMA CallInvStep == CallInv /\ [Next]_vars => CallInv'
<1> SUFFICES ASSUME CallInv, [Next]_vars PROVE CallInv'
  OBVIOUS
<1> USE PhaseFacts
<1>1. CASE Start
  <2>1. SoundCall(call') /\ call'.phase = "reading" /\ call'.landed = 0
    BY <1>1, StartFacts
  <2>2. Need(call') \in 1..2
    BY NeedFacts
  <2> QED BY <2>1, <2>2 DEF CallInv, Progress
<1>2. CASE Others
  <2>1. CASE call = NoCall
    BY <1>2, <2>1, OthersFacts DEF CallInv
  <2>2. CASE call # NoCall
    <3>1. Progress(call)
      BY <2>2 DEF CallInv
    <3>2. Need(call') = Need(call) /\ (Refused(call') <=> Refused(call))
      BY <1>2, <2>2, OthersFacts, SameOptions
    <3> QED BY <1>2, <2>2, <3>1, <3>2, OthersFacts DEF CallInv, Progress
  <2> QED BY <2>1, <2>2
<1>3. CASE UNCHANGED vars
  BY <1>3 DEF vars, CallInv, Progress, SoundCall, IsCall, Need, Refused
<1>4. ASSUME NEW from, NEW to, NEW n, Moves(from, to, n)
      PROVE  /\ SoundCall(call') /\ call.phase \in from /\ call'.phase = to
             /\ call'.landed = call.landed + n
             /\ Progress(call) /\ Need(call') = Need(call)
             /\ (Refused(call') <=> Refused(call)) /\ Need(call) \in 1..2
  <2>1. SoundCall(call') /\ call'.op = call.op /\ call'.o = call.o
    BY <1>4 DEF Moves
  <2>2. Progress(call)
    BY <1>4 DEF CallInv, Moves
  <2>3. Need(call') = Need(call)
    BY <2>1, SameOptions
  <2>4. Refused(call') <=> Refused(call)
    BY <2>1, SameOptions
  <2>5. Need(call) \in 1..2
    BY NeedFacts
  <2> QED BY <1>4, <2>1, <2>2, <2>3, <2>4, <2>5 DEF Moves
<1>5. CASE Read
  <2>1. /\ Moves({"reading"}, "reading", 0)
        /\ call.todo # <<>>
    BY <1>5, CallSteps
  <2>2. Progress(call) /\ SoundCall(call') /\ Need(call') = Need(call) /\ Need(call) \in 1..2
        /\ call.phase = "reading" /\ call'.landed = call.landed + 0
        /\ call'.phase = "reading" /\ (Refused(call') <=> Refused(call))
    BY <1>4, <2>1
  <2>3. call.landed = 0
    BY <2>1, <2>2 DEF Progress
  <2> QED BY <2>1, <2>2, <2>3 DEF CallInv, Progress
<1>6. CASE Refuse
  <2>1. /\ Moves({"reading"}, "refused", 0)
        /\ call'.todo = call.todo /\ (call.todo # <<>> \/ Refused(call))
    BY <1>6, CallSteps
  <2>2. Progress(call) /\ SoundCall(call') /\ Need(call') = Need(call) /\ Need(call) \in 1..2
        /\ call.phase = "reading" /\ call'.landed = call.landed + 0
        /\ call'.phase = "refused" /\ (Refused(call') <=> Refused(call))
    BY <1>4, <2>1
  <2>3. call.landed = 0
    BY <2>1, <2>2 DEF Progress
  <2> QED BY <2>1, <2>2, <2>3 DEF CallInv, Progress
<1>7. CASE Send
  <2>1. /\ Moves({"reading"}, "sent", 0)
        /\ call'.todo = <<>> /\ ~Refused(call)
    BY <1>7, CallSteps
  <2> QED BY <1>4, <2>1 DEF CallInv, Progress
<1>8. CASE Land
  <2>1. /\ Moves({"sent", "late"}, IF call.phase = "sent" THEN "landed" ELSE "threw", 1)
        /\ call'.todo = call.todo
    BY <1>8, CallSteps
  <2> QED BY <1>4, <2>1 DEF CallInv, Progress
<1>9. CASE Reject
  <2>1. /\ Moves({"sent", "late"}, "threw", 0)
        /\ call'.todo = call.todo
    BY <1>9, CallSteps
  <2> QED BY <1>4, <2>1 DEF CallInv, Progress
<1>10. CASE RpcThrows
  <2>1. /\ Moves({"sent"}, "late", 0)
        /\ call'.todo = call.todo
    BY <1>10, CallSteps
  <2> QED BY <1>4, <2>1 DEF CallInv, Progress
<1>11. CASE ConfirmThrows
  <2>1. /\ Moves({"landed"}, "threw", 0)
        /\ call'.todo = call.todo
    BY <1>11, CallSteps
  <2> QED BY <1>4, <2>1 DEF CallInv, Progress
<1>12. CASE ConfirmReturns
  <2>1. /\ Moves({"landed"}, IF call.landed = Need(call) THEN "returned" ELSE "reading", 0)
        /\ call'.todo = call.todo
    BY <1>12, CallSteps
  <2> QED BY <1>4, <2>1 DEF CallInv, Progress
<1> QED BY <1>1, <1>2, <1>3, <1>5, <1>6, <1>7, <1>8, <1>9, <1>10, <1>11, <1>12 DEF Next

\* A call never executes more transactions than it stands for, and none before
\* the SDK has accepted its arguments.
THEOREM CallInvariant == Spec => []CallInv
BY CallInit, CallInvStep, PTL DEF Spec

-----------------------------------------------------------------------------
(* The outcome.                                                            *)

\* What the abstract specification sees of a call.
Told(k) == IF k.phase = "idle" THEN "none"
           ELSE CASE k.phase \in {"returned", "refused"} -> k.phase
                  [] k.phase \in {"threw", "late"} -> "threw"
                  [] OTHER -> "pending"
Stands(k) == IF k.phase = "idle" THEN 0 ELSE Need(k)
Executed(k) == IF k.phase = "idle" THEN 0 ELSE k.landed

\* Each phase tells the caller one thing.
LEMMA ToldFacts ==
    ASSUME NEW k
    PROVE  /\ k.phase = "idle" => Told(k) = "none"
           /\ k.phase \in {"reading", "sent", "landed"} => Told(k) = "pending"
           /\ k.phase = "returned" => Told(k) = "returned"
           /\ k.phase = "refused" => Told(k) = "refused"
           /\ k.phase \in {"threw", "late"} => Told(k) = "threw"
BY DEF Told

\* The initial states map to the initial state.
LEMMA OutcomeInit == Init => Outcome!Init
BY DEF Init, Outcome!Init, NoCall, At

\* The steps of the abstract specification in these terms.
LEMMA OutcomeSteps ==
    /\ Told(call) = "none" /\ Told(call') = "pending" /\ Stands(call') \in 1..2
       /\ Executed(call') = Executed(call) => Outcome!Begin
    /\ Told(call) \in {"pending", "threw"} /\ Executed(call) < Stands(call)
       /\ Executed(call') = Executed(call) + 1
       /\ Told(call') = Told(call) /\ Stands(call') = Stands(call) => Outcome!Execute
    /\ Told(call) = "pending" /\ Executed(call) = Stands(call) /\ Told(call') = "returned"
       /\ Stands(call') = Stands(call) /\ Executed(call') = Executed(call) => Outcome!Return
    /\ Told(call) = "pending" /\ Executed(call) = 0 /\ Told(call') = "refused"
       /\ Stands(call') = Stands(call) /\ Executed(call') = Executed(call) => Outcome!Refuse
    /\ Told(call) = "pending" /\ Told(call') = "threw"
       /\ Stands(call') = Stands(call) /\ Executed(call') = Executed(call) => Outcome!Throw
    /\ Told(call') = Told(call) /\ Stands(call') = Stands(call)
       /\ Executed(call') = Executed(call) => UNCHANGED Outcome!vars
BY DEF Told, Stands, Executed, At, Outcome!Begin, Outcome!Execute, Outcome!Return,
       Outcome!Refuse, Outcome!Throw, Outcome!vars

\* Every step maps to a step of the abstract specification or to a stutter.
LEMMA OutcomeStep == CallInv /\ [Next]_vars => [Outcome!Next]_(Outcome!vars)
<1> SUFFICES ASSUME CallInv, [Next]_vars PROVE Outcome!Next \/ UNCHANGED Outcome!vars
  OBVIOUS
<1> USE PhaseFacts
<1>1. CASE Start
  <2>1. call.phase = "idle" /\ call'.phase = "reading" /\ call'.landed = 0
    BY <1>1, StartFacts
  <2>2. Told(call) = "none" /\ Told(call') = "pending" /\ Stands(call') = Need(call')
        /\ Executed(call) = 0 /\ Executed(call') = 0
    BY <2>1, ToldFacts DEF Stands, Executed
  <2>3. Outcome!Begin
    BY <2>2, NeedFacts, OutcomeSteps
  <2> QED BY <2>3 DEF Outcome!Next
<1>2. CASE Others
  <2>1. CASE call = NoCall
    BY <1>2, <2>1, OthersFacts, OutcomeSteps
  <2>2. CASE call # NoCall
    <3>1. call'.phase = call.phase /\ call'.landed = call.landed /\ Need(call') = Need(call)
      BY <1>2, <2>2, OthersFacts, SameOptions
    <3>2. Told(call') = Told(call) /\ Stands(call') = Stands(call)
          /\ Executed(call') = Executed(call)
      BY <3>1 DEF Told, Stands, Executed
    <3> QED BY <3>2, OutcomeSteps
  <2> QED BY <2>1, <2>2
<1>3. CASE UNCHANGED vars
  BY <1>3, OutcomeSteps DEF vars
<1>4. ASSUME NEW from, NEW to \in Phase, NEW n, Moves(from, to, n)
      PROVE  /\ call.phase \in from /\ call'.phase = to /\ Progress(call) /\ Need(call) \in 1..2
             /\ Stands(call) = Need(call) /\ Stands(call') = Stands(call)
             /\ Executed(call) = call.landed /\ Executed(call') = call.landed + n
  <2>1. call # NoCall /\ SoundCall(call) /\ SoundCall(call') /\ call.phase \in from
        /\ call'.phase = to /\ call'.op = call.op /\ call'.o = call.o
        /\ call'.landed = call.landed + n
    BY <1>4 DEF Moves
  <2>2. Progress(call)
    BY <2>1 DEF CallInv
  <2>3. Need(call') = Need(call) /\ Need(call) \in 1..2
    BY <2>1, SameOptions, NeedFacts
  <2>4. call.phase # "idle" /\ call'.phase # "idle"
    BY <2>1 DEF SoundCall
  <2> QED BY <2>1, <2>2, <2>3, <2>4 DEF Stands, Executed
\* A step that executes nothing.
<1>a. ASSUME NEW from, NEW to \in Phase, Moves(from, to, 0)
      PROVE  /\ call.phase \in from /\ call'.phase = to /\ Progress(call) /\ Need(call) \in 1..2
             /\ Stands(call) = Need(call) /\ Stands(call') = Stands(call)
             /\ Executed(call) = call.landed /\ Executed(call') = Executed(call)
  <2> DEFINE n == 0
  <2>1. n = 0 /\ Moves(from, to, n)
    BY <1>a
  <2> HIDE DEF n
  <2>2. /\ call.phase \in from /\ call'.phase = to /\ Progress(call) /\ Need(call) \in 1..2
        /\ Stands(call) = Need(call) /\ Stands(call') = Stands(call)
        /\ Executed(call) = call.landed /\ Executed(call') = call.landed + n
    BY <1>4, <2>1
  <2>3. call.landed \in Nat
    BY <2>2 DEF Progress
  <2> QED BY <2>1, <2>2, <2>3
\* And of which the caller is not told.
<1>5. ASSUME NEW from, NEW to \in Phase, Moves(from, to, 0), Told(call') = Told(call)
      PROVE  UNCHANGED Outcome!vars
  <2>1. Executed(call') = Executed(call) /\ Stands(call') = Stands(call)
    BY <1>a, <1>5
  <2> QED BY <1>5, <2>1, OutcomeSteps
\* One that fails.
<1>6. ASSUME NEW from, NEW to \in Phase, Moves(from, to, 0), Told(call) = "pending",
             Told(call') = "threw"
      PROVE  Outcome!Next
  <2>1. Executed(call') = Executed(call) /\ Stands(call') = Stands(call)
    BY <1>a, <1>6
  <2>2. Outcome!Throw
    BY <1>6, <2>1, OutcomeSteps
  <2> QED BY <2>2 DEF Outcome!Next
<1>7. CASE Read
  <2>1. Moves({"reading"}, "reading", 0)
    BY <1>7, CallSteps
  <2> QED BY <1>a, <1>5, <2>1, ToldFacts
<1>8. CASE Refuse
  <2>1. Moves({"reading"}, "refused", 0) /\ (call.todo # <<>> \/ Refused(call))
    BY <1>8, CallSteps
  <2>2. call.phase = "reading" /\ call'.phase = "refused" /\ Progress(call)
        /\ Stands(call') = Stands(call) /\ Executed(call) = call.landed
        /\ Executed(call') = Executed(call) /\ Need(call) \in 1..2
    BY <1>a, <2>1
  <2>3. call.landed = 0
    BY <2>1, <2>2 DEF Progress
  <2>4. Outcome!Refuse
    BY <2>2, <2>3, ToldFacts, OutcomeSteps
  <2> QED BY <2>4 DEF Outcome!Next
<1>9. CASE Send
  <2>1. Moves({"reading"}, "sent", 0)
    BY <1>9, CallSteps
  <2>2. Told(call) = "pending" /\ Told(call') = "pending"
    BY <1>a, <2>1, ToldFacts
  <2> QED BY <1>5, <2>1, <2>2
<1>10. CASE Land
  <2> DEFINE to == IF call.phase = "sent" THEN "landed" ELSE "threw"
  <2>1. Moves({"sent", "late"}, to, 1) /\ to \in Phase
    BY <1>10, CallSteps
  <2> HIDE DEF to
  <2>2. call.phase \in {"sent", "late"} /\ call'.phase = to /\ Progress(call)
        /\ Stands(call) = Need(call) /\ Stands(call') = Stands(call) /\ Executed(call) = call.landed
        /\ Executed(call') = call.landed + 1
    BY <1>4, <2>1
  <2>3. Executed(call) < Stands(call)
    BY <2>2 DEF Progress
  <2>4. Told(call') = Told(call) /\ Told(call) \in {"pending", "threw"}
    BY <2>2, ToldFacts DEF to
  <2>5. Outcome!Execute
    BY <2>2, <2>3, <2>4, OutcomeSteps
  <2> QED BY <2>5 DEF Outcome!Next
<1>11. CASE Reject
  <2>1. Moves({"sent", "late"}, "threw", 0)
    BY <1>11, CallSteps
  <2>2. Told(call) \in {"pending", "threw"} /\ Told(call') = "threw"
    BY <1>a, <2>1, ToldFacts
  <2> QED BY <1>5, <1>6, <2>1, <2>2
<1>12. CASE RpcThrows
  <2>1. Moves({"sent"}, "late", 0)
    BY <1>12, CallSteps
  <2>2. Told(call) = "pending" /\ Told(call') = "threw"
    BY <1>a, <2>1, ToldFacts
  <2> QED BY <1>6, <2>1, <2>2
<1>13. CASE ConfirmThrows
  <2>1. Moves({"landed"}, "threw", 0)
    BY <1>13, CallSteps
  <2>2. Told(call) = "pending" /\ Told(call') = "threw"
    BY <1>a, <2>1, ToldFacts
  <2> QED BY <1>6, <2>1, <2>2
<1>14. CASE ConfirmReturns
  <2> DEFINE to == IF call.landed = Need(call) THEN "returned" ELSE "reading"
  <2>1. Moves({"landed"}, to, 0) /\ to \in Phase
    BY <1>14, CallSteps
  <2> HIDE DEF to
  <2>2. call.phase = "landed" /\ call'.phase = to /\ Progress(call)
        /\ Stands(call) = Need(call) /\ Stands(call') = Stands(call) /\ Executed(call) = call.landed
        /\ Executed(call') = Executed(call) /\ Need(call) \in 1..2
    BY <1>a, <2>1
  <2>3. CASE call.landed = Need(call)
    <3>1. Told(call) = "pending" /\ Told(call') = "returned"
      BY <2>2, <2>3, ToldFacts DEF to
    <3>2. Outcome!Return
      BY <2>2, <2>3, <3>1, OutcomeSteps DEF Progress
    <3> QED BY <3>2 DEF Outcome!Next
  <2>4. CASE call.landed # Need(call)
    <3>1. Told(call) = "pending" /\ Told(call') = "pending"
      BY <2>2, <2>4, ToldFacts DEF to
    <3> QED BY <1>5, <2>1, <3>1
  <2> QED BY <2>3, <2>4
<1> QED BY <1>1, <1>2, <1>3, <1>7, <1>8, <1>9, <1>10, <1>11, <1>12, <1>13, <1>14 DEF Next

(***************************************************************************)
(* Every operation implements CallOutcome, whatever its arguments and      *)
(* whatever the others do between its reads and its transactions: it       *)
(* returns only when every transaction it stands for was executed, once,   *)
(* and an error before the first was sent leaves nothing behind.           *)
(***************************************************************************)
THEOREM CallsImplementOutcome == Spec => ImplementsOutcome
BY CallInit, CallInvStep, OutcomeInit, OutcomeStep, PTL DEF Spec, ImplementsOutcome, Outcome!Spec

-----------------------------------------------------------------------------
(* The options of an informed caller.                                      *)

InformedInv == call # NoCall /\ call.informed = TRUE => ~Refused(call)

\* Malformed options have one field that no other options have.
LEMMA MalformedFacts == ASSUME NEW o, "malformed" \notin DOMAIN o PROVE o # Malformed
BY DEF Malformed

\* The groups of operations with the same options.
BidderOp == BidOp \ {"initializeBidBook", "expireBid"}

\* They have no operation in common.
LEMMA OpFacts ==
    /\ BidderOp = {"createBid", "updateBid", "cancelBid", "acceptBid"}
    /\ MultisigOp \cap {"createTask", "setTaskJobSpec", "expireClaim", "completeTask",
                        "acceptTaskResult", "autoAcceptTaskResult", "validateTaskResult",
                        "configureTaskValidation", "cancelTask", "createBid", "updateBid",
                        "cancelBid", "acceptBid", "expireBid", "initiateDispute",
                        "resolveDispute", "expireDispute", "cancelDispute",
                        "voteDispute", "applyDisputeSlash", "initializeBidBook"} = {}
BY DEF BidderOp, BidOp, MultisigOp, ProtocolOp

\* All the shapes the options of an informed caller may have.
LEMMA InformedShapes ==
    ASSUME NEW c, NEW op, NEW by, NEW a
    PROVE  LET S == Informed(c, op, by, a) IN
           \/ S = [spec : {"none", "full"}] \/ S = {[spec |-> "full"]}
           \/ S = [rent : {Wallet(a)} \cup (IF by = a THEN {Null} ELSE {}),
                   settlement : {Settlement(c, a)}]
           \/ S = {[parent |-> IF c.kind.parent THEN <<Parent>> ELSE <<>>,
                    settlement |-> Settlement(c, a)]}
           \/ S = [parent : {IF c.kind.parent THEN <<Parent>> ELSE <<>>},
                   settlement : {Settlement(c, a)},
                   validator : {c.mode = "ValidatorQuorum"}, approved : BOOLEAN]
           \/ S = [mode : {"CreatorReview", "ValidatorQuorum", "ExternalAttestation"}]
           \/ S = InformedCancel(c) \/ S = BidderRefs(a)
           \/ S = {[id |-> a, pda |-> Null, authority |-> w] :
                     w \in {Wallet(a)} \cup (IF by = a THEN {Null} ELSE {})}
           \/ S = InformedInitiation(c, by, a)
           \/ S = [worker : {Null, c.defendant}] \/ S = [worker : {c.defendant}]
           \/ S = InformedDispute(c) \/ S = {[defendant |-> c.defendant]}
           \/ S = [signers : {s \in SignerLists : Cardinality(ToSet(s)) >= Threshold}]
           \/ S = {[none |-> TRUE]}
<1> DEFINE B == BidOp \ {"initializeBidBook", "expireBid"}
<1>1. /\ B = {"createBid", "updateBid", "cancelBid", "acceptBid"}
      /\ MultisigOp = {"initializeBidMarketplace", "updateBidMarketplaceConfig",
                       "updateProtocolFee", "updateRateLimits", "migrateProtocol",
                       "updateMinVersion"}
  BY DEF BidOp, MultisigOp, ProtocolOp
<1>2. CASE op = "createTask"
  <2>1. op \notin B /\ op \notin MultisigOp
    BY <1>1, <1>2
  <2> QED BY <1>2, <2>1 DEF Informed
<1>3. CASE op = "setTaskJobSpec"
  <2>1. op \notin B /\ op \notin MultisigOp
    BY <1>1, <1>3
  <2> QED BY <1>3, <2>1 DEF Informed
<1>4. CASE op = "expireClaim"
  <2>1. op \notin B /\ op \notin MultisigOp
    BY <1>1, <1>4
  <2> QED BY <1>4, <2>1 DEF Informed
<1>5. CASE op \in {"completeTask", "acceptTaskResult", "autoAcceptTaskResult"}
  <2>1. op \notin B /\ op \notin MultisigOp
    BY <1>1, <1>5
  <2> QED BY <1>5, <2>1 DEF Informed
<1>6. CASE op = "validateTaskResult"
  <2>1. op \notin B /\ op \notin MultisigOp
    BY <1>1, <1>6
  <2> QED BY <1>6, <2>1 DEF Informed
<1>7. CASE op = "configureTaskValidation"
  <2>1. op \notin B /\ op \notin MultisigOp
    BY <1>1, <1>7
  <2> QED BY <1>7, <2>1 DEF Informed
<1>8. CASE op = "cancelTask"
  <2>1. op \notin B /\ op \notin MultisigOp
    BY <1>1, <1>8
  <2> QED BY <1>8, <2>1 DEF Informed
<1>9. CASE op \in B
  <2>1. op \notin MultisigOp /\ ~(\/ op = "createTask"
          \/ op = "setTaskJobSpec"
          \/ op = "expireClaim"
          \/ op \in {"completeTask", "acceptTaskResult", "autoAcceptTaskResult"}
          \/ op = "validateTaskResult"
          \/ op = "configureTaskValidation"
          \/ op = "cancelTask"
          \/ op = "expireBid"
          \/ op \in {"initiateDispute", "voteDispute", "applyDisputeSlash"}
          \/ op \in {"resolveDispute", "expireDispute"}
          \/ op = "cancelDispute")
    BY <1>1, <1>9
  <2> QED BY <1>9, <2>1 DEF Informed
<1>10. CASE op = "expireBid"
  <2>1. op \notin B /\ op \notin MultisigOp
    BY <1>1, <1>10
  <2> QED BY <1>10, <2>1 DEF Informed
<1>11. CASE op \in {"initiateDispute", "voteDispute", "applyDisputeSlash"}
  <2>1. op \notin B /\ op \notin MultisigOp
    BY <1>1, <1>11
  <2> QED BY <1>11, <2>1 DEF Informed
<1>12. CASE op \in {"resolveDispute", "expireDispute"}
  <2>1. op \notin B /\ op \notin MultisigOp
    BY <1>1, <1>12
  <2> QED BY <1>12, <2>1 DEF Informed
<1>13. CASE op = "cancelDispute"
  <2>1. op \notin B /\ op \notin MultisigOp
    BY <1>1, <1>13
  <2> QED BY <1>13, <2>1 DEF Informed
<1>14. CASE op \in MultisigOp
  <2>1. op \notin B /\ ~(\/ op = "createTask"
          \/ op = "setTaskJobSpec"
          \/ op = "expireClaim"
          \/ op \in {"completeTask", "acceptTaskResult", "autoAcceptTaskResult"}
          \/ op = "validateTaskResult"
          \/ op = "configureTaskValidation"
          \/ op = "cancelTask"
          \/ op = "expireBid"
          \/ op \in {"initiateDispute", "voteDispute", "applyDisputeSlash"}
          \/ op \in {"resolveDispute", "expireDispute"}
          \/ op = "cancelDispute")
    BY <1>1, <1>14
  <2> QED BY <1>14, <2>1 DEF Informed
<1>15. CASE ~(op = "createTask"
            \/ op = "setTaskJobSpec"
            \/ op = "expireClaim"
            \/ op \in {"completeTask", "acceptTaskResult", "autoAcceptTaskResult"}
            \/ op = "validateTaskResult"
            \/ op = "configureTaskValidation"
            \/ op = "cancelTask"
            \/ op = "expireBid"
            \/ op \in {"initiateDispute", "voteDispute", "applyDisputeSlash"}
            \/ op \in {"resolveDispute", "expireDispute"}
            \/ op = "cancelDispute"
            \/ op \in B \/ op \in MultisigOp)
  BY <1>15 DEF Informed
<1> QED BY <1>2, <1>3, <1>4, <1>5, <1>6, <1>7, <1>8, <1>9, <1>10, <1>11, <1>12, <1>13, <1>14, <1>15

\* None of these shapes is refused.
LEMMA InformedSound ==
    ASSUME NEW c, NEW op, NEW by, NEW a \in Agent, NEW o \in Informed(c, op, by, a),
           NEW k, k.op = op, k.o = o
    PROVE  ~Refused(k)
<1>1. o # Malformed
  <2>1. \A x \in InformedCancel(c) : "malformed" \notin DOMAIN x
    BY DEF InformedCancel, Cancelling
  <2>2. \A x \in InformedDispute(c) : "malformed" \notin DOMAIN x
    BY DEF InformedDispute
  <2>3. /\ \A x \in BidderRefs(a) : "malformed" \notin DOMAIN x
        /\ \A x \in InformedInitiation(c, by, a) : "malformed" \notin DOMAIN x
    BY DEF BidderRefs, InformedInitiation
  <2>4. "malformed" \notin DOMAIN o
    <3> DEFINE S == Informed(c, op, by, a)
    <3>1. o \in S
      OBVIOUS
    <3>2. \A A, C : \A x \in [rent : A, settlement : C] : "malformed" \notin DOMAIN x
      OBVIOUS
    <3>3. \A A : /\ \A x \in [spec : A] : "malformed" \notin DOMAIN x
                 /\ \A x \in [mode : A] : "malformed" \notin DOMAIN x
                 /\ \A x \in [worker : A] : "malformed" \notin DOMAIN x
                 /\ \A x \in [signers : A] : "malformed" \notin DOMAIN x
      OBVIOUS
    <3>4. \A A, C, D, E : \A x \in [parent : A, settlement : C, validator : D, approved : E] :
             "malformed" \notin DOMAIN x
      OBVIOUS
    <3>5. \A u, v, w : /\ "malformed" \notin DOMAIN [parent |-> u, settlement |-> v]
                       /\ "malformed" \notin DOMAIN [id |-> u, pda |-> v, authority |-> w]
                       /\ "malformed" \notin DOMAIN [spec |-> u]
                       /\ "malformed" \notin DOMAIN [defendant |-> u]
                       /\ "malformed" \notin DOMAIN [none |-> u]
      OBVIOUS
    <3> HIDE DEF S
    <3>6. \/ S = [spec : {"none", "full"}] \/ S = {[spec |-> "full"]}
          \/ S = [rent : {Wallet(a)} \cup (IF by = a THEN {Null} ELSE {}),
                  settlement : {Settlement(c, a)}]
          \/ S = {[parent |-> IF c.kind.parent THEN <<Parent>> ELSE <<>>,
                   settlement |-> Settlement(c, a)]}
          \/ S = [parent : {IF c.kind.parent THEN <<Parent>> ELSE <<>>},
                  settlement : {Settlement(c, a)},
                  validator : {c.mode = "ValidatorQuorum"}, approved : BOOLEAN]
          \/ S = [mode : {"CreatorReview", "ValidatorQuorum", "ExternalAttestation"}]
          \/ S = InformedCancel(c) \/ S = BidderRefs(a)
          \/ S = {[id |-> a, pda |-> Null, authority |-> w] :
                    w \in {Wallet(a)} \cup (IF by = a THEN {Null} ELSE {})}
          \/ S = InformedInitiation(c, by, a)
          \/ S = [worker : {Null, c.defendant}] \/ S = [worker : {c.defendant}]
          \/ S = InformedDispute(c) \/ S = {[defendant |-> c.defendant]}
          \/ S = [signers : {s \in SignerLists : Cardinality(ToSet(s)) >= Threshold}]
          \/ S = {[none |-> TRUE]}
      BY InformedShapes DEF S
    <3> QED BY <2>1, <2>2, <2>3, <3>1, <3>2, <3>3, <3>4, <3>5, <3>6, Zenon
  <2> QED BY <2>4, MalformedFacts
<1>2. ASSUME op = "createTask" PROVE o.spec \notin {"half", "blank"}
  <2>1. op \notin BidOp \cup MultisigOp
    BY <1>2 DEF BidOp, MultisigOp, ProtocolOp
  <2>2. Informed(c, op, by, a) = [spec : {"none", "full"}]
    BY <1>2, <2>1 DEF Informed
  <2> QED BY <2>2
<1>3. ASSUME op = "setTaskJobSpec" PROVE o.spec # "blank"
  <2>1. op \notin BidOp \cup MultisigOp
    BY <1>3 DEF BidOp, MultisigOp, ProtocolOp
  <2>2. Informed(c, op, by, a) = {[spec |-> "full"]}
    BY <1>3, <2>1 DEF Informed
  <2> QED BY <2>2
<1>4. ASSUME op = "cancelTask" PROVE ~CancelRefused(o)
  <2>1. op \notin BidOp \cup MultisigOp
    BY <1>4 DEF BidOp, MultisigOp, ProtocolOp
  <2>2. Informed(c, op, by, a) = InformedCancel(c)
    BY <1>4, <2>1 DEF Informed
  <2>3. \/ o.settlement = "none" /\ o.triples = {}
        \/ o.settlement = "accepted" /\ o.triplesGiven = TRUE
        \/ o.settlement = "book" /\ o.triples = {} /\ o.pairs = {}
    BY <2>2 DEF InformedCancel, Cancelling
  <2> QED BY <2>3 DEF CancelRefused, CancelHasSettlement, CancelHasSuffix
<1>5. ASSUME op \in BidderOp PROVE ~BidderRefused(o.id, o.pda)
  <2>1. Informed(c, op, by, a) = BidderRefs(a)
    BY <1>5, OpFacts DEF Informed, BidderOp
  <2>2. a # Null /\ AgentPda(a) # Null
    BY MarketAssumption DEF AgentPda, Null
  <2> QED BY <2>1, <2>2 DEF BidderRefs, BidderRefused
<1>6. ASSUME op \in MultisigOp PROVE o.signers # <<>>
  <2> DEFINE Lists == {s \in SignerLists : Cardinality(ToSet(s)) >= Threshold}
  <2>1. Informed(c, op, by, a) = [signers : Lists]
    BY <1>6, OpFacts DEF Informed, BidderOp
  <2>2. o \in [signers : Lists]
    BY <2>1
  <2>3. o.signers \in Lists
    BY <2>2
  <2>4. Cardinality(ToSet(o.signers)) >= Threshold
    BY <2>3
  <2>5. ToSet(<<>>) = {}
    BY DEF ToSet
  <2>6. Cardinality({}) = 0 /\ ~(0 >= Threshold)
    BY FS_EmptySet, MarketAssumption
  <2> QED BY <2>4, <2>5, <2>6, Zenon
<1>7. ASSUME op = "expireBid" PROVE ~BidderRefused(o.id, o.pda)
  <2>1. op \notin BidderOp /\ op \notin MultisigOp
    BY <1>7, OpFacts
  <2> DEFINE W == {Wallet(a)} \cup (IF by = a THEN {Null} ELSE {})
  <2>2. Informed(c, op, by, a) = {[id |-> a, pda |-> Null, authority |-> w] : w \in W}
    BY <1>7, <2>1 DEF Informed, BidderOp
  <2> HIDE DEF W
  <2>3. o.id = a /\ o.pda = Null
    BY <2>2
  <2>4. a # Null
    BY MarketAssumption
  <2> QED BY <2>3, <2>4 DEF BidderRefused
<1>8. BidOp \ {"initializeBidBook"} \subseteq BidderOp \cup {"expireBid"}
  BY DEF BidderOp
<1> QED BY <1>1, <1>2, <1>3, <1>4, <1>5, <1>6, <1>7, <1>8 DEF Refused

\* At first there is nothing to refuse.
LEMMA InformedInit == Init => InformedInv
BY DEF Init, InformedInv

\* The options are those of the start of the call.
LEMMA InformedStep == CallInv /\ InformedInv /\ [Next]_vars => InformedInv'
<1> SUFFICES ASSUME CallInv, InformedInv, [Next]_vars, call' # NoCall, call'.informed = TRUE
             PROVE  ~Refused(call')
  BY DEF InformedInv
<1>1. CASE Start
  <2>1. /\ call'.o \in Informed(chain, call'.op, call'.by, call'.agent)
        /\ call'.agent \in Agent
    BY <1>1, StartFacts DEF Ready
  <2> QED BY <2>1, InformedSound
<1>2. ASSUME call # NoCall, call'.op = call.op, call'.o = call.o, call'.informed = call.informed
      PROVE  ~Refused(call')
  BY <1>2, SameOptions DEF InformedInv
<1>3. CASE Others
  BY <1>2, <1>3, OthersFacts DEF InformedInv
<1>4. CASE UNCHANGED vars
  BY <1>4 DEF vars, InformedInv
<1>5. CASE Next /\ ~Start /\ ~Others
  <2>1. call # NoCall /\ call'.op = call.op /\ call'.o = call.o /\ call'.informed = call.informed
    BY <1>5, CallSteps DEF Next, Moves
  <2> QED BY <1>2, <2>1
<1> QED BY <1>1, <1>3, <1>4, <1>5

(***************************************************************************)
(* The SDK never turns down the options of a caller who passes what fits   *)
(* the task it sees, whatever that task looked like.                       *)
(***************************************************************************)
THEOREM InformedAreNotRefused == Spec => []InformedNotRefused
<1>1. CallInv /\ InformedInv => InformedNotRefused
  BY CallFacts DEF InformedNotRefused, InformedInv, At, NoCall
<1> QED BY <1>1, CallInit, CallInvStep, InformedInit, InformedStep, PTL DEF Spec

-----------------------------------------------------------------------------
(* The task.                                                               *)

Statuses == {"missing", "Open", "InProgress", "PendingValidation", "Disputed"} \cup Ended
Claims == [Agent -> {"none", "open", "done"}]
Results == [Agent -> {"none", "Submitted", "Accepted", "Rejected"}]
Bids == [Agent -> {"none", "Active", "Accepted"}]

Chains == [kind : Kind, status : Statuses, mode : {"Auto"} \cup Modes, spec : BOOLEAN,
           claims : Claims, results : Results, market : BOOLEAN,
           book : {"none", "Open", "Accepted", "Closed"}, bids : Bids,
           dispute : {"none", "Active", "Resolved", "Expired", "Cancelled"},
           defendant : {Creator} \cup Agent, votes : SUBSET Arbiter, slashed : BOOLEAN]

ChainInv == chain \in Chains

\* The pieces that instructions are made of keep the fields in their sets.
LEMMA PayTyped == ASSUME NEW c \in Chains, NEW a \in Agent PROVE Pay(c, a) \in Chains
BY DEF Pay, Chains, Claims, Results, Bids, Statuses, Ended

\* The same of the end of a task.
LEMMA CloseAllTyped ==
    ASSUME NEW c \in Chains, NEW status \in Statuses PROVE CloseAll(c, status) \in Chains
BY DEF CloseAll, Chains, Claims, Bids

\* The same of a claim that expires.
LEMMA ReopenTyped == ASSUME NEW c \in Chains, NEW a \in Agent PROVE Reopen(c, a) \in Chains
<1> DEFINE d == [c EXCEPT !.claims[a] = "none", !.bids[a] = "none",
                          !.book = IF c.kind.bid THEN "Open" ELSE @]
<1>1. d \in Chains
  BY DEF Chains, Claims, Bids
<1> HIDE DEF d
<1>2. [d EXCEPT !.status = IF Working(d) = {} THEN "Open" ELSE @] \in Chains
  BY <1>1 DEF Chains, Statuses
<1> QED BY <1>2 DEF Reopen, d

\* The same of a result that is turned down.
LEMMA TurnDownTyped == ASSUME NEW c \in Chains, NEW a \in Agent PROVE TurnDown(c, a) \in Chains
BY DEF TurnDown, Chains, Results, Statuses

\* Whatever an instruction does, the fields stay in their sets.
LEMMA AfterTyped ==
    ASSUME NEW c \in Chains, NEW ix, ix.agent \in Agent,
           ix.op = "voteDispute" => ix.by \in Arbiter,
           ix.op = "configureTaskValidation" => ix.mode \in Modes
    PROVE  After(c, ix) \in Chains
<1> DEFINE a == ix.agent
<1>1. CASE ix.op \in {"createTask", "createDependentTask"}
  <2>1. After(c, ix) = [c EXCEPT !.status = "Open"]
    BY <1>1 DEF After
  <2>2. [c EXCEPT !.status = "Open"] \in Chains
    BY DEF Chains, Statuses
  <2> QED BY <2>1, <2>2
<1>2. CASE ix.op = "setTaskJobSpec"
  <2>1. After(c, ix) = [c EXCEPT !.spec = TRUE]
    BY <1>2 DEF After
  <2>2. [c EXCEPT !.spec = TRUE] \in Chains
    BY DEF Chains
  <2> QED BY <2>1, <2>2
<1>3. CASE ix.op \in {"claimTask", "claimTaskWithJobSpec"}
  <2>1. After(c, ix) = [c EXCEPT !.claims[a] = "open", !.status = "InProgress"]
    BY <1>3 DEF After
  <2>2. [c EXCEPT !.claims[a] = "open", !.status = "InProgress"] \in Chains
    BY DEF Chains, Claims, Statuses
  <2> QED BY <2>1, <2>2
<1>4. CASE ix.op = "expireClaim"
  <2>1. After(c, ix) = Reopen(c, a)
    BY <1>4 DEF After
  <2>2. Reopen(c, a) \in Chains
    BY ReopenTyped
  <2> QED BY <2>1, <2>2
<1>5. CASE ix.op \in {"completeTask", "acceptTaskResult", "autoAcceptTaskResult"}
  <2>1. After(c, ix) = Pay(c, a)
    BY <1>5 DEF After
  <2>2. Pay(c, a) \in Chains
    BY PayTyped
  <2> QED BY <2>1, <2>2
<1>6. CASE ix.op = "validateTaskResult"
  <2>1. After(c, ix) = (IF ix.approved THEN Pay(c, a) ELSE TurnDown(c, a))
    BY <1>6 DEF After
  <2>2. (IF ix.approved THEN Pay(c, a) ELSE TurnDown(c, a)) \in Chains
    BY PayTyped, TurnDownTyped
  <2> QED BY <2>1, <2>2
<1>7. CASE ix.op = "rejectTaskResult"
  <2>1. After(c, ix) = TurnDown(c, a)
    BY <1>7 DEF After
  <2>2. TurnDown(c, a) \in Chains
    BY TurnDownTyped
  <2> QED BY <2>1, <2>2
<1>8. CASE ix.op = "configureTaskValidation"
  <2>1. After(c, ix) = [c EXCEPT !.mode = ix.mode]
    BY <1>8 DEF After
  <2>2. [c EXCEPT !.mode = ix.mode] \in Chains
    BY <1>8 DEF Chains
  <2> QED BY <2>1, <2>2
<1>9. CASE ix.op = "submitTaskResult"
  <2>1. After(c, ix) = [c EXCEPT !.results[a] = "Submitted", !.status = "PendingValidation"]
    BY <1>9 DEF After
  <2>2. [c EXCEPT !.results[a] = "Submitted", !.status = "PendingValidation"] \in Chains
    BY DEF Chains, Results, Statuses
  <2> QED BY <2>1, <2>2
<1>10. CASE ix.op = "cancelTask"
  <2>1. After(c, ix) = CloseAll(c, "Cancelled")
    BY <1>10 DEF After
  <2>2. CloseAll(c, "Cancelled") \in Chains
    BY CloseAllTyped DEF Statuses, Ended
  <2> QED BY <2>1, <2>2
<1>11. CASE ix.op = "initializeBidBook"
  <2>1. After(c, ix) = [c EXCEPT !.book = "Open"]
    BY <1>11 DEF After
  <2>2. [c EXCEPT !.book = "Open"] \in Chains
    BY DEF Chains
  <2> QED BY <2>1, <2>2
<1>12. CASE ix.op = "createBid"
  <2>1. After(c, ix) = [c EXCEPT !.bids[a] = "Active"]
    BY <1>12 DEF After
  <2>2. [c EXCEPT !.bids[a] = "Active"] \in Chains
    BY DEF Chains, Bids
  <2> QED BY <2>1, <2>2
<1>13. CASE ix.op \in {"cancelBid", "expireBid"}
  <2>1. After(c, ix) = [c EXCEPT !.bids[a] = "none"]
    BY <1>13 DEF After
  <2>2. [c EXCEPT !.bids[a] = "none"] \in Chains
    BY DEF Chains, Bids
  <2> QED BY <2>1, <2>2
<1>14. CASE ix.op = "acceptBid"
  <2>1. After(c, ix) = [c EXCEPT !.bids[a] = "Accepted", !.book = "Accepted",
                                 !.claims[a] = "open", !.status = "InProgress"]
    BY <1>14 DEF After
  <2>2. [c EXCEPT !.bids[a] = "Accepted", !.book = "Accepted",
                                 !.claims[a] = "open", !.status = "InProgress"] \in Chains
    BY DEF Chains, Bids, Claims, Statuses
  <2> QED BY <2>1, <2>2
<1>15. CASE ix.op = "initiateDispute"
  <2>1. After(c, ix) = [c EXCEPT !.dispute = "Active", !.defendant = a, !.status = "Disputed"]
    BY <1>15 DEF After
  <2>2. [c EXCEPT !.dispute = "Active", !.defendant = a, !.status = "Disputed"] \in Chains
    BY DEF Chains, Statuses
  <2> QED BY <2>1, <2>2
<1>16. CASE ix.op = "voteDispute"
  <2>1. After(c, ix) = [c EXCEPT !.votes = @ \cup {ix.by}]
    BY <1>16 DEF After
  <2>2. [c EXCEPT !.votes = @ \cup {ix.by}] \in Chains
    BY <1>16 DEF Chains
  <2> QED BY <2>1, <2>2
<1>17. CASE ix.op = "resolveDispute"
  <2>1. After(c, ix) = [CloseAll(c, "Completed") EXCEPT !.dispute = "Resolved"]
    BY <1>17 DEF After
  <2>2. [CloseAll(c, "Completed") EXCEPT !.dispute = "Resolved"] \in Chains
    BY CloseAllTyped DEF Chains, Statuses, Ended
  <2> QED BY <2>1, <2>2
<1>18. CASE ix.op = "expireDispute"
  <2>1. After(c, ix) = [CloseAll(c, "Cancelled") EXCEPT !.dispute = "Expired"]
    BY <1>18 DEF After
  <2>2. [CloseAll(c, "Cancelled") EXCEPT !.dispute = "Expired"] \in Chains
    BY CloseAllTyped DEF Chains, Statuses, Ended
  <2> QED BY <2>1, <2>2
<1>19. CASE ix.op = "cancelDispute"
  <2>1. After(c, ix) = [c EXCEPT !.dispute = "Cancelled",
                                 !.status = IF \E b \in Agent : c.results[b] = "Submitted"
                                            THEN "PendingValidation" ELSE "InProgress"]
    BY <1>19 DEF After
  <2>2. [c EXCEPT !.dispute = "Cancelled",
                                 !.status = IF \E b \in Agent : c.results[b] = "Submitted"
                                            THEN "PendingValidation" ELSE "InProgress"] \in Chains
    BY DEF Chains, Statuses
  <2> QED BY <2>1, <2>2
<1>20. CASE ix.op \in {"applyDisputeSlash", "applyInitiatorSlash"}
  <2>1. After(c, ix) = [c EXCEPT !.slashed = TRUE]
    BY <1>20 DEF After
  <2>2. [c EXCEPT !.slashed = TRUE] \in Chains
    BY DEF Chains
  <2> QED BY <2>1, <2>2
<1>21. CASE ix.op = "initializeBidMarketplace"
  <2>1. After(c, ix) = [c EXCEPT !.market = TRUE]
    BY <1>21 DEF After
  <2>2. [c EXCEPT !.market = TRUE] \in Chains
    BY DEF Chains
  <2> QED BY <2>1, <2>2
<1>22. CASE ~(\/ ix.op \in {"createTask", "createDependentTask"}
            \/ ix.op = "setTaskJobSpec"
            \/ ix.op \in {"claimTask", "claimTaskWithJobSpec"}
            \/ ix.op = "expireClaim"
            \/ ix.op \in {"completeTask", "acceptTaskResult", "autoAcceptTaskResult"}
            \/ ix.op = "validateTaskResult"
            \/ ix.op = "rejectTaskResult"
            \/ ix.op = "configureTaskValidation"
            \/ ix.op = "submitTaskResult"
            \/ ix.op = "cancelTask"
            \/ ix.op = "initializeBidBook"
            \/ ix.op = "createBid"
            \/ ix.op \in {"cancelBid", "expireBid"}
            \/ ix.op = "acceptBid"
            \/ ix.op = "initiateDispute"
            \/ ix.op = "voteDispute"
            \/ ix.op = "resolveDispute"
            \/ ix.op = "expireDispute"
            \/ ix.op = "cancelDispute"
            \/ ix.op \in {"applyDisputeSlash", "applyInitiatorSlash"}
            \/ ix.op = "initializeBidMarketplace")
  <2>1. After(c, ix) = c
    BY <1>22 DEF After
  <2> QED BY <2>1
<1> QED BY <1>1, <1>2, <1>3, <1>4, <1>5, <1>6, <1>7, <1>8, <1>9, <1>10, <1>11, <1>12, <1>13,
           <1>14, <1>15, <1>16, <1>17, <1>18, <1>19, <1>20, <1>21, <1>22

-----------------------------------------------------------------------------
(* The instructions.                                                       *)

\* An instruction is about the agent of the call and from its caller.
Names(ix, k) == ix.op = k.op /\ ix.agent = k.agent /\ ix.by = k.by

\* The instruction that every other one starts from.
LEMMA BlankNames == ASSUME NEW k PROVE Names(Blank(k), k)
BY DEF Names, Blank

\* The builders change neither, but for the second one of createTask.
LEMMA BuilderNames ==
    ASSUME NEW k
    PROVE  /\ Names(createTask(k), k) /\ Names(createDependentTask(k), k)
           /\ setTaskJobSpec(k).op = "setTaskJobSpec" /\ setTaskJobSpec(k).agent = k.agent
           /\ Names(claimTask(k), k) /\ Names(claimTaskWithJobSpec(k), k)
           /\ Names(expireClaim(k), k) /\ Names(completeTask(k), k)
           /\ Names(submitTaskResult(k), k) /\ Names(acceptTaskResult(k), k)
           /\ Names(rejectTaskResult(k), k) /\ Names(autoAcceptTaskResult(k), k)
           /\ Names(validateTaskResult(k), k) /\ Names(cancelTask(k), k)
           /\ Names(initializeBidBook(k), k) /\ Names(createBid(k), k)
           /\ Names(updateBid(k), k) /\ Names(cancelBid(k), k)
           /\ Names(acceptBid(k), k) /\ Names(expireBid(k), k)
           /\ Names(initiateDispute(k), k) /\ Names(voteDispute(k), k)
           /\ Names(resolveDispute(k), k) /\ Names(expireDispute(k), k)
           /\ Names(cancelDispute(k), k) /\ Names(applyDisputeSlash(k), k)
           /\ Names(applyInitiatorSlash(k), k) /\ Names(initializeBidMarketplace(k), k)
           /\ Names(updateBidMarketplaceConfig(k), k)
           /\ Names(executeMultisigProtocolInstruction(k), k)
           /\ Names(configureTaskValidation(k), k) /\ configureTaskValidation(k).mode = k.o.mode
<1>1. Names(createTask(k), k)
  BY DEF createTask, Names, Blank
<1>2. setTaskJobSpec(k).op = "setTaskJobSpec" /\ setTaskJobSpec(k).agent = k.agent
  BY DEF setTaskJobSpec, Blank
<1>3. \A who : Names(Completion(k, who), k)
  BY DEF Completion, Names, Blank
<1>4. Names(createBid(k), k) /\ Names(initializeBidMarketplace(k), k)
  BY DEF createBid, initializeBidMarketplace, Names, Blank
<1>5. \A treasury : Names(SettleDispute(k, treasury), k)
  BY DEF SettleDispute, Names, Blank
<1>6. Names(configureTaskValidation(k), k) /\ configureTaskValidation(k).mode = k.o.mode
  BY DEF configureTaskValidation, Names, Blank
<1>7. Names(expireClaim(k), k)
  BY DEF expireClaim, Names, Blank
<1>8. Names(rejectTaskResult(k), k)
  BY DEF rejectTaskResult, Names, Blank
<1>9. Names(cancelTask(k), k)
  BY DEF cancelTask, Names, Blank
<1>10. Names(expireBid(k), k)
  BY DEF expireBid, Names, Blank
<1>11. Names(initiateDispute(k), k) /\ Names(voteDispute(k), k)
  BY DEF initiateDispute, voteDispute, Names, Blank
<1>12. Names(cancelDispute(k), k)
  BY DEF cancelDispute, Names, Blank
<1>13. Names(applyDisputeSlash(k), k) /\ Names(applyInitiatorSlash(k), k)
  BY DEF applyDisputeSlash, applyInitiatorSlash, Names, Blank
<1>14. Names(validateTaskResult(k), k)
  BY DEF validateTaskResult, Completion, Names, Blank
<1>15. /\ Names(completeTask(k), k) /\ Names(acceptTaskResult(k), k)
       /\ Names(autoAcceptTaskResult(k), k)
  BY <1>3 DEF completeTask, acceptTaskResult, autoAcceptTaskResult
<1>16. Names(resolveDispute(k), k) /\ Names(expireDispute(k), k)
  BY <1>5 DEF resolveDispute, expireDispute
<1>17. /\ Names(createDependentTask(k), k) /\ Names(updateBid(k), k) /\ Names(cancelBid(k), k)
       /\ Names(acceptBid(k), k) /\ Names(updateBidMarketplaceConfig(k), k)
       /\ Names(executeMultisigProtocolInstruction(k), k)
  BY <1>1, <1>4 DEF createDependentTask, updateBid, cancelBid, acceptBid,
                    updateBidMarketplaceConfig, executeMultisigProtocolInstruction
<1>18. /\ Names(claimTask(k), k) /\ Names(claimTaskWithJobSpec(k), k)
       /\ Names(submitTaskResult(k), k) /\ Names(initializeBidBook(k), k)
  BY BlankNames DEF claimTask, claimTaskWithJobSpec, submitTaskResult, initializeBidBook
<1> QED BY <1>1, <1>2, <1>4, <1>6, <1>7, <1>8, <1>9, <1>10, <1>11, <1>12, <1>13, <1>14, <1>15,
           <1>16, <1>17, <1>18

\* So the instruction of a call is about the agent of the call.
LEMMA InstructionNames ==
    ASSUME NEW k, k.op \in Op
    PROVE  \/ Names(Instruction(k), k)
              /\ (k.op = "configureTaskValidation" => Instruction(k).mode = k.o.mode)
           \/ /\ k.op = "createTask" /\ k.landed # 0
              /\ Instruction(k).op = "setTaskJobSpec" /\ Instruction(k).agent = k.agent
<1> DEFINE Sound(ix) ==
        \/ Names(ix, k) /\ (k.op = "configureTaskValidation" => ix.mode = k.o.mode)
        \/ /\ k.op = "createTask" /\ k.landed # 0
           /\ ix.op = "setTaskJobSpec" /\ ix.agent = k.agent
<1> SUFFICES Sound(Instruction(k))
  OBVIOUS
<1>1. k.op \notin ProtocolOp =>
        k.op \in {"createTask", "setTaskJobSpec", "createDependentTask",
                  "claimTask", "claimTaskWithJobSpec", "expireClaim",
                  "completeTask", "configureTaskValidation", "submitTaskResult",
                  "acceptTaskResult", "rejectTaskResult", "autoAcceptTaskResult",
                  "validateTaskResult", "cancelTask", "initializeBidBook",
                  "createBid", "updateBid", "cancelBid",
                  "acceptBid", "expireBid", "initiateDispute",
                  "voteDispute", "resolveDispute", "expireDispute",
                  "cancelDispute", "applyDisputeSlash", "applyInitiatorSlash",
                  "initializeBidMarketplace", "updateBidMarketplaceConfig"}
  BY DEF Op, CreateOp, TaskOp, ValidationOp, BidOp, DisputeOp, MultisigOp
<1>2. CASE k.op = "createTask"
  <2>1. Instruction(k) = IF k.landed = 0 THEN createTask(k) ELSE setTaskJobSpec(k)
    BY <1>2 DEF Instruction, ProtocolOp
  <2>2. /\ Names(createTask(k), k)
        /\ setTaskJobSpec(k).op = "setTaskJobSpec" /\ setTaskJobSpec(k).agent = k.agent
    BY BuilderNames
  <2> QED BY <1>2, <2>1, <2>2
<1>3. CASE k.op = "setTaskJobSpec"
  <2>1. Instruction(k) = setTaskJobSpec(k)
    BY <1>3 DEF Instruction, ProtocolOp
  <2>2. Names(setTaskJobSpec(k), k)
    BY <1>3 DEF setTaskJobSpec, Names, Blank
  <2> QED BY <1>3, <2>1, <2>2
<1>4. CASE k.op = "createDependentTask"
  <2>1. Instruction(k) = createDependentTask(k)
    BY <1>4 DEF Instruction, ProtocolOp
  <2>2. Names(createDependentTask(k), k)
    BY BuilderNames
  <2> QED BY <1>4, <2>1, <2>2
<1>5. CASE k.op = "claimTask"
  <2>1. Instruction(k) = claimTask(k)
    BY <1>5 DEF Instruction, ProtocolOp
  <2>2. Names(claimTask(k), k)
    BY BuilderNames
  <2> QED BY <1>5, <2>1, <2>2
<1>6. CASE k.op = "claimTaskWithJobSpec"
  <2>1. Instruction(k) = claimTaskWithJobSpec(k)
    BY <1>6 DEF Instruction, ProtocolOp
  <2>2. Names(claimTaskWithJobSpec(k), k)
    BY BuilderNames
  <2> QED BY <1>6, <2>1, <2>2
<1>7. CASE k.op = "expireClaim"
  <2>1. Instruction(k) = expireClaim(k)
    BY <1>7 DEF Instruction, ProtocolOp
  <2>2. Names(expireClaim(k), k)
    BY BuilderNames
  <2> QED BY <1>7, <2>1, <2>2
<1>8. CASE k.op = "completeTask"
  <2>1. Instruction(k) = completeTask(k)
    BY <1>8 DEF Instruction, ProtocolOp
  <2>2. Names(completeTask(k), k)
    BY BuilderNames
  <2> QED BY <1>8, <2>1, <2>2
<1>9. CASE k.op = "configureTaskValidation"
  <2>1. Instruction(k) = configureTaskValidation(k)
    BY <1>9 DEF Instruction, ProtocolOp
  <2>2. Names(configureTaskValidation(k), k) /\ configureTaskValidation(k).mode = k.o.mode
    BY BuilderNames
  <2> QED BY <2>1, <2>2
<1>10. CASE k.op = "submitTaskResult"
  <2>1. Instruction(k) = submitTaskResult(k)
    BY <1>10 DEF Instruction, ProtocolOp
  <2>2. Names(submitTaskResult(k), k)
    BY BuilderNames
  <2> QED BY <1>10, <2>1, <2>2
<1>11. CASE k.op = "acceptTaskResult"
  <2>1. Instruction(k) = acceptTaskResult(k)
    BY <1>11 DEF Instruction, ProtocolOp
  <2>2. Names(acceptTaskResult(k), k)
    BY BuilderNames
  <2> QED BY <1>11, <2>1, <2>2
<1>12. CASE k.op = "rejectTaskResult"
  <2>1. Instruction(k) = rejectTaskResult(k)
    BY <1>12 DEF Instruction, ProtocolOp
  <2>2. Names(rejectTaskResult(k), k)
    BY BuilderNames
  <2> QED BY <1>12, <2>1, <2>2
<1>13. CASE k.op = "autoAcceptTaskResult"
  <2>1. Instruction(k) = autoAcceptTaskResult(k)
    BY <1>13 DEF Instruction, ProtocolOp
  <2>2. Names(autoAcceptTaskResult(k), k)
    BY BuilderNames
  <2> QED BY <1>13, <2>1, <2>2
<1>14. CASE k.op = "validateTaskResult"
  <2>1. Instruction(k) = validateTaskResult(k)
    BY <1>14 DEF Instruction, ProtocolOp
  <2>2. Names(validateTaskResult(k), k)
    BY BuilderNames
  <2> QED BY <1>14, <2>1, <2>2
<1>15. CASE k.op = "cancelTask"
  <2>1. Instruction(k) = cancelTask(k)
    BY <1>15 DEF Instruction, ProtocolOp
  <2>2. Names(cancelTask(k), k)
    BY BuilderNames
  <2> QED BY <1>15, <2>1, <2>2
<1>16. CASE k.op = "initializeBidBook"
  <2>1. Instruction(k) = initializeBidBook(k)
    BY <1>16 DEF Instruction, ProtocolOp
  <2>2. Names(initializeBidBook(k), k)
    BY BuilderNames
  <2> QED BY <1>16, <2>1, <2>2
<1>17. CASE k.op = "createBid"
  <2>1. Instruction(k) = createBid(k)
    BY <1>17 DEF Instruction, ProtocolOp
  <2>2. Names(createBid(k), k)
    BY BuilderNames
  <2> QED BY <1>17, <2>1, <2>2
<1>18. CASE k.op = "updateBid"
  <2>1. Instruction(k) = updateBid(k)
    BY <1>18 DEF Instruction, ProtocolOp
  <2>2. Names(updateBid(k), k)
    BY BuilderNames
  <2> QED BY <1>18, <2>1, <2>2
<1>19. CASE k.op = "cancelBid"
  <2>1. Instruction(k) = cancelBid(k)
    BY <1>19 DEF Instruction, ProtocolOp
  <2>2. Names(cancelBid(k), k)
    BY BuilderNames
  <2> QED BY <1>19, <2>1, <2>2
<1>20. CASE k.op = "acceptBid"
  <2>1. Instruction(k) = acceptBid(k)
    BY <1>20 DEF Instruction, ProtocolOp
  <2>2. Names(acceptBid(k), k)
    BY BuilderNames
  <2> QED BY <1>20, <2>1, <2>2
<1>21. CASE k.op = "expireBid"
  <2>1. Instruction(k) = expireBid(k)
    BY <1>21 DEF Instruction, ProtocolOp
  <2>2. Names(expireBid(k), k)
    BY BuilderNames
  <2> QED BY <1>21, <2>1, <2>2
<1>22. CASE k.op = "initiateDispute"
  <2>1. Instruction(k) = initiateDispute(k)
    BY <1>22 DEF Instruction, ProtocolOp
  <2>2. Names(initiateDispute(k), k)
    BY BuilderNames
  <2> QED BY <1>22, <2>1, <2>2
<1>23. CASE k.op = "voteDispute"
  <2>1. Instruction(k) = voteDispute(k)
    BY <1>23 DEF Instruction, ProtocolOp
  <2>2. Names(voteDispute(k), k)
    BY BuilderNames
  <2> QED BY <1>23, <2>1, <2>2
<1>24. CASE k.op = "resolveDispute"
  <2>1. Instruction(k) = resolveDispute(k)
    BY <1>24 DEF Instruction, ProtocolOp
  <2>2. Names(resolveDispute(k), k)
    BY BuilderNames
  <2> QED BY <1>24, <2>1, <2>2
<1>25. CASE k.op = "expireDispute"
  <2>1. Instruction(k) = expireDispute(k)
    BY <1>25 DEF Instruction, ProtocolOp
  <2>2. Names(expireDispute(k), k)
    BY BuilderNames
  <2> QED BY <1>25, <2>1, <2>2
<1>26. CASE k.op = "cancelDispute"
  <2>1. Instruction(k) = cancelDispute(k)
    BY <1>26 DEF Instruction, ProtocolOp
  <2>2. Names(cancelDispute(k), k)
    BY BuilderNames
  <2> QED BY <1>26, <2>1, <2>2
<1>27. CASE k.op = "applyDisputeSlash"
  <2>1. Instruction(k) = applyDisputeSlash(k)
    BY <1>27 DEF Instruction, ProtocolOp
  <2>2. Names(applyDisputeSlash(k), k)
    BY BuilderNames
  <2> QED BY <1>27, <2>1, <2>2
<1>28. CASE k.op = "applyInitiatorSlash"
  <2>1. Instruction(k) = applyInitiatorSlash(k)
    BY <1>28 DEF Instruction, ProtocolOp
  <2>2. Names(applyInitiatorSlash(k), k)
    BY BuilderNames
  <2> QED BY <1>28, <2>1, <2>2
<1>29. CASE k.op = "initializeBidMarketplace"
  <2>1. Instruction(k) = initializeBidMarketplace(k)
    BY <1>29 DEF Instruction, ProtocolOp
  <2>2. Names(initializeBidMarketplace(k), k)
    BY BuilderNames
  <2> QED BY <1>29, <2>1, <2>2
<1>30. CASE k.op = "updateBidMarketplaceConfig"
  <2>1. Instruction(k) = updateBidMarketplaceConfig(k)
    BY <1>30 DEF Instruction, ProtocolOp
  <2>2. Names(updateBidMarketplaceConfig(k), k)
    BY BuilderNames
  <2> QED BY <1>30, <2>1, <2>2
<1>31. CASE k.op \in ProtocolOp
  <2>1. Instruction(k) = executeMultisigProtocolInstruction(k)
    BY <1>31 DEF Instruction, ProtocolOp
  <2>2. k.op # "configureTaskValidation"
    BY <1>31 DEF ProtocolOp
  <2> QED BY <2>1, <2>2, BuilderNames
<1> QED BY <1>1, <1>2, <1>3, <1>4, <1>5, <1>6, <1>7, <1>8, <1>9, <1>10, <1>11, <1>12, <1>13,
           <1>14, <1>15, <1>16, <1>17, <1>18, <1>19, <1>20, <1>21, <1>22, <1>23, <1>24, <1>25,
           <1>26, <1>27, <1>28, <1>29, <1>30, <1>31

-----------------------------------------------------------------------------
(* The task through the steps.                                             *)

\* A task that does not exist yet.
LEMMA ChainInit == Init => ChainInv
BY DEF Init, ChainInv, Missing, Chains, Statuses, Claims, Results, Bids

\* Others execute instructions that are in order.
LEMMA OthersActs ==
    ASSUME Others
    PROVE  \E ix : /\ ix.agent \in Agent
                   /\ ix.op = "voteDispute" => ix.by \in Arbiter
                   /\ ix.op = "configureTaskValidation" => ix.mode \in Modes
                   /\ StatusErrors(chain, ix) = {} /\ chain' = After(chain, ix)
<1> DEFINE Ix(op, a, by, mode, approved) ==
              [op |-> op, agent |-> a, by |-> by, mode |-> mode, approved |-> approved]
           Acts(op, a, by, mode, approved) ==
              /\ op \in MultisigOp => chain.kind.bid
              /\ StatusErrors(chain, Ix(op, a, by, mode, approved)) = {}
              /\ chain' = After(chain, Ix(op, a, by, mode, approved))
              /\ chain' # chain
           OpsNow == IF At("idle") THEN Op ELSE Op \ CreateOp
           ModesOf(op) == IF op = "configureTaskValidation" THEN Modes ELSE {"Auto"}
           Answers(op) == IF op = "validateTaskResult" THEN BOOLEAN ELSE {FALSE}
<1>0. \E op \in OpsNow : \E a \in Agents(op) : \E by \in Callers(op, a) :
      \E mode \in ModesOf(op) : \E approved \in Answers(op) : Acts(op, a, by, mode, approved)
  BY DEF Others
<1> HIDE DEF Acts, OpsNow, Answers
<1>1. PICK op \in OpsNow : \E a \in Agents(op) : \E by \in Callers(op, a) :
        \E mode \in ModesOf(op) : \E approved \in Answers(op) : Acts(op, a, by, mode, approved)
  BY <1>0
<1>2. PICK a \in Agents(op) : \E by \in Callers(op, a) :
        \E mode \in ModesOf(op) : \E approved \in Answers(op) : Acts(op, a, by, mode, approved)
  BY <1>1
<1>3. PICK by \in Callers(op, a) : \E mode \in ModesOf(op) : \E approved \in Answers(op) :
        Acts(op, a, by, mode, approved)
  BY <1>2
<1>4. PICK mode \in ModesOf(op) : \E approved \in Answers(op) : Acts(op, a, by, mode, approved)
  BY <1>3
<1>a. PICK approved \in Answers(op) : Acts(op, a, by, mode, approved)
  BY <1>4
<1> DEFINE ix == Ix(op, a, by, mode, approved)
<1>5. StatusErrors(chain, ix) = {} /\ chain' = After(chain, ix)
  BY <1>a DEF Acts
<1>6. ix.op = op /\ ix.agent = a /\ ix.by = by /\ ix.mode = mode
  OBVIOUS
<1>7. a \in Agent /\ (op = "voteDispute" => by \in Arbiter)
      /\ (op = "configureTaskValidation" => mode \in Modes)
  BY AgentsFacts, CallersFacts
<1> HIDE DEF ix
<1> QED BY <1>5, <1>6, <1>7

\* They are as well formed as those of the call.
LEMMA OthersChain ==
    ASSUME Others, ChainInv PROVE chain' \in Chains
<1>1. PICK ix : /\ ix.agent \in Agent
                /\ ix.op = "voteDispute" => ix.by \in Arbiter
                /\ ix.op = "configureTaskValidation" => ix.mode \in Modes
                /\ StatusErrors(chain, ix) = {} /\ chain' = After(chain, ix)
  BY OthersActs
<1>2. After(chain, ix) \in Chains
  BY <1>1, AfterTyped DEF ChainInv
<1> QED BY <1>1, <1>2

\* The call executes one that is in order too.
LEMMA LandActs ==
    ASSUME Land, CallInv
    PROVE  LET ix == Instruction(call) IN
           /\ ix.agent \in Agent
           /\ ix.op = "voteDispute" => ix.by \in Arbiter
           /\ ix.op = "configureTaskValidation" => ix.mode \in Modes
           /\ StatusErrors(chain, ix) = {} /\ chain' = After(chain, ix)
<1> DEFINE ix == Instruction(call)
<1>1. StatusErrors(chain, ix) \cup AccountErrors(chain, ix) = {} /\ chain' = After(chain, ix)
  BY DEF Land
<1>2. SoundCall(call)
  BY CallSteps DEF Moves
<1>3. ix.agent \in Agent /\ (ix.op = "voteDispute" => ix.by \in Arbiter)
      /\ (ix.op = "configureTaskValidation" => ix.mode \in Modes)
  BY <1>2, InstructionNames DEF SoundCall, Names
<1> HIDE DEF ix
<1>4. StatusErrors(chain, ix) = {}
  BY <1>1
<1> QED BY <1>1, <1>3, <1>4 DEF ix

\* So the task stays in its states.
LEMMA LandChain ==
    ASSUME Land, ChainInv, CallInv PROVE chain' \in Chains
<1> DEFINE ix == Instruction(call)
<1>1. ix.agent \in Agent /\ (ix.op = "voteDispute" => ix.by \in Arbiter)
      /\ (ix.op = "configureTaskValidation" => ix.mode \in Modes) /\ chain' = After(chain, ix)
  BY LandActs
<1> HIDE DEF ix
<1>2. After(chain, ix) \in Chains
  BY <1>1, AfterTyped DEF ChainInv
<1> QED BY <1>1, <1>2

\* No step takes the task out of its states.
LEMMA ChainStep == CallInv /\ ChainInv /\ [Next]_vars => ChainInv'
<1> SUFFICES ASSUME CallInv, ChainInv, [Next]_vars PROVE chain' \in Chains
  BY DEF ChainInv
<1>1. CASE Land
  BY <1>1, LandChain
<1>2. CASE Others
  BY <1>2, OthersChain
<1>3. CASE Start
  BY <1>3, StartFacts DEF ChainInv
<1>4. CASE Read \/ Refuse \/ Send \/ Reject \/ RpcThrows \/ ConfirmThrows \/ ConfirmReturns
  BY <1>4, CallSteps DEF ChainInv
<1>5. CASE UNCHANGED vars
  BY <1>5 DEF vars, ChainInv
<1> QED BY <1>1, <1>2, <1>3, <1>4, <1>5 DEF Next

(***************************************************************************)
(* No instruction of the call or of the others takes the task or the call  *)
(* out of the states described.                                            *)
(***************************************************************************)
THEOREM TaskMarketTypesCorrect == Spec => []TypeOK
<1>1. CallInv /\ ChainInv => TypeOK
  <2> SUFFICES ASSUME CallInv, ChainInv PROVE TypeOK
    OBVIOUS
  <2>1. ASSUME call.phase # "idle"
        PROVE  call.op \in Op /\ call.phase \in Phase /\ call.landed \in 0..Need(call)
    BY <2>1 DEF CallInv, NoCall, SoundCall, Progress
  <2> QED BY <2>1 DEF TypeOK, ChainInv, Chains, Statuses, Claims, Results, Bids, At
<1> QED BY <1>1, CallInit, CallInvStep, ChainInit, ChainStep, PTL DEF Spec

-----------------------------------------------------------------------------
(* The job spec of a creation.                                             *)

\* The second transaction of a creation has set the spec, and nobody else
\* acts on the task any more.
SpecInv == call # NoCall /\ call.op = "createTask" /\ call.landed = 2 => chain.spec = TRUE

\* At first there is no creation.
LEMMA SpecInit == Init => SpecInv
BY DEF Init, SpecInv

\* Only the second transaction makes it two, and it sets the spec.
LEMMA SpecStep == CallInv /\ ChainInv /\ SpecInv /\ [Next]_vars => SpecInv'
<1> SUFFICES ASSUME CallInv, ChainInv, SpecInv, [Next]_vars,
                    call' # NoCall, call'.op = "createTask", call'.landed = 2
             PROVE  chain'.spec = TRUE
  BY DEF SpecInv
<1>1. CASE Start
  BY <1>1, StartFacts
<1>2. CASE Others
  <2>1. call # NoCall
    BY <1>2, OthersFacts
  <2>2. call.landed = 2 /\ call.landed < Need(call)
    BY <1>2, <2>1, OthersFacts
  <2> QED BY <2>2, NeedFacts
<1>3. CASE Land
  <2>1. call # NoCall /\ SoundCall(call) /\ call.op = "createTask" /\ call'.landed = call.landed + 1
    BY <1>3, CallSteps DEF Moves
  <2>2. call.landed = 1
    BY <2>1, NeedFacts DEF CallInv, Progress
  <2>3. Instruction(call) = setTaskJobSpec(call)
    BY <2>1, <2>2 DEF Instruction, ProtocolOp
  <2>4. Instruction(call).op = "setTaskJobSpec"
    BY <2>3, BuilderNames
  <2>5. chain' = [chain EXCEPT !.spec = TRUE]
    <3>1. chain' = After(chain, Instruction(call))
      BY <1>3 DEF Land
    <3> QED BY <2>4, <3>1 DEF After
  <2> QED BY <2>5 DEF ChainInv, Chains
<1>4. CASE Read \/ Refuse \/ Send \/ Reject \/ RpcThrows \/ ConfirmThrows \/ ConfirmReturns
  <2>1. call # NoCall /\ call'.op = call.op /\ call'.landed = call.landed + 0 /\ chain' = chain
    BY <1>4, CallSteps DEF Moves
  <2>2. call.landed \in Nat
    BY <2>1, NeedFacts DEF CallInv, Progress
  <2> QED BY <2>1, <2>2 DEF SpecInv
<1>5. CASE UNCHANGED vars
  BY <1>5 DEF vars, SpecInv
<1> QED BY <1>1, <1>2, <1>3, <1>4, <1>5 DEF Next

(***************************************************************************)
(* createTask with a job spec never returns on a task without one, even if *)
(* the task was claimed or cancelled between its two transactions.         *)
(***************************************************************************)
THEOREM HalfCreationsThrow == Spec => []HalfCreatedThrew
<1>1. CallInv /\ SpecInv => HalfCreatedThrew
  <2> SUFFICES ASSUME CallInv, SpecInv, call.phase # "idle", call.op = "createTask",
                      call.o.spec = "full", call.phase = "returned"
               PROVE  chain.spec
    BY DEF HalfCreatedThrew, At
  <2>1. call # NoCall /\ call.landed = Need(call)
    BY DEF CallInv, NoCall, Progress
  <2>2. Need(call) = 2
    BY DEF Need
  <2> QED BY <2>1, <2>2 DEF SpecInv
<1> QED BY <1>1, CallInit, CallInvStep, ChainInit, ChainStep, SpecInit, SpecStep, PTL DEF Spec

-----------------------------------------------------------------------------
(* Sequences joined, and the naturals.                                     *)

\* Every set of naturals has a least element.
LEMMA LeastOfNaturals ==
  ASSUME NEW T, T \subseteq Nat, T # {}
  PROVE  \E m \in T : \A n \in T : m <= n
<1>1. IsWellFoundedOn(OpToRel(<, Nat), Nat)
  BY NatLessThanWellFounded
<1>2. PICK m \in T : \A n \in T : ~(<<n, m>> \in OpToRel(<, Nat))
  BY <1>1, WFMin
<1>3. ASSUME NEW n \in T
      PROVE  m <= n
  <2>1. m \in Nat /\ n \in Nat
    OBVIOUS
  <2>2. ~(n < m)
    BY <1>2, <2>1 DEF OpToRel
  <2> QED
    BY <2>1, <2>2
<1> QED
  BY <1>3

\* So a set that holds zero and with every number the next holds them all.
LEMMA AllNaturals ==
  ASSUME NEW P, 0 \in P, \A n \in Nat : n \in P => n + 1 \in P
  PROVE  Nat \subseteq P
<1> DEFINE T == Nat \ P
<1>1. SUFFICES ASSUME T # {} PROVE FALSE
  OBVIOUS
<1>2. PICK m \in T : \A n \in T : m <= n
  BY <1>1, LeastOfNaturals
<1>3. m # 0 /\ m - 1 \in Nat
  OBVIOUS
<1>4. m - 1 \in P
  BY <1>2, <1>3
<1> QED BY <1>3, <1>4

\* f joins the first n of the sequences.
Joins(f, seqs, n) ==
    /\ f = [i \in 1..n |-> f[i]]
    /\ \A i \in 1..n : f[i] = IF i = 1 THEN seqs[i] ELSE f[i-1] \o seqs[i]

\* There is one for every n.
LEMMA JoinExists ==
  ASSUME NEW seqs, NEW n \in Nat
  PROVE  \E f : Joins(f, seqs, n)
<1> DEFINE P == {m \in Nat : \E f : Joins(f, seqs, m)}
<1>1. 0 \in P
  <2> DEFINE f == [i \in 1..0 |-> seqs[i]]
  <2>1. Joins(f, seqs, 0)
    BY DEF Joins
  <2> QED BY <2>1, Zenon
<1>2. ASSUME NEW m \in Nat, m \in P PROVE m+1 \in P
  <2>2. PICK g : Joins(g, seqs, m)
    BY <1>2
  <2> DEFINE f == [i \in 1..(m+1) |-> IF i = 1 THEN seqs[i]
                                      ELSE IF i = m+1 THEN g[m] \o seqs[i] ELSE g[i]]
  <2>1. ASSUME NEW i \in 1..m PROVE f[i] = g[i]
    <3>1. g[i] = IF i = 1 THEN seqs[i] ELSE g[i-1] \o seqs[i]
      BY <2>2 DEF Joins
    <3> QED BY <3>1
  <2>3. ASSUME NEW i \in 1..(m+1) PROVE f[i] = IF i = 1 THEN seqs[i] ELSE f[i-1] \o seqs[i]
    <3>1. CASE i = m+1
      <4>1. m # 0 => f[m] = g[m]
        <5>1. m # 0 => m \in 1..m
          OBVIOUS
        <5> QED BY <2>1, <5>1
      <4> QED BY <3>1, <4>1
    <3>2. CASE i # m+1
      <4>1. i \in 1..m /\ (i # 1 => i - 1 \in 1..m)
        BY <3>2
      <4>2. g[i] = IF i = 1 THEN seqs[i] ELSE g[i-1] \o seqs[i]
        BY <2>2, <4>1 DEF Joins
      <4>3. f[i] = g[i] /\ (i # 1 => f[i-1] = g[i-1])
        BY <2>1, <4>1
      <4> HIDE DEF f
      <4> QED BY <4>2, <4>3
    <3> QED BY <3>1, <3>2
  <2>4. f = [i \in 1..(m+1) |-> f[i]]
    OBVIOUS
  <2> HIDE DEF f
  <2>5. Joins(f, seqs, m+1)
    BY <2>3, <2>4 DEF Joins
  <2> QED BY <2>5
<1> HIDE DEF P
<1>3. Nat \subseteq P
  BY <1>1, <1>2, AllNaturals
<1>4. n \in P
  BY <1>3
<1> QED BY <1>4 DEF P

\* What FlattenSeq returns is the last of them.
LEMMA FlattenIsJoin ==
  ASSUME NEW seqs, Len(seqs) \in Nat, Len(seqs) # 0
  PROVE  \E f : Joins(f, seqs, Len(seqs)) /\ FlattenSeq(seqs) = f[Len(seqs)]
<1> DEFINE flatten[i \in 1..Len(seqs)] == IF i = 1 THEN seqs[i] ELSE flatten[i-1] \o seqs[i]
<1>1. \E f : f = [i \in 1..Len(seqs) |-> IF i = 1 THEN seqs[i] ELSE f[i-1] \o seqs[i]]
  <2>1. PICK f : Joins(f, seqs, Len(seqs))
    BY JoinExists
  <2>2. /\ f = [i \in 1..Len(seqs) |-> f[i]]
        /\ \A i \in 1..Len(seqs) : f[i] = IF i = 1 THEN seqs[i] ELSE f[i-1] \o seqs[i]
    BY <2>1 DEF Joins
  <2>3. f = [i \in 1..Len(seqs) |-> IF i = 1 THEN seqs[i] ELSE f[i-1] \o seqs[i]]
    BY <2>2
  <2> QED BY <2>3
<1>2. flatten = [i \in 1..Len(seqs) |-> IF i = 1 THEN seqs[i] ELSE flatten[i-1] \o seqs[i]]
  BY <1>1
<1>3. FlattenSeq(seqs) = flatten[Len(seqs)]
  BY DEF FlattenSeq
<1> HIDE DEF flatten
<1>4. Joins(flatten, seqs, Len(seqs))
  BY <1>2 DEF Joins
<1> QED BY <1>3, <1>4

\* Sequences of one length, one after the other, each in its place.
Blocks(s, seqs, n, w, T) ==
    /\ s \in Seq(T) /\ Len(s) = w * n
    /\ \A i \in 1..n : \A j \in 1..w : s[w * (i - 1) + j] = seqs[i][j]

LEMMA FlattenBlocks ==
  ASSUME NEW T, NEW n \in Nat, NEW w \in {2, 3}, NEW seqs \in [1..n -> Seq(T)],
         \A i \in 1..n : Len(seqs[i]) = w
  PROVE  Blocks(FlattenSeq(seqs), seqs, n, w, T)
<1>0. seqs \in Seq(Seq(T)) /\ Len(seqs) = n
  OBVIOUS
<1>1. CASE n = 0
  <2>1. FlattenSeq(seqs) = seqs
    BY <1>0, <1>1 DEF FlattenSeq
  <2>2. seqs = <<>>
    BY <1>0, <1>1
  <2>3. <<>> \in Seq(T) /\ Len(<<>>) = 0 /\ w * 0 = 0
    BY EmptySeq
  <2> QED BY <2>1, <2>2, <2>3, <1>1 DEF Blocks
<1>2. CASE n # 0
  <2>1. PICK f : Joins(f, seqs, n) /\ FlattenSeq(seqs) = f[n]
    BY <1>0, <1>2, FlattenIsJoin
  <2> DEFINE P == {m \in Nat : m < n => Blocks(f[m+1], seqs, m+1, w, T)}
  <2>2. 0 \in P
    <3>1. f[1] = seqs[1] /\ seqs[1] \in Seq(T) /\ Len(seqs[1]) = w
      BY <2>1, <1>2 DEF Joins
    <3>2. w * 1 = w /\ w * (1 - 1) = 0
      OBVIOUS
    <3>3. ASSUME NEW i \in 1..1, NEW j \in 1..w PROVE f[1][w * (i - 1) + j] = seqs[i][j]
      BY <3>1, <3>2
    <3>4. Blocks(f[1], seqs, 1, w, T)
      BY <3>1, <3>2, <3>3 DEF Blocks
    <3> QED BY <3>4
  <2>3. ASSUME NEW m \in Nat, m \in P PROVE m+1 \in P
    <3> SUFFICES ASSUME m+1 < n PROVE Blocks(f[m+2], seqs, m+2, w, T)
      OBVIOUS
    <3> DEFINE s == f[m+1]
               t == seqs[m+2]
    <3>1. Blocks(s, seqs, m+1, w, T)
      BY <2>3
    <3>2. f[m+2] = s \o t
      <4>1. m + 2 \in 1..n /\ m + 2 # 1 /\ (m + 2) - 1 = m + 1
        OBVIOUS
      <4> QED BY <2>1, <4>1 DEF Joins
    <3>3. s \in Seq(T) /\ Len(s) = w * (m+1) /\ t \in Seq(T) /\ Len(t) = w
      BY <3>1 DEF Blocks
    <3> HIDE DEF s, t
    <3>4. w * (m + 2) = w * (m + 1) + w /\ w * (m + 1) \in Nat
      OBVIOUS
    <3>5. /\ s \o t \in Seq(T) /\ Len(s \o t) = w * (m + 2)
          /\ \A i \in 1..(w * (m+1) + w) : (s \o t)[i] = IF i <= w * (m+1) THEN s[i] ELSE t[i - w * (m+1)]
      BY <3>3, <3>4, ConcatProperties
    <3>6. ASSUME NEW i \in 1..(m+2), NEW j \in 1..w
          PROVE  (s \o t)[w * (i - 1) + j] = seqs[i][j]
      <4>1. CASE i = m + 2
        <5>1. w * (i - 1) + j \in 1..(w * (m+1) + w) /\ ~(w * (i - 1) + j <= w * (m + 1))
              /\ (w * (i - 1) + j) - w * (m+1) = j
          BY <4>1
        <5> QED BY <3>5, <4>1, <5>1 DEF t
      <4>2. CASE i # m + 2
        <5>1. i \in 1..(m+1) /\ w * (i - 1) + j \in 1..(w * (m+1) + w) /\ w * (i - 1) + j <= w * (m + 1)
          BY <4>2
        <5> QED BY <3>1, <3>5, <5>1 DEF Blocks
      <4> QED BY <4>1, <4>2
    <3> QED BY <3>2, <3>5, <3>6 DEF Blocks
  <2> HIDE DEF P
  <2>4. Nat \subseteq P
    BY <2>2, <2>3, AllNaturals
  <2>5. n - 1 \in P /\ n - 1 \in Nat /\ n - 1 < n /\ (n - 1) + 1 = n
    BY <1>2, <2>4
  <2>6. Blocks(f[n], seqs, n, w, T)
    BY <2>5 DEF P
  <2> QED BY <2>1, <2>6
<1> QED BY <1>1, <1>2

\* SetToSeq lists every member of a finite set once.
LEMMA SetToSeqFacts ==
  ASSUME NEW S, IsFiniteSet(S)
  PROVE  /\ Cardinality(S) \in Nat /\ SetToSeq(S) \in [1..Cardinality(S) -> S]
         /\ Len(SetToSeq(S)) = Cardinality(S)
         /\ \A a \in S : \E i \in 1..Cardinality(S) : SetToSeq(S)[i] = a
<1> DEFINE n == Cardinality(S)
<1>1. n \in Nat /\ ExistsBijection(1..n, S)
  BY FS_CardinalityType
<1>2. \E f \in [1..n -> S] : IsInjective(f)
  BY <1>1 DEF ExistsBijection, Bijection, Injection
<1>3. SetToSeq(S) \in [1..n -> S] /\ IsInjective(SetToSeq(S))
  BY <1>2 DEF SetToSeq
<1>4. SetToSeq(S) \in Injection(1..n, S)
  BY <1>3 DEF Injection
<1>5. Cardinality(1..n) = n
  BY <1>1, FS_Interval
<1>6. SetToSeq(S) \in Surjection(1..n, S)
  BY <1>4, <1>5, FS_Injection
<1> HIDE DEF n
<1>7. Len(SetToSeq(S)) = n
  BY <1>1, <1>3
<1> QED BY <1>1, <1>3, <1>6, <1>7 DEF Surjection, n

\* r are the accounts acc of the members of S, w for each.
Lists(r, S, acc, w, T) ==
  /\ r \in Seq(T) /\ Len(r) = w * Cardinality(S) /\ Cardinality(S) \in Nat
  /\ \A a \in S : \E i \in 1..Cardinality(S) : SubSeq(r, w * (i - 1) + 1, w * i) = acc[a]

LEMMA EachBlocks ==
  ASSUME NEW S, IsFiniteSet(S), NEW T, NEW w \in {2, 3}, NEW acc,
         \A a \in S : acc[a] \in Seq(T) /\ Len(acc[a]) = w,
         NEW s, s = SetToSeq(S), NEW r, r = FlattenSeq([i \in 1..Len(s) |-> acc[s[i]]])
  PROVE  Lists(r, S, acc, w, T)
<1> DEFINE n == Cardinality(S)
           seqs == [i \in 1..n |-> acc[s[i]]]
<1>1. n \in Nat /\ s \in [1..n -> S] /\ Len(s) = n /\ \A a \in S : \E i \in 1..n : s[i] = a
  BY SetToSeqFacts
<1>2. r = FlattenSeq(seqs)
  BY <1>1
<1> HIDE DEF n
<1>3. seqs \in [1..n -> Seq(T)] /\ \A i \in 1..n : Len(seqs[i]) = w
  BY <1>1
<1>4. Blocks(r, seqs, n, w, T)
  <2> HIDE DEF seqs
  <2> QED BY <1>1, <1>2, <1>3, FlattenBlocks
<1>5. r \in Seq(T) /\ Len(r) = w * n
  BY <1>4 DEF Blocks
<1>6. ASSUME NEW i \in 1..n PROVE SubSeq(r, w * (i - 1) + 1, w * i) = seqs[i]
  <2> DEFINE lo == w * (i - 1) + 1
             hi == w * i
  <2>1. lo \in Int /\ hi \in Int /\ lo <= hi /\ hi - lo + 1 = w /\ lo >= 1 /\ hi <= w * n
    BY <1>1
  <2>2. \A j \in lo..hi : r[j] \in T
    BY <1>5, <2>1
  <2>3. /\ SubSeq(r, lo, hi) \in Seq(T) /\ Len(SubSeq(r, lo, hi)) = w
        /\ \A j \in 1..w : SubSeq(r, lo, hi)[j] = r[lo + j - 1]
    <3> HIDE DEF lo, hi
    <3> QED BY <2>1, <2>2, SubSeqProperties
  <2>4. \A j \in 1..w : r[lo + j - 1] = seqs[i][j]
    <3>1. \A j \in 1..w : lo + j - 1 = w * (i - 1) + j
      BY <2>1
    <3> QED BY <1>4, <3>1 DEF Blocks
  <2>5. seqs[i] \in Seq(T) /\ Len(seqs[i]) = w
    BY <1>3
  <2> DEFINE cut == SubSeq(r, lo, hi)
             block == seqs[i]
  <2>6. /\ cut \in Seq(T) /\ block \in Seq(T) /\ Len(cut) = Len(block)
        /\ \A j \in 1..Len(cut) : cut[j] = block[j]
    BY <2>3, <2>4, <2>5
  <2> HIDE DEF cut, block
  <2>7. cut = block
    BY <2>6, SeqEqual
  <2> QED BY <2>7 DEF lo, hi, cut, block
<1>7. ASSUME NEW a \in S PROVE \E i \in 1..n : SubSeq(r, w * (i - 1) + 1, w * i) = acc[a]
  <2>1. PICK i \in 1..n : s[i] = a
    BY <1>1
  <2> QED BY <1>6, <2>1
<1> QED BY <1>1, <1>5, <1>7 DEF n, Lists

-----------------------------------------------------------------------------
(* The account lists of sets of agents.                                    *)

\* The addresses that the remaining accounts of the task are made of.
AddressesOf(S) ==
    {ClaimPda(Task, a) : a \in S} \cup {AgentPda(a) : a \in S} \cup {Wallet(a) : a \in S}
    \cup {VotePda(Dispute, a) : a \in S}

\* Where the blocks of two and of three accounts begin.
LEMMA BlockStart ==
  ASSUME NEW n \in Nat, NEW i \in 1..n
  PROVE  2 * (i - 1) + 1 = 2 * i - 1 /\ 3 * (i - 1) + 1 = 3 * i - 2
OBVIOUS

\* Two addresses are an account list.
LEMMA PairSeq ==
  ASSUME NEW T, NEW x \in T, NEW y \in T
  PROVE  <<x, y>> \in Seq(T) /\ Len(<<x, y>>) = 2
OBVIOUS

\* Three addresses are one too.
LEMMA TripleSeq ==
  ASSUME NEW T, NEW x \in T, NEW y \in T, NEW z \in T
  PROVE  Append(<<x, y>>, z) \in Seq(T) /\ Len(Append(<<x, y>>, z)) = 3
BY PairSeq, AppendProperties

\* Each lists the claims of exactly the agents in S, with their agents.
LEMMA EachPair ==
  ASSUME NEW S, IsFiniteSet(S), NEW T, AddressesOf(S) \subseteq T,
         NEW r, r = Each(S, LAMBDA a : ClaimAndAgent(Task, a))
  PROVE  PairsOf(S, r) /\ r \in Seq(T) /\ Len(r) = 2 * Cardinality(S) /\ Cardinality(S) \in Nat
<1> DEFINE acc == [a \in S |-> ClaimAndAgent(Task, a)]
           s == SetToSeq(S)
<1>0. \A a \in S : ClaimPda(Task, a) \in T /\ AgentPda(a) \in T
  BY DEF AddressesOf
<1>1. \A a \in S : acc[a] \in Seq(T) /\ Len(acc[a]) = 2
  BY <1>0, PairSeq DEF ClaimAndAgent
<1>2. r = FlattenSeq([i \in 1..Len(s) |-> ClaimAndAgent(Task, s[i])])
  BY DEF Each
<1>3. \A i \in 1..Len(s) : s[i] \in S
  BY SetToSeqFacts
<1>7. s = SetToSeq(S)
  OBVIOUS
<1> HIDE DEF s
<1>4. [i \in 1..Len(s) |-> ClaimAndAgent(Task, s[i])] = [i \in 1..Len(s) |-> acc[s[i]]]
  BY <1>3
<1>5. r = FlattenSeq([i \in 1..Len(s) |-> acc[s[i]]])
  BY <1>2, <1>4
<1>6. \A a \in S : acc[a] = ClaimAndAgent(Task, a)
  OBVIOUS
<1> HIDE DEF acc
<1> DEFINE w == 2
<1>8. w \in {2, 3} /\ \A a \in S : acc[a] \in Seq(T) /\ Len(acc[a]) = w
  BY <1>1
<1> HIDE DEF w
<1>9. Lists(r, S, acc, w, T)
  BY <1>5, <1>7, <1>8, EachBlocks
<1>10. Cardinality(S) \in Nat
  BY <1>9 DEF Lists
<1> USE DEF w, Lists
<1>11. PairsOf(S, r)
  <2>1. ASSUME NEW a \in S
        PROVE  \E i \in 1..Cardinality(S) : SubSeq(r, 2 * i - 1, 2 * i) = ClaimAndAgent(Task, a)
    <3>1. PICK i \in 1..Cardinality(S) : SubSeq(r, 2 * (i - 1) + 1, 2 * i) = acc[a]
      BY <1>9
    <3>a. 2 * (i - 1) + 1 = 2 * i - 1
      BY <1>10, BlockStart
    <3>2. SubSeq(r, 2 * i - 1, 2 * i) = ClaimAndAgent(Task, a)
      BY <3>1, <1>6, <3>a
    <3> QED BY <3>2
  <2> QED BY <2>1, <1>9 DEF PairsOf
<1> QED BY <1>9, <1>11

\* The same with the wallets.
LEMMA EachTriple ==
  ASSUME NEW S, IsFiniteSet(S), NEW T, AddressesOf(S) \subseteq T,
         NEW r, r = Each(S, LAMBDA a : Append(ClaimAndAgent(Task, a), Wallet(a)))
  PROVE  TriplesOf(S, r) /\ r \in Seq(T) /\ Len(r) = 3 * Cardinality(S) /\ Cardinality(S) \in Nat
<1> DEFINE acc == [a \in S |-> Append(ClaimAndAgent(Task, a), Wallet(a))]
           s == SetToSeq(S)
<1>1. \A a \in S : acc[a] \in Seq(T) /\ Len(acc[a]) = 3
  <2>1. \A a \in S : ClaimPda(Task, a) \in T /\ AgentPda(a) \in T /\ Wallet(a) \in T
    BY DEF AddressesOf
  <2> QED BY <2>1, TripleSeq DEF ClaimAndAgent
<1>2. r = FlattenSeq([i \in 1..Len(s) |-> Append(ClaimAndAgent(Task, s[i]), Wallet(s[i]))])
  BY DEF Each
<1>3. \A i \in 1..Len(s) : s[i] \in S
  BY SetToSeqFacts
<1>7. s = SetToSeq(S)
  OBVIOUS
<1> HIDE DEF s
<1>4. [i \in 1..Len(s) |-> Append(ClaimAndAgent(Task, s[i]), Wallet(s[i]))]
      = [i \in 1..Len(s) |-> acc[s[i]]]
  BY <1>3
<1>5. r = FlattenSeq([i \in 1..Len(s) |-> acc[s[i]]])
  BY <1>2, <1>4
<1>6. \A a \in S : acc[a] = Append(ClaimAndAgent(Task, a), Wallet(a))
  OBVIOUS
<1> HIDE DEF acc
<1> DEFINE w == 3
<1>8. w \in {2, 3} /\ \A a \in S : acc[a] \in Seq(T) /\ Len(acc[a]) = w
  BY <1>1
<1> HIDE DEF w
<1>9. Lists(r, S, acc, w, T)
  BY <1>5, <1>7, <1>8, EachBlocks
<1>10. Cardinality(S) \in Nat
  BY <1>9 DEF Lists
<1> USE DEF w, Lists
<1>11. TriplesOf(S, r)
  <2>1. ASSUME NEW a \in S
        PROVE  \E i \in 1..Cardinality(S) :
                  SubSeq(r, 3 * i - 2, 3 * i) = Append(ClaimAndAgent(Task, a), Wallet(a))
    <3>1. PICK i \in 1..Cardinality(S) : SubSeq(r, 3 * (i - 1) + 1, 3 * i) = acc[a]
      BY <1>9
    <3>a. 3 * (i - 1) + 1 = 3 * i - 2
      BY <1>10, BlockStart
    <3>2. SubSeq(r, 3 * i - 2, 3 * i) = Append(ClaimAndAgent(Task, a), Wallet(a))
      BY <3>1, <1>6, <3>a
    <3> QED BY <3>2
  <2> QED BY <2>1, <1>9 DEF TriplesOf
<1> QED BY <1>9, <1>11

\* The votes of the arbiters in S with their agents, in any order.
VotesOf(S, accounts) ==
    /\ Len(accounts) = 2 * Cardinality(S)
    /\ \A v \in S : \E i \in 1..Cardinality(S) :
          SubSeq(accounts, 2 * i - 1, 2 * i) = <<VotePda(Dispute, v), AgentPda(v)>>

\* The votes with their arbiters.
LEMMA EachVote ==
  ASSUME NEW S, IsFiniteSet(S), NEW T, AddressesOf(S) \subseteq T,
         NEW r, r = Each(S, LAMBDA v : <<VotePda(Dispute, v), AgentPda(v)>>)
  PROVE  VotesOf(S, r) /\ r \in Seq(T) /\ Len(r) = 2 * Cardinality(S) /\ Cardinality(S) \in Nat
<1> DEFINE acc == [v \in S |-> <<VotePda(Dispute, v), AgentPda(v)>>]
           s == SetToSeq(S)
<1>0. \A v \in S : VotePda(Dispute, v) \in T /\ AgentPda(v) \in T
  BY DEF AddressesOf
<1>1. \A v \in S : acc[v] \in Seq(T) /\ Len(acc[v]) = 2
  BY <1>0, PairSeq
<1>2. r = FlattenSeq([i \in 1..Len(s) |-> <<VotePda(Dispute, s[i]), AgentPda(s[i])>>])
  BY DEF Each
<1>3. \A i \in 1..Len(s) : s[i] \in S
  BY SetToSeqFacts
<1>7. s = SetToSeq(S)
  OBVIOUS
<1> HIDE DEF s
<1>4. [i \in 1..Len(s) |-> <<VotePda(Dispute, s[i]), AgentPda(s[i])>>]
      = [i \in 1..Len(s) |-> acc[s[i]]]
  BY <1>3
<1>5. r = FlattenSeq([i \in 1..Len(s) |-> acc[s[i]]])
  BY <1>2, <1>4
<1>6. \A v \in S : acc[v] = <<VotePda(Dispute, v), AgentPda(v)>>
  OBVIOUS
<1> HIDE DEF acc
<1> DEFINE w == 2
<1>8. w \in {2, 3} /\ \A v \in S : acc[v] \in Seq(T) /\ Len(acc[v]) = w
  BY <1>1
<1> HIDE DEF w
<1>9. Lists(r, S, acc, w, T)
  BY <1>5, <1>7, <1>8, EachBlocks
<1>10. Cardinality(S) \in Nat
  BY <1>9 DEF Lists
<1> USE DEF w, Lists
<1>11. ASSUME NEW v \in S
       PROVE  \E i \in 1..Cardinality(S) :
                 SubSeq(r, 2 * i - 1, 2 * i) = <<VotePda(Dispute, v), AgentPda(v)>>
    <3>1. PICK i \in 1..Cardinality(S) : SubSeq(r, 2 * (i - 1) + 1, 2 * i) = acc[v]
      BY <1>9
    <3>a. 2 * (i - 1) + 1 = 2 * i - 1
      BY <1>10, BlockStart
    <3>2. SubSeq(r, 2 * i - 1, 2 * i) = <<VotePda(Dispute, v), AgentPda(v)>>
      BY <3>1, <1>6, <3>a
    <3> QED BY <3>2
<1> QED BY <1>9, <1>11 DEF VotesOf

\* What is appended is a suffix, and what precedes it the rest.
LEMMA SuffixFacts ==
  ASSUME NEW T, NEW s \in Seq(T), NEW t \in Seq(T)
  PROVE  /\ IsSuffix(t, s \o t) /\ Len(s \o t) = Len(s) + Len(t) /\ s \o t \in Seq(T)
         /\ SubSeq(s \o t, 1, Len(s \o t) - Len(t)) = s
<1> DEFINE r == s \o t
<1>1. /\ r \in Seq(T) /\ Len(r) = Len(s) + Len(t) /\ Len(s) \in Nat /\ Len(t) \in Nat
      /\ \A i \in 1..(Len(s) + Len(t)) : r[i] = IF i <= Len(s) THEN s[i] ELSE t[i - Len(s)]
  BY ConcatProperties, LenProperties
<1> HIDE DEF r
<1>2. SubSeq(r, 1, Len(r) - Len(t)) = s
  <2> DEFINE u == SubSeq(r, 1, Len(s))
  <2>1. /\ u \in Seq(T) /\ Len(u) = Len(s)
        /\ \A i \in 1..Len(s) : u[i] = r[i]
    <3>1. \A i \in 1..Len(s) : r[i] \in T
      BY <1>1
    <3>2. 1 \in Int /\ Len(s) \in Int
      BY <1>1
    <3>3. /\ u \in Seq(T) /\ Len(u) = (IF 1 <= Len(s) THEN Len(s) - 1 + 1 ELSE 0)
          /\ \A i \in 1..(Len(s) - 1 + 1) : u[i] = r[1 + i - 1]
      BY <3>1, <3>2, SubSeqProperties
    <3> QED BY <1>1, <3>3
  <2> HIDE DEF u
  <2>2. u = s
    <3>1. \A i \in 1..Len(u) : u[i] = s[i]
      BY <1>1, <2>1
    <3> QED BY <2>1, <3>1, SeqEqual
  <2> QED BY <1>1, <2>2 DEF u
<1>3. IsSuffix(t, r)
  <2> DEFINE p == Reverse(t)
             q == Reverse(r)
  <2>1. /\ p \in Seq(T) /\ Len(p) = Len(t) /\ \A i \in 1..Len(t) : p[i] = t[(Len(t) - i) + 1]
    BY <1>1 DEF Reverse
  <2>2. /\ q \in Seq(T) /\ Len(q) = Len(r) /\ \A i \in 1..Len(r) : q[i] = r[(Len(r) - i) + 1]
    BY <1>1 DEF Reverse
  <2> HIDE DEF p, q
  <2>3. ASSUME NEW i \in 1..Len(t) PROVE p[i] = q[i]
    <3>1. i \in 1..Len(r) /\ (Len(r) - i) + 1 \in 1..(Len(s) + Len(t))
          /\ ~((Len(r) - i) + 1 <= Len(s)) /\ ((Len(r) - i) + 1) - Len(s) = (Len(t) - i) + 1
      BY <1>1
    <3> QED BY <1>1, <2>1, <2>2, <3>1
  <2>4. SubSeq(p, 1, Len(p)) = p
    BY <2>1, SubSeqFull
  <2> DEFINE u == SubSeq(q, 1, Len(p))
  <2>5. /\ u \in Seq(T) /\ Len(u) = Len(p) /\ \A i \in 1..Len(p) : u[i] = q[i]
    <3>1. \A i \in 1..Len(p) : q[i] \in T
      BY <1>1, <2>1, <2>2
    <3>2. 1 \in Int /\ Len(p) \in Int /\ Len(p) \in Nat
      BY <1>1, <2>1
    <3>3. /\ u \in Seq(T) /\ Len(u) = (IF 1 <= Len(p) THEN Len(p) - 1 + 1 ELSE 0)
          /\ \A i \in 1..(Len(p) - 1 + 1) : u[i] = q[1 + i - 1]
      BY <3>1, <3>2, SubSeqProperties
    <3> QED BY <3>2, <3>3
  <2> HIDE DEF u
  <2>6. p = u
    <3>1. \A i \in 1..Len(p) : p[i] = u[i]
      BY <2>1, <2>3, <2>5
    <3> QED BY <2>1, <2>5, <3>1, SeqEqual
  <2>7. Len(p) <= Len(q)
    BY <1>1, <2>1, <2>2
  <2>8. IsPrefix(p, q)
    BY <2>4, <2>6, <2>7 DEF IsPrefix, u
  <2> QED BY <2>8 DEF IsSuffix, p, q
<1> QED BY <1>1, <1>2, <1>3 DEF r

\* A sequence with the elements of two others is what they are joined to.
LEMMA ConcatIs ==
    ASSUME NEW T, NEW s \in Seq(T), NEW t \in Seq(T), NEW u \in Seq(T), Len(u) = Len(s) + Len(t),
           \A i \in 1..Len(s) : u[i] = s[i], \A i \in 1..Len(t) : u[Len(s) + i] = t[i]
    PROVE  s \o t = u
<1>1. /\ s \o t \in Seq(T) /\ Len(s \o t) = Len(s) + Len(t) /\ Len(s) \in Nat /\ Len(t) \in Nat
      /\ \A i \in 1..(Len(s) + Len(t)) : (s \o t)[i] = IF i <= Len(s) THEN s[i] ELSE t[i - Len(s)]
  BY ConcatProperties, LenProperties
<1> DEFINE r == s \o t
<1>2. ASSUME NEW i \in 1..Len(r) PROVE r[i] = u[i]
  <2>1. CASE i <= Len(s)
    BY <1>1, <2>1
  <2>2. CASE ~(i <= Len(s))
    <3>1. i - Len(s) \in 1..Len(t) /\ Len(s) + (i - Len(s)) = i
      BY <1>1, <2>2
    <3>2. u[Len(s) + (i - Len(s))] = t[i - Len(s)]
      BY <3>1
    <3> QED BY <1>1, <2>2, <3>1, <3>2
  <2> QED BY <2>1, <2>2
<1> HIDE DEF r
<1> QED BY <1>1, <1>2, SeqEqual DEF r

\* What is put behind and before the three accounts of an accepted bid.
LEMMA ThreeFacts ==
    ASSUME NEW x, NEW y, NEW z, NEW w, NEW p
    PROVE  /\ <<x, y, z>> # <<>>
           /\ Append(<<x, y, z>>, w) = <<x, y, z, w>>
           /\ <<p>> \o <<x, y, z, w>> = <<p, x, y, z, w>>
           /\ <<p>> \o <<x, y, z>> \o <<w>> = <<p, x, y, z, w>>
<1> DEFINE T == {x, y, z, w, p}
<1>1. <<x, y, z>> \o <<w>> = <<x, y, z, w>>
  <2> DEFINE s == <<x, y, z>>
             t == <<w>>
             u == <<x, y, z, w>>
  <2>1. s \in Seq(T) /\ t \in Seq(T) /\ u \in Seq(T)
    OBVIOUS
  <2>2. Len(s) = 3 /\ Len(t) = 1 /\ Len(u) = 4
    OBVIOUS
  <2>3. s[1] = u[1] /\ s[2] = u[2] /\ s[3] = u[3]
    OBVIOUS
  <2>4. t[1] = u[4]
    OBVIOUS
  <2> HIDE DEF s, t, u, T
  <2>5. ASSUME NEW i \in 1..Len(s) PROVE u[i] = s[i]
    <3>1. i \in {1, 2, 3}
      BY <2>2
    <3> QED BY <2>3, <3>1
  <2>6. ASSUME NEW i \in 1..Len(t) PROVE u[Len(s) + i] = t[i]
    <3>1. i \in {1}
      BY <2>2
    <3> QED BY <2>2, <2>4, <3>1
  <2>7. Len(u) = Len(s) + Len(t)
    BY <2>2
  <2>8. s \o t = u
    BY <2>1, <2>5, <2>6, <2>7, ConcatIs, Zenon
  <2> QED BY <2>8 DEF s, t, u
<1>2. <<p>> \o <<x, y, z, w>> = <<p, x, y, z, w>>
  <2> DEFINE s == <<p>>
             t == <<x, y, z, w>>
             u == <<p, x, y, z, w>>
  <2>1. s \in Seq(T) /\ t \in Seq(T) /\ u \in Seq(T)
    OBVIOUS
  <2>2. Len(s) = 1 /\ Len(t) = 4 /\ Len(u) = 5
    OBVIOUS
  <2>3. s[1] = u[1]
    OBVIOUS
  <2>4. t[1] = u[2] /\ t[2] = u[3] /\ t[3] = u[4] /\ t[4] = u[5]
    OBVIOUS
  <2> HIDE DEF s, t, u, T
  <2>5. ASSUME NEW i \in 1..Len(s) PROVE u[i] = s[i]
    <3>1. i \in {1}
      BY <2>2
    <3> QED BY <2>3, <3>1
  <2>6. ASSUME NEW i \in 1..Len(t) PROVE u[Len(s) + i] = t[i]
    <3>1. i \in {1, 2, 3, 4}
      BY <2>2
    <3> QED BY <2>2, <2>4, <3>1
  <2>7. Len(u) = Len(s) + Len(t)
    BY <2>2
  <2>8. s \o t = u
    BY <2>1, <2>5, <2>6, <2>7, ConcatIs, Zenon
  <2> QED BY <2>8 DEF s, t, u
<1>3. <<p>> \o <<x, y, z>> = <<p, x, y, z>>
  <2> DEFINE s == <<p>>
             t == <<x, y, z>>
             u == <<p, x, y, z>>
  <2>1. s \in Seq(T) /\ t \in Seq(T) /\ u \in Seq(T)
    OBVIOUS
  <2>2. Len(s) = 1 /\ Len(t) = 3 /\ Len(u) = 4
    OBVIOUS
  <2>3. s[1] = u[1]
    OBVIOUS
  <2>4. t[1] = u[2] /\ t[2] = u[3] /\ t[3] = u[4]
    OBVIOUS
  <2> HIDE DEF s, t, u, T
  <2>5. ASSUME NEW i \in 1..Len(s) PROVE u[i] = s[i]
    <3>1. i \in {1}
      BY <2>2
    <3> QED BY <2>3, <3>1
  <2>6. ASSUME NEW i \in 1..Len(t) PROVE u[Len(s) + i] = t[i]
    <3>1. i \in {1, 2, 3}
      BY <2>2
    <3> QED BY <2>2, <2>4, <3>1
  <2>7. Len(u) = Len(s) + Len(t)
    BY <2>2
  <2>8. s \o t = u
    BY <2>1, <2>5, <2>6, <2>7, ConcatIs, Zenon
  <2> QED BY <2>8 DEF s, t, u
<1>4. <<p, x, y, z>> \o <<w>> = <<p, x, y, z, w>>
  <2> DEFINE s == <<p, x, y, z>>
             t == <<w>>
             u == <<p, x, y, z, w>>
  <2>1. s \in Seq(T) /\ t \in Seq(T) /\ u \in Seq(T)
    OBVIOUS
  <2>2. Len(s) = 4 /\ Len(t) = 1 /\ Len(u) = 5
    OBVIOUS
  <2>3. s[1] = u[1] /\ s[2] = u[2] /\ s[3] = u[3] /\ s[4] = u[4]
    OBVIOUS
  <2>4. t[1] = u[5]
    OBVIOUS
  <2> HIDE DEF s, t, u, T
  <2>5. ASSUME NEW i \in 1..Len(s) PROVE u[i] = s[i]
    <3>1. i \in {1, 2, 3, 4}
      BY <2>2
    <3> QED BY <2>3, <3>1
  <2>6. ASSUME NEW i \in 1..Len(t) PROVE u[Len(s) + i] = t[i]
    <3>1. i \in {1}
      BY <2>2
    <3> QED BY <2>2, <2>4, <3>1
  <2>7. Len(u) = Len(s) + Len(t)
    BY <2>2
  <2>8. s \o t = u
    BY <2>1, <2>5, <2>6, <2>7, ConcatIs, Zenon
  <2> QED BY <2>8 DEF s, t, u
<1>5. Append(<<x, y, z>>, w) = <<x, y, z>> \o <<w>>
  <2>1. <<x, y, z>> \in Seq(T) /\ w \in T
    OBVIOUS
  <2> HIDE DEF T
  <2> QED BY <2>1, AppendIsConcat
<1>6. <<x, y, z>> # <<>>
  OBVIOUS
<1> QED BY <1>1, <1>2, <1>3, <1>4, <1>5, <1>6

\* Where three parts of an account list are, when the votes come first.
LEMMA MiddleFacts ==
    ASSUME NEW T, NEW v \in Seq(T), NEW w \in Seq(T), NEW b \in Seq(T), NEW n, n = Len(v),
           NEW r, r = v \o w \o b
    PROVE  /\ Len(r) >= n /\ IsSuffix(b, r) /\ SubSeq(r, n + 1, Len(r) - Len(b)) = w
           /\ \A i, j \in 1..n : SubSeq(r, i, j) = SubSeq(v, i, j)
<1>1. /\ Len(v) \in Nat /\ Len(w) \in Nat /\ Len(b) \in Nat
      /\ v \o w \in Seq(T) /\ Len(v \o w) = Len(v) + Len(w)
      /\ w \o b \in Seq(T) /\ Len(w \o b) = Len(w) + Len(b)
  BY ConcatProperties, LenProperties
<1>2. IsSuffix(b, r) /\ Len(r) = Len(v) + Len(w) + Len(b)
  <2> DEFINE u == v \o w
  <2>1. u \in Seq(T) /\ Len(u) = Len(v) + Len(w) /\ r = u \o b
    BY <1>1
  <2> HIDE DEF u
  <2>2. IsSuffix(b, u \o b) /\ Len(u \o b) = Len(u) + Len(b)
    BY <2>1, SuffixFacts, Zenon
  <2> QED BY <2>1, <2>2
<1>3. r = v \o (w \o b)
  BY ConcatAssociative
<1>4. \A i, j \in 1..n : SubSeq(r, i, j) = SubSeq(v, i, j)
  BY <1>1, <1>3, SubSeqOfConcat1
<1>5. SubSeq(r, n + 1, Len(r) - Len(b)) = w
  <2>1. Len(r) - Len(b) = Len(v) + Len(w)
    BY <1>1, <1>2
  <2>2. CASE w = <<>>
    <3>1. Len(w) = 0
      BY <2>2
    <3>2. SubSeq(r, n + 1, Len(v)) = <<>>
      BY <1>1, SubSeqEmpty
    <3> QED BY <1>1, <2>1, <2>2, <3>1, <3>2
  <2>3. CASE w # <<>>
    <3>1. Len(w) \in Nat \ {0}
      BY <2>3, EmptySeq
    <3>2. /\ n + 1 \in 1..Len(v \o w) /\ Len(v) + Len(w) \in 1..Len(v \o w)
          /\ n + 1 \in Len(v)+1 .. Len(v)+Len(w) /\ Len(v) + Len(w) \in Len(v)+1 .. Len(v)+Len(w)
          /\ (n + 1) - Len(v) = 1 /\ (Len(v) + Len(w)) - Len(v) = Len(w)
      BY <1>1, <3>1
    <3>3. SubSeq(r, n + 1, Len(v) + Len(w)) = SubSeq(v \o w, n + 1, Len(v) + Len(w))
      BY <1>1, <3>2, SubSeqOfConcat1
    <3>4. SubSeq(v \o w, n + 1, Len(v) + Len(w)) = SubSeq(w, 1, Len(w))
      BY <3>2, SubSeqOfConcat2
    <3> QED BY <2>1, <3>3, <3>4, SubSeqFull
  <2> QED BY <2>2, <2>3
<1> QED BY <1>1, <1>2, <1>4, <1>5

\* The accounts of an accepted bid, one and then two.
LEMMA BookFirst ==
    ASSUME NEW T, NEW s \in Seq(T), NEW x \in T, NEW y \in T, NEW z \in T
    PROVE  s \o <<x>> \o <<y, z>> = s \o <<x, y, z>>
<1> DEFINE t == <<x>>
           u == <<y, z>>
           v == <<x, y, z>>
<1>1. t \in Seq(T) /\ u \in Seq(T) /\ v \in Seq(T)
  OBVIOUS
<1>2. Len(t) = 1 /\ Len(u) = 2 /\ Len(v) = 3
  OBVIOUS
<1>3. t[1] = v[1] /\ u[1] = v[2] /\ u[2] = v[3]
  OBVIOUS
<1> HIDE DEF t, u, v
<1>4. ASSUME NEW i \in 1..Len(t) PROVE v[i] = t[i]
  BY <1>2, <1>3
<1>5. ASSUME NEW i \in 1..Len(u) PROVE v[Len(t) + i] = u[i]
  <2>1. i \in {1, 2}
    BY <1>2
  <2> QED BY <1>2, <1>3, <2>1
<1>6. Len(v) = Len(t) + Len(u)
  BY <1>2
<1>7. t \o u = v
  BY <1>1, <1>4, <1>5, <1>6, ConcatIs, Zenon
<1>8. (s \o t) \o u = s \o (t \o u)
  BY <1>1, ConcatAssociative
<1> QED BY <1>7, <1>8 DEF t, u, v

-----------------------------------------------------------------------------
(* The signers of a protocol operation.                                    *)

\* What becomes of the accounts when the next signer is looked at.
Kept(seen, s) == IF Contains(seen, s) THEN seen ELSE Append(seen, s)

\* h goes through the first n signers, the largest index last.
Keeps(h, signers, n) ==
    /\ h = [s \in SUBSET (1..n) |-> h[s]]
    /\ \A s \in SUBSET (1..n) :
          h[s] = IF s = {} THEN <<>> ELSE Kept(h[s \ {Max(s)}], signers[Max(s)])

\* The largest number of a set is its maximum.
LEMMA MaxFacts ==
  ASSUME NEW n \in Int, NEW s, s \subseteq Int, n \in s, \A m \in s : m <= n
  PROVE  Max(s) = n
<1>1. n \in s /\ \A y \in s : n >= y
  OBVIOUS
<1>2. Max(s) \in s /\ \A y \in s : Max(s) >= y
  BY <1>1, Zenon DEF Max
<1>3. Max(s) \in Int /\ Max(s) >= n /\ Max(s) <= n
  BY <1>2
<1> QED BY <1>3

\* There is such a function for every n.
LEMMA KeepExists ==
  ASSUME NEW signers, NEW n \in Nat
  PROVE  \E h : Keeps(h, signers, n)
<1> DEFINE P == {m \in Nat : \E h : Keeps(h, signers, m)}
<1>1. 0 \in P
  <2> DEFINE h == [s \in SUBSET (1..0) |-> <<>>]
  <2>1. \A s \in SUBSET (1..0) : s = {}
    OBVIOUS
  <2>2. Keeps(h, signers, 0)
    BY <2>1 DEF Keeps
  <2> QED BY <2>2, Zenon
<1>2. ASSUME NEW m \in Nat, m \in P PROVE m + 1 \in P
  <2>1. PICK g : Keeps(g, signers, m)
    BY <1>2
  <2> DEFINE h == [s \in SUBSET (1..(m+1)) |->
                      IF m + 1 \in s THEN Kept(g[s \ {m+1}], signers[m+1]) ELSE g[s]]
  <2>2. \A s \in SUBSET (1..m) : s \in SUBSET (1..(m+1)) /\ m + 1 \notin s /\ h[s] = g[s]
    OBVIOUS
  <2>3. ASSUME NEW s \in SUBSET (1..(m+1))
        PROVE  h[s] = IF s = {} THEN <<>> ELSE Kept(h[s \ {Max(s)}], signers[Max(s)])
    <3>1. CASE m + 1 \in s
      <4>1. Max(s) = m + 1
        <5>1. s \subseteq Int /\ \A k \in s : k <= m + 1
          OBVIOUS
        <5> QED BY <3>1, <5>1, MaxFacts
      <4>2. s \ {m+1} \in SUBSET (1..m) /\ s # {}
        BY <3>1
      <4>3. h[s \ {m+1}] = g[s \ {m+1}]
        BY <2>2, <4>2
      <4>4. h[s] = Kept(g[s \ {m+1}], signers[m+1])
        BY <3>1
      <4> HIDE DEF h
      <4> QED BY <4>1, <4>2, <4>3, <4>4
    <3>2. CASE m + 1 \notin s
      <4>0. s \subseteq 1..m
        BY <3>2
      <4>1. s \in SUBSET (1..m) /\ s \ {Max(s)} \in SUBSET (1..m)
        BY <4>0
      <4>2. h[s] = g[s] /\ h[s \ {Max(s)}] = g[s \ {Max(s)}]
        BY <2>2, <4>1
      <4> HIDE DEF h
      <4> QED BY <2>1, <4>1, <4>2 DEF Keeps
    <3> QED BY <3>1, <3>2
  <2>4. h = [s \in SUBSET (1..(m+1)) |-> h[s]]
    OBVIOUS
  <2> HIDE DEF h
  <2>5. Keeps(h, signers, m + 1)
    BY <2>3, <2>4 DEF Keeps
  <2> QED BY <2>5
<1> HIDE DEF P
<1>3. Nat \subseteq P
  BY <1>1, <1>2, AllNaturals
<1>4. n \in P
  BY <1>3
<1> QED BY <1>4 DEF P

\* What the SDK keeps of the signers is what it makes of all of them.
LEMMA MultisigIsKeep ==
  ASSUME NEW signers, NEW n \in Nat, DOMAIN signers = 1..n
  PROVE  \E h : Keeps(h, signers, n) /\ MultisigRemainingAccounts(signers) = h[1..n]
<1> DEFINE iter[s \in SUBSET (DOMAIN signers)] ==
              IF s = {} THEN <<>> ELSE Kept(iter[s \ {Max(s)}], signers[Max(s)])
<1>1. \E h : h = [s \in SUBSET (DOMAIN signers) |->
                     IF s = {} THEN <<>> ELSE Kept(h[s \ {Max(s)}], signers[Max(s)])]
  <2>1. PICK h : Keeps(h, signers, n)
    BY KeepExists
  <2>2. h = [s \in SUBSET (1..n) |-> IF s = {} THEN <<>> ELSE Kept(h[s \ {Max(s)}], signers[Max(s)])]
    BY <2>1 DEF Keeps
  <2> QED BY <2>2
<1>2. iter = [s \in SUBSET (DOMAIN signers) |->
                 IF s = {} THEN <<>> ELSE Kept(iter[s \ {Max(s)}], signers[Max(s)])]
  BY <1>1
<1>3. MultisigRemainingAccounts(signers) = iter[DOMAIN signers]
  BY DEF MultisigRemainingAccounts, FoldLeft, MapThenFoldSet, Kept
<1> HIDE DEF iter
<1>4. Keeps(iter, signers, n)
  BY <1>2 DEF Keeps
<1> QED BY <1>3, <1>4

\* Each signer is kept, and once.
LEMMA MultisigFacts ==
  ASSUME NEW T, NEW signers \in Seq(T)
  PROVE  /\ ToSet(MultisigRemainingAccounts(signers)) = ToSet(signers)
         /\ IsInjective(MultisigRemainingAccounts(signers))
<1> DEFINE n == Len(signers)
<1>1. n \in Nat /\ DOMAIN signers = 1..n /\ \A i \in 1..n : signers[i] \in T
  BY LenProperties
<1> HIDE DEF n
<1>2. PICK h : Keeps(h, signers, n) /\ MultisigRemainingAccounts(signers) = h[1..n]
  BY <1>1, MultisigIsKeep
<1> DEFINE Good(r, m) == /\ r \in Seq(T) /\ IsInjective(r)
                         /\ \A x : (\E i \in DOMAIN r : r[i] = x) <=> (\E i \in 1..m : signers[i] = x)
           P == {m \in Nat : m <= n => Good(h[1..m], m)}
<1>3. 0 \in P
  <2>1. h[1..0] = <<>>
    <3>1. 1..0 = {} /\ {} \in SUBSET (1..n)
      OBVIOUS
    <3> QED BY <1>2, <3>1 DEF Keeps
  <2>2. Good(<<>>, 0)
    BY EmptySeq DEF IsInjective
  <2> QED BY <2>1, <2>2
<1>4. ASSUME NEW m \in Nat, m \in P PROVE m + 1 \in P
  <2> SUFFICES ASSUME m + 1 <= n PROVE Good(h[1..(m+1)], m + 1)
    OBVIOUS
  <2>1. Good(h[1..m], m)
    <3>1. m <= n
      BY <1>1
    <3> HIDE DEF Good
    <3> QED BY <1>4, <3>1
  <2>2. h[1..(m+1)] = Kept(h[1..m], signers[m+1])
    <3>1. Max(1..(m+1)) = m + 1
      <4>1. m + 1 \in Int /\ 1..(m+1) \subseteq Int /\ m + 1 \in 1..(m+1)
            /\ \A k \in 1..(m+1) : k <= m + 1
        OBVIOUS
      <4> QED BY <4>1, MaxFacts
    <3>2. (1..(m+1)) \ {m+1} = 1..m /\ 1..(m+1) # {} /\ 1..(m+1) \in SUBSET (1..n)
      BY <1>1
    <3> QED BY <1>2, <3>1, <3>2 DEF Keeps
  <2> DEFINE s == h[1..m]
             e == signers[m+1]
  <2>3. e \in T
    BY <1>1
  <2> HIDE DEF s, e
  <2>4. Good(s, m)
    BY <2>1 DEF s
  <2>5. DOMAIN s = 1..Len(s) /\ Len(s) \in Nat
    BY <2>4, LenProperties
  <2>6. CASE Contains(s, e)
    <3>1. \E i \in DOMAIN s : s[i] = e
      BY <2>5, <2>6 DEF Contains
    <3>2. \A x : (\E i \in 1..(m+1) : signers[i] = x) <=> (\E i \in 1..m : signers[i] = x) \/ x = e
      BY DEF e
    <3>3. Good(s, m + 1)
      BY <2>4, <3>1, <3>2
    <3>4. Kept(s, e) = s
      BY <2>6 DEF Kept
    <3> QED BY <2>2, <3>3, <3>4 DEF s, e
  <2>7. CASE ~Contains(s, e)
    <3> DEFINE r == Append(s, e)
    <3>1. /\ r \in Seq(T) /\ Len(r) = Len(s) + 1 /\ \A i \in 1..Len(s) : r[i] = s[i]
          /\ r[Len(s) + 1] = e /\ DOMAIN r = 1..(Len(s) + 1)
      BY <2>3, <2>4, <2>5, AppendProperties, LenProperties
    <3>2. \A i \in 1..Len(s) : s[i] # e
      BY <2>7 DEF Contains
    <3>3. Kept(s, e) = r
      BY <2>7 DEF Kept
    <3> HIDE DEF r
    <3>4. IsInjective(r)
      BY <2>4, <2>5, <3>1, <3>2 DEF IsInjective
    <3>5. \A x : (\E i \in 1..(m+1) : signers[i] = x) <=> (\E i \in 1..m : signers[i] = x) \/ x = e
      BY DEF e
    <3>6. \A x : (\E i \in DOMAIN r : r[i] = x) <=> (\E i \in DOMAIN s : s[i] = x) \/ x = e
      BY <2>5, <3>1
    <3>7. Good(r, m + 1)
      BY <2>4, <3>1, <3>4, <3>5, <3>6
    <3> QED BY <2>2, <3>3, <3>7 DEF s, e
  <2> QED BY <2>6, <2>7
<1> HIDE DEF P
<1>5. n \in P
  BY <1>1, <1>3, <1>4, AllNaturals
<1>6. Good(h[1..n], n)
  BY <1>1, <1>5 DEF P
<1> QED BY <1>1, <1>2, <1>6 DEF ToSet

-----------------------------------------------------------------------------
(* How the parts of a task hang together.                                  *)

\* How the parts of a task hang together.
Ordered(c) ==
    /\ c.book # "none" => c.kind.bid
    /\ c.book = "Closed" => c.status \in Ended
    /\ c.kind.bid => /\ c.mode = "Auto" /\ \A a \in Agent : c.results[a] # "Submitted"
                     /\ \A a, b \in Working(c) : a = b
                     /\ Working(c) # {} => c.book = "Accepted"
    /\ c.dispute = "Active" => /\ c.status = "Disputed" /\ c.defendant \in Agent
                               /\ c.kind.bid => c.book = "Accepted"

\* An error that is not made.
LEMMA ErrFacts == \A p, name : (Err(p, name) = {} <=> ~p)
BY DEF Err

LEMMA NoErrors == \A A, B : (A \cup B = {} <=> A = {} /\ B = {})
OBVIOUS

\* The groups of operations, by name.
LEMMA GroupFacts ==
    ASSUME NEW op
    PROVE  /\ op \in CreateOp <=> op \in {"createTask", "createDependentTask"}
           /\ op \in ValidationOp <=> op \in {"configureTaskValidation", "submitTaskResult", "acceptTaskResult",
                 "rejectTaskResult", "autoAcceptTaskResult", "validateTaskResult"}
           /\ op \in BidOp <=> op \in {"initializeBidBook", "createBid", "updateBid", "cancelBid", "acceptBid", "expireBid"}
           /\ op \in DisputeOp <=> op \in {"initiateDispute", "voteDispute", "resolveDispute", "expireDispute",
              "cancelDispute", "applyDisputeSlash", "applyInitiatorSlash"}
           /\ op \in MultisigOp <=> op \in {"initializeBidMarketplace", "updateBidMarketplaceConfig",
                       "updateProtocolFee", "updateRateLimits", "migrateProtocol",
                       "updateMinVersion"}
BY DEF CreateOp, ValidationOp, BidOp, DisputeOp, MultisigOp, ProtocolOp

\* The refusals of an operation are those of its group.
LEMMA GroupErrors ==
    ASSUME NEW c, NEW ix, StatusErrors(c, ix) = {}
    PROVE  /\ ix.op \in CreateOp \cup TaskOp => TaskErrors(c, ix) = {}
           /\ ix.op \in ValidationOp => ValidationErrors(c, ix) = {}
           /\ ix.op \in BidOp => BidErrors(c, ix) = {}
           /\ ix.op \in DisputeOp => DisputeErrors(c, ix) = {}
<1>1. ASSUME ix.op \in CreateOp \cup TaskOp PROVE TaskErrors(c, ix) = {}
  <2>1. ix.op \notin MultisigOp /\ ix.op \notin ValidationOp \cup BidOp \cup DisputeOp
    BY <1>1, GroupFacts DEF TaskOp
  <2>2. StatusErrors(c, ix)
        = Err(ix.op \notin CreateOp /\ c.status = "missing", "TaskNotFound") \cup TaskErrors(c, ix)
    BY <1>1, <2>1 DEF StatusErrors
  <2> QED BY <2>2, NoErrors
<1>2. ASSUME ix.op \in ValidationOp PROVE ValidationErrors(c, ix) = {}
  <2>1. ix.op \notin MultisigOp /\ ix.op \notin BidOp \cup DisputeOp
    BY <1>2, GroupFacts DEF TaskOp
  <2>2. StatusErrors(c, ix)
        = Err(ix.op \notin CreateOp /\ c.status = "missing", "TaskNotFound") \cup ValidationErrors(c, ix)
    BY <1>2, <2>1 DEF StatusErrors
  <2> QED BY <2>2, NoErrors
<1>3. ASSUME ix.op \in BidOp PROVE BidErrors(c, ix) = {}
  <2>1. ix.op \notin MultisigOp /\ ix.op \notin ValidationOp \cup DisputeOp
    BY <1>3, GroupFacts DEF TaskOp
  <2>2. StatusErrors(c, ix)
        = Err(ix.op \notin CreateOp /\ c.status = "missing", "TaskNotFound") \cup BidErrors(c, ix)
    BY <1>3, <2>1 DEF StatusErrors
  <2> QED BY <2>2, NoErrors
<1>4. ASSUME ix.op \in DisputeOp PROVE DisputeErrors(c, ix) = {}
  <2>1. ix.op \notin MultisigOp /\ ix.op \notin ValidationOp \cup BidOp
    BY <1>4, GroupFacts DEF TaskOp
  <2>2. StatusErrors(c, ix)
        = Err(ix.op \notin CreateOp /\ c.status = "missing", "TaskNotFound") \cup DisputeErrors(c, ix)
    BY <1>4, <2>1 DEF StatusErrors
  <2> QED BY <2>2, NoErrors
<1> QED BY <1>1, <1>2, <1>3, <1>4

\* What it takes for each operation to be in order.
LEMMA StatusFacts ==
    ASSUME NEW c, NEW ix, StatusErrors(c, ix) = {}
    PROVE  /\ ix.op \in {"createTask", "createDependentTask"} =>
                 c.status = "missing"
           /\ ix.op \in {"claimTask", "claimTaskWithJobSpec"} =>
                 ~c.kind.bid /\ c.status \in {"Open", "InProgress"}
           /\ ix.op = "expireClaim" =>
                 c.claims[ix.agent] = "open" /\ c.status = "InProgress"
           /\ ix.op = "completeTask" =>
                 c.claims[ix.agent] = "open" /\ c.status = "InProgress"
           /\ ix.op = "cancelTask" =>
                 c.status \in {"Open", "InProgress"}
           /\ ix.op = "configureTaskValidation" =>
                 ~c.kind.bid
           /\ ix.op = "submitTaskResult" =>
                 c.mode # "Auto" /\ c.status = "InProgress"
           /\ ix.op \in {"acceptTaskResult", "rejectTaskResult", "autoAcceptTaskResult",
                        "validateTaskResult"} =>
                 c.status = "PendingValidation" /\ c.results[ix.agent] = "Submitted"
           /\ ix.op = "initializeBidBook" =>
                 c.kind.bid /\ c.book = "none" /\ c.status = "Open"
           /\ ix.op = "acceptBid" =>
                 c.kind.bid /\ c.book = "Open"
           /\ ix.op = "initiateDispute" =>
                 c.status \in {"InProgress", "PendingValidation"} /\ c.claims[ix.agent] = "open"
           /\ ix.op \in {"voteDispute", "resolveDispute", "expireDispute", "cancelDispute"} =>
                 c.dispute = "Active"
<1>1. ASSUME ix.op \in {"createTask", "createDependentTask"}
      PROVE  c.status = "missing"
  <2>1. TaskErrors(c, ix) = {}
    BY <1>1, GroupErrors, GroupFacts DEF TaskOp
  <2>2. TaskErrors(c, ix)
        = Err(c.status # "missing", "AccountInUse")
           \cup Err(c.kind.parent # (ix.op = "createDependentTask"), "InvalidDependencyType")
    BY <1>1 DEF TaskErrors
  <2>3. Err(c.status # "missing", "AccountInUse") = {}
    BY <2>1, <2>2, Zenon
  <2> QED BY <1>1, <2>3, ErrFacts
<1>2. ASSUME ix.op \in {"claimTask", "claimTaskWithJobSpec"}
      PROVE  ~c.kind.bid /\ c.status \in {"Open", "InProgress"}
  <2>1. TaskErrors(c, ix) = {}
    BY <1>2, GroupErrors, GroupFacts DEF TaskOp
  <2>2. ClaimErrors(c, ix.agent) = {}
    BY <1>2, <2>1, NoErrors DEF TaskErrors
  <2>3. Err(c.status \notin {"Open", "InProgress"}, "TaskNotOpen") = {}
        /\ Err(c.kind.bid, "BidTaskRequiresAcceptance") = {}
    BY <2>2, NoErrors DEF ClaimErrors
  <2> QED BY <2>3, ErrFacts
<1>3. ASSUME ix.op = "expireClaim"
      PROVE  c.claims[ix.agent] = "open" /\ c.status = "InProgress"
  <2>1. TaskErrors(c, ix) = {}
    BY <1>3, GroupErrors, GroupFacts DEF TaskOp
  <2> QED BY <1>3, <2>1, NoErrors, ErrFacts DEF TaskErrors, WorkErrors
<1>4. ASSUME ix.op = "completeTask"
      PROVE  c.claims[ix.agent] = "open" /\ c.status = "InProgress"
  <2>1. TaskErrors(c, ix) = {}
    BY <1>4, GroupErrors, GroupFacts DEF TaskOp
  <2> QED BY <1>4, <2>1, NoErrors, ErrFacts DEF TaskErrors, WorkErrors
<1>5. ASSUME ix.op = "cancelTask"
      PROVE  c.status \in {"Open", "InProgress"}
  <2>1. TaskErrors(c, ix) = {}
    BY <1>5, GroupErrors, GroupFacts DEF TaskOp
  <2> QED BY <1>5, <2>1, NoErrors, ErrFacts DEF TaskErrors
<1>6. ASSUME ix.op = "configureTaskValidation"
      PROVE  ~c.kind.bid
  <2>1. ValidationErrors(c, ix) = {}
    BY <1>6, GroupErrors, GroupFacts DEF TaskOp
  <2> QED BY <1>6, <2>1, NoErrors, ErrFacts DEF ValidationErrors
<1>7. ASSUME ix.op = "submitTaskResult"
      PROVE  c.mode # "Auto" /\ c.status = "InProgress"
  <2>1. ValidationErrors(c, ix) = {}
    BY <1>7, GroupErrors, GroupFacts DEF TaskOp
  <2> QED BY <1>7, <2>1, NoErrors, ErrFacts DEF ValidationErrors, WorkErrors
<1>8. ASSUME ix.op \in {"acceptTaskResult", "rejectTaskResult", "autoAcceptTaskResult",
                        "validateTaskResult"}
      PROVE  c.status = "PendingValidation" /\ c.results[ix.agent] = "Submitted"
  <2>1. ValidationErrors(c, ix) = {}
    BY <1>8, GroupErrors, GroupFacts DEF TaskOp
  <2> QED BY <1>8, <2>1, NoErrors, ErrFacts DEF ValidationErrors, ReviewErrors
<1>9. ASSUME ix.op = "initializeBidBook"
      PROVE  c.kind.bid /\ c.book = "none" /\ c.status = "Open"
  <2>1. BidErrors(c, ix) = {}
    BY <1>9, GroupErrors, GroupFacts DEF TaskOp
  <2> QED BY <1>9, <2>1, NoErrors, ErrFacts DEF BidErrors
<1>10. ASSUME ix.op = "acceptBid"
      PROVE  c.kind.bid /\ c.book = "Open"
  <2>1. BidErrors(c, ix) = {}
    BY <1>10, GroupErrors, GroupFacts DEF TaskOp
  <2>2. BidErrors(c, ix)
        = Err(~c.kind.bid, "TaskNotBidExclusive") \cup (Err(c.bids[ix.agent] # "Active", "BidNotActive")
           \cup Err(c.book # "Open", "BidBookNotOpen"))
    BY <1>10 DEF BidErrors
  <2>3. Err(~c.kind.bid, "TaskNotBidExclusive") = {} /\ Err(c.book # "Open", "BidBookNotOpen") = {}
    BY <2>1, <2>2, Zenon
  <2> QED BY <1>10, <2>3, ErrFacts
<1>11. ASSUME ix.op = "initiateDispute"
      PROVE  c.status \in {"InProgress", "PendingValidation"} /\ c.claims[ix.agent] = "open"
  <2>1. DisputeErrors(c, ix) = {}
    BY <1>11, GroupErrors, GroupFacts DEF TaskOp
  <2>2. DisputeErrors(c, ix)
        = Err(c.status \notin {"InProgress", "PendingValidation"}, "TaskNotInProgress")
           \cup Err(c.dispute # "none", "AccountInUse")
           \cup Err(c.claims[ix.agent] # "open", "NotTaskParticipant")
    BY <1>11 DEF DisputeErrors
  <2>3. Err(c.status \notin {"InProgress", "PendingValidation"}, "TaskNotInProgress") = {}
        /\ Err(c.claims[ix.agent] # "open", "NotTaskParticipant") = {}
    BY <2>1, <2>2, Zenon
  <2> QED BY <1>11, <2>3, ErrFacts
<1>12. ASSUME ix.op \in {"voteDispute", "resolveDispute", "expireDispute", "cancelDispute"}
      PROVE  c.dispute = "Active"
  <2>1. DisputeErrors(c, ix) = {}
    BY <1>12, GroupErrors, GroupFacts DEF TaskOp
  <2>2. DisputeErrors(c, ix)
        = Err(c.dispute # "Active", "DisputeNotActive")
           \cup Err(ix.op = "voteDispute" /\ ix.by \in c.votes, "AlreadyVoted")
           \cup Err(ix.op = "resolveDispute" /\ c.votes = {}, "InsufficientVotes")
           \cup Err(ix.op = "cancelDispute" /\ c.votes # {}, "ActiveDisputeVotes")
    BY <1>12 DEF DisputeErrors
  <2>3. Err(c.dispute # "Active", "DisputeNotActive") = {}
    BY <2>1, <2>2, Zenon
  <2> QED BY <1>12, <2>3, ErrFacts
<1> QED BY <1>1, <1>2, <1>3, <1>4, <1>5, <1>6, <1>7, <1>8, <1>9, <1>10, <1>11, <1>12

\* Only the parts that Ordered speaks of matter to it.
LEMMA SameOrder ==
    ASSUME NEW c, NEW d, Ordered(c), d.kind = c.kind, d.book = c.book, d.status = c.status,
           d.mode = c.mode, d.results = c.results, d.claims = c.claims,
           d.dispute = c.dispute, d.defendant = c.defendant
    PROVE  Ordered(d)
BY DEF Ordered, Working

\* One who works on a task that takes bids is the only one, and the bid is accepted.
LEMMA PayOrdered ==
    ASSUME NEW c \in Chains, Ordered(c), NEW a \in Agent, c.status # "Disputed",
           c.kind.bid => c.claims[a] = "open"
    PROVE  Ordered(Pay(c, a))
<1> DEFINE d == Pay(c, a)
<1>1. /\ d.kind = c.kind /\ d.status = "Completed" /\ d.mode = c.mode
      /\ d.dispute = c.dispute /\ d.book = (IF c.kind.bid THEN "Closed" ELSE c.book)
      /\ d.claims = [c.claims EXCEPT ![a] = "done"]
      /\ d.results = [c.results EXCEPT ![a] = IF @ = "Submitted" THEN "Accepted" ELSE @]
  BY DEF Pay, Chains
<1>2. c.claims \in Claims /\ c.results \in Results
  BY DEF Chains
<1> HIDE DEF d
<1>3. c.kind.bid => Working(d) = {}
  BY <1>1, <1>2 DEF Ordered, Working, Claims
<1>4. \A b \in Agent : c.results[b] # "Submitted" => d.results[b] # "Submitted"
  BY <1>1, <1>2 DEF Results
<1>5. Ordered(d)
  BY <1>1, <1>3, <1>4 DEF Ordered, Ended
<1> QED BY <1>5 DEF d

\* A task that ends leaves nobody working.
LEMMA CloseAllOrdered ==
    ASSUME NEW c \in Chains, Ordered(c), NEW status \in Ended, NEW d, d.kind = c.kind,
           d.status = status, d.mode = c.mode, d.claims = [a \in Agent |-> "none"],
           d.results = c.results, d.dispute # "Active",
           d.book = (IF c.book = "none" THEN "none" ELSE "Closed")
    PROVE  Ordered(d)
<1>1. Working(d) = {}
  BY DEF Working
<1> QED BY <1>1 DEF Ordered

\* A claim that expires makes room in the book for another bid.
LEMMA ReopenOrdered ==
    ASSUME NEW c \in Chains, Ordered(c), NEW a \in Agent, c.claims[a] = "open",
           c.status = "InProgress"
    PROVE  Ordered(Reopen(c, a))
<1> DEFINE e == [c EXCEPT !.claims[a] = "none", !.bids[a] = "none",
                          !.book = IF c.kind.bid THEN "Open" ELSE @]
           d == Reopen(c, a)
<1>1. /\ e.kind = c.kind /\ e.mode = c.mode /\ e.results = c.results /\ e.dispute = c.dispute
      /\ e.status = c.status /\ e.book = (IF c.kind.bid THEN "Open" ELSE c.book)
      /\ e.claims = [c.claims EXCEPT ![a] = "none"]
  BY DEF Chains
<1>2. e \in Chains
  BY DEF Chains, Claims, Bids
<1>3. d = [e EXCEPT !.status = IF Working(e) = {} THEN "Open" ELSE @]
  BY DEF Reopen
<1> HIDE DEF d, e
<1>4. /\ d.kind = c.kind /\ d.mode = c.mode /\ d.results = c.results /\ d.dispute = c.dispute
      /\ d.book = (IF c.kind.bid THEN "Open" ELSE c.book) /\ d.claims = [c.claims EXCEPT ![a] = "none"]
  BY <1>1, <1>2, <1>3 DEF Chains
<1>5. c.claims \in Claims
  BY DEF Chains
<1>6. c.kind.bid => Working(d) = {}
  BY <1>4, <1>5 DEF Ordered, Working, Claims
<1>7. Ordered(d)
  BY <1>4, <1>6 DEF Ordered, Ended
<1> QED BY <1>7 DEF d

\* No instruction that is in order takes the parts of a task apart.
LEMMA AfterOrdered ==
    ASSUME NEW c \in Chains, Ordered(c), NEW ix, ix.agent \in Agent, StatusErrors(c, ix) = {}
    PROVE  Ordered(After(c, ix))
<1> DEFINE a == ix.agent
           d == After(c, ix)
<1>0. c.claims \in Claims /\ c.results \in Results
  BY DEF Chains
<1>1. CASE ix.op \in {"createTask", "createDependentTask"}
  <2>1. c.status = "missing"
    BY <1>1, StatusFacts
  <2>2. d = [c EXCEPT !.status = "Open"]
    BY <1>1 DEF After
  <2>3. Ordered([c EXCEPT !.status = "Open"])
    BY <2>1 DEF Ordered, Chains, Working, Ended
  <2> QED BY <2>2, <2>3
<1>2. CASE ix.op = "setTaskJobSpec"
  <2>1. After(c, ix) = [c EXCEPT !.spec = TRUE]
    BY <1>2 DEF After
  <2>2. Ordered([c EXCEPT !.spec = TRUE])
    BY SameOrder DEF Chains
  <2> QED BY <2>1, <2>2
<1>3. CASE ix.op \in {"claimTask", "claimTaskWithJobSpec"}
  <2>1. ~c.kind.bid /\ c.status \in {"Open", "InProgress"}
    BY <1>3, StatusFacts
  <2>2. After(c, ix) = [c EXCEPT !.claims[a] = "open", !.status = "InProgress"]
    BY <1>3 DEF After
  <2>3. Ordered([c EXCEPT !.claims[a] = "open", !.status = "InProgress"])
    BY <2>1 DEF Ordered, Chains, Working, Ended
  <2> QED BY <2>2, <2>3
<1>4. CASE ix.op = "expireClaim"
  <2>1. c.claims[a] = "open" /\ c.status = "InProgress"
    BY <1>4, StatusFacts
  <2>2. After(c, ix) = Reopen(c, a)
    BY <1>4 DEF After
  <2> QED BY <2>1, <2>2, ReopenOrdered
<1>5. CASE ix.op = "completeTask"
  <2>1. c.claims[a] = "open" /\ c.status = "InProgress"
    BY <1>5, StatusFacts
  <2>2. After(c, ix) = Pay(c, a)
    BY <1>5 DEF After
  <2> QED BY <2>1, <2>2, PayOrdered
<1>6. CASE ix.op \in {"acceptTaskResult", "rejectTaskResult", "autoAcceptTaskResult",
                   "validateTaskResult"}
  <2>1. c.status = "PendingValidation" /\ c.results[a] = "Submitted"
    BY <1>6, StatusFacts
  <2>2. ~c.kind.bid
    BY <2>1 DEF Ordered
  <2>3. After(c, ix) \in {Pay(c, a), TurnDown(c, a)}
    BY <1>6 DEF After
  <2>4. Ordered(Pay(c, a))
    BY <2>1, <2>2, PayOrdered
  <2>5. Ordered(TurnDown(c, a))
    BY <2>1, <2>2 DEF TurnDown, Ordered, Chains, Ended
  <2> QED BY <2>3, <2>4, <2>5
<1>7. CASE ix.op = "configureTaskValidation"
  <2>1. ~c.kind.bid
    BY <1>7, StatusFacts
  <2>2. After(c, ix) = [c EXCEPT !.mode = ix.mode]
    BY <1>7 DEF After
  <2>3. Ordered([c EXCEPT !.mode = ix.mode])
    BY <2>1 DEF Ordered, Chains
  <2> QED BY <2>2, <2>3
<1>8. CASE ix.op = "submitTaskResult"
  <2>1. c.mode # "Auto" /\ c.status = "InProgress"
    BY <1>8, StatusFacts
  <2>2. After(c, ix) = [c EXCEPT !.results[a] = "Submitted", !.status = "PendingValidation"]
    BY <1>8 DEF After
  <2>3. Ordered([c EXCEPT !.results[a] = "Submitted", !.status = "PendingValidation"])
    BY <2>1 DEF Ordered, Chains, Ended
  <2> QED BY <2>2, <2>3
<1>9. CASE ix.op = "cancelTask"
  <2> DEFINE e == CloseAll(c, "Cancelled")
  <2>1. c.dispute # "Active" \/ e.dispute # "Active"
    BY <1>9, StatusFacts DEF CloseAll, Chains, Ordered
  <2>2. /\ e.kind = c.kind /\ e.status = "Cancelled" /\ e.mode = c.mode
        /\ e.claims = [b \in Agent |-> "none"] /\ e.results = c.results
        /\ e.book = (IF c.book = "none" THEN "none" ELSE "Closed")
        /\ e.dispute # "Active"
    BY <2>1 DEF CloseAll, Chains
  <2>3. After(c, ix) = e
    BY <1>9 DEF After
  <2> HIDE DEF e
  <2>4. Ordered(e)
    BY <2>2, CloseAllOrdered DEF Ended
  <2> QED BY <2>3, <2>4
<1>10. CASE ix.op = "resolveDispute"
  <2> DEFINE e == [CloseAll(c, "Completed") EXCEPT !.dispute = "Resolved"]
  <2>1. c.dispute # "Active" \/ e.dispute # "Active"
    BY <1>10, StatusFacts DEF CloseAll, Chains, Ordered
  <2>2. /\ e.kind = c.kind /\ e.status = "Completed" /\ e.mode = c.mode
        /\ e.claims = [b \in Agent |-> "none"] /\ e.results = c.results
        /\ e.book = (IF c.book = "none" THEN "none" ELSE "Closed")
        /\ e.dispute # "Active"
    BY <2>1 DEF CloseAll, Chains
  <2>3. After(c, ix) = e
    BY <1>10 DEF After
  <2> HIDE DEF e
  <2>4. Ordered(e)
    BY <2>2, CloseAllOrdered DEF Ended
  <2> QED BY <2>3, <2>4
<1>11. CASE ix.op = "expireDispute"
  <2> DEFINE e == [CloseAll(c, "Cancelled") EXCEPT !.dispute = "Expired"]
  <2>1. c.dispute # "Active" \/ e.dispute # "Active"
    BY <1>11, StatusFacts DEF CloseAll, Chains, Ordered
  <2>2. /\ e.kind = c.kind /\ e.status = "Cancelled" /\ e.mode = c.mode
        /\ e.claims = [b \in Agent |-> "none"] /\ e.results = c.results
        /\ e.book = (IF c.book = "none" THEN "none" ELSE "Closed")
        /\ e.dispute # "Active"
    BY <2>1 DEF CloseAll, Chains
  <2>3. After(c, ix) = e
    BY <1>11 DEF After
  <2> HIDE DEF e
  <2>4. Ordered(e)
    BY <2>2, CloseAllOrdered DEF Ended
  <2> QED BY <2>3, <2>4
<1>12. CASE ix.op = "initializeBidBook"
  <2>1. c.kind.bid /\ c.book = "none" /\ c.status = "Open"
    BY <1>12, StatusFacts
  <2>2. After(c, ix) = [c EXCEPT !.book = "Open"]
    BY <1>12 DEF After
  <2>3. Ordered([c EXCEPT !.book = "Open"])
    BY <2>1 DEF Ordered, Chains, Working
  <2> QED BY <2>2, <2>3
<1>13. CASE ix.op = "createBid"
  <2>1. After(c, ix) = [c EXCEPT !.bids[a] = "Active"]
    BY <1>13 DEF After
  <2>2. Ordered([c EXCEPT !.bids[a] = "Active"])
    BY SameOrder DEF Chains
  <2> QED BY <2>1, <2>2
<1>14. CASE ix.op \in {"cancelBid", "expireBid"}
  <2>1. After(c, ix) = [c EXCEPT !.bids[a] = "none"]
    BY <1>14 DEF After
  <2>2. Ordered([c EXCEPT !.bids[a] = "none"])
    BY SameOrder DEF Chains
  <2> QED BY <2>1, <2>2
<1>15. CASE ix.op = "acceptBid"
  <2> DEFINE e == [c EXCEPT !.bids[a] = "Accepted", !.book = "Accepted", !.claims[a] = "open",
                            !.status = "InProgress"]
  <2>1. c.kind.bid /\ c.book = "Open" /\ Working(c) = {} /\ c.dispute # "Active"
    BY <1>15, StatusFacts DEF Ordered
  <2>2. After(c, ix) = e
    BY <1>15 DEF After
  <2>3. /\ e.kind = c.kind /\ e.status = "InProgress" /\ e.mode = c.mode /\ e.dispute = c.dispute
        /\ e.claims = [c.claims EXCEPT ![a] = "open"] /\ e.results = c.results
        /\ e.book = "Accepted"
    BY DEF Chains
  <2> HIDE DEF e
  <2>4. \A b \in Working(e) : b = a
    BY <1>0, <2>1, <2>3 DEF Working, Claims
  <2>5. Ordered(e)
    BY <2>1, <2>3, <2>4 DEF Ordered
  <2> QED BY <2>2, <2>5
<1>16. CASE ix.op = "initiateDispute"
  <2> DEFINE e == [c EXCEPT !.dispute = "Active", !.defendant = a, !.status = "Disputed"]
  <2>1. c.status \in {"InProgress", "PendingValidation"} /\ a \in Working(c)
    BY <1>16, StatusFacts DEF Working
  <2>2. After(c, ix) = e
    BY <1>16 DEF After
  <2>3. /\ e.kind = c.kind /\ e.status = "Disputed" /\ e.mode = c.mode /\ e.dispute = "Active"
        /\ e.claims = c.claims /\ e.results = c.results /\ e.book = c.book /\ e.defendant = a
    BY DEF Chains
  <2> HIDE DEF e
  <2>4. Ordered(e)
    BY <2>1, <2>3 DEF Ordered, Working, Ended
  <2> QED BY <2>2, <2>4
<1>17. CASE ix.op = "voteDispute"
  <2>1. After(c, ix) = [c EXCEPT !.votes = @ \cup {ix.by}]
    BY <1>17 DEF After
  <2>2. Ordered([c EXCEPT !.votes = @ \cup {ix.by}])
    BY SameOrder DEF Chains
  <2> QED BY <2>1, <2>2
<1>18. CASE ix.op = "cancelDispute"
  <2> DEFINE s == IF \E b \in Agent : c.results[b] = "Submitted"
                  THEN "PendingValidation" ELSE "InProgress"
             e == [c EXCEPT !.dispute = "Cancelled", !.status = s]
  <2>1. c.dispute = "Active"
    BY <1>18, StatusFacts
  <2>2. After(c, ix) = e
    BY <1>18 DEF After
  <2> HIDE DEF s
  <2>3. /\ e.kind = c.kind /\ e.mode = c.mode /\ e.dispute = "Cancelled"
        /\ e.claims = c.claims /\ e.results = c.results /\ e.book = c.book
    BY DEF Chains
  <2> HIDE DEF e
  <2>4. c.book # "Closed"
    BY <2>1 DEF Ordered, Ended
  <2>5. Ordered(e)
    BY <2>3, <2>4 DEF Ordered, Working
  <2> QED BY <2>2, <2>5
<1>19. CASE ix.op \in {"applyDisputeSlash", "applyInitiatorSlash"}
  <2>1. After(c, ix) = [c EXCEPT !.slashed = TRUE]
    BY <1>19 DEF After
  <2>2. Ordered([c EXCEPT !.slashed = TRUE])
    BY SameOrder DEF Chains
  <2> QED BY <2>1, <2>2
<1>20. CASE ix.op = "initializeBidMarketplace"
  <2>1. After(c, ix) = [c EXCEPT !.market = TRUE]
    BY <1>20 DEF After
  <2>2. Ordered([c EXCEPT !.market = TRUE])
    BY SameOrder DEF Chains
  <2> QED BY <2>1, <2>2
<1>21. CASE ~(\/ ix.op \in {"createTask", "createDependentTask"}
            \/ ix.op = "setTaskJobSpec"
            \/ ix.op \in {"claimTask", "claimTaskWithJobSpec"}
            \/ ix.op = "expireClaim"
            \/ ix.op = "completeTask"
            \/ ix.op \in {"acceptTaskResult", "rejectTaskResult", "autoAcceptTaskResult",
                   "validateTaskResult"}
            \/ ix.op = "configureTaskValidation"
            \/ ix.op = "submitTaskResult"
            \/ ix.op = "cancelTask"
            \/ ix.op = "resolveDispute"
            \/ ix.op = "expireDispute"
            \/ ix.op = "initializeBidBook"
            \/ ix.op = "createBid"
            \/ ix.op \in {"cancelBid", "expireBid"}
            \/ ix.op = "acceptBid"
            \/ ix.op = "initiateDispute"
            \/ ix.op = "voteDispute"
            \/ ix.op = "cancelDispute"
            \/ ix.op \in {"applyDisputeSlash", "applyInitiatorSlash"}
            \/ ix.op = "initializeBidMarketplace")
  BY <1>21 DEF After
<1> QED BY <1>1, <1>2, <1>3, <1>4, <1>5, <1>6, <1>7, <1>8, <1>9, <1>10, <1>11, <1>12, <1>13, <1>14, <1>15, <1>16, <1>17, <1>18, <1>19, <1>20, <1>21

OrderedInv == Ordered(chain)

\* At first there is no task.
LEMMA OrderedInit == Init => OrderedInv
BY DEF Init, OrderedInv, Missing, Ordered, Working

\* No instruction takes the parts of a task apart.
LEMMA OrderedStep == CallInv /\ ChainInv /\ OrderedInv /\ [Next]_vars => OrderedInv'
<1> SUFFICES ASSUME CallInv, ChainInv, OrderedInv, [Next]_vars PROVE Ordered(chain')
  BY DEF OrderedInv
<1>0. chain \in Chains /\ Ordered(chain)
  BY DEF ChainInv, OrderedInv
<1>1. CASE Land
  <2> DEFINE ix == Instruction(call)
  <2>1. ix.agent \in Agent /\ StatusErrors(chain, ix) = {} /\ chain' = After(chain, ix)
    BY <1>1, LandActs
  <2> HIDE DEF ix
  <2> QED BY <1>0, <2>1, AfterOrdered
<1>2. CASE Others
  <2>1. PICK ix : ix.agent \in Agent /\ StatusErrors(chain, ix) = {} /\ chain' = After(chain, ix)
    BY <1>2, OthersActs
  <2> QED BY <1>0, <2>1, AfterOrdered
<1>3. CASE Start
  BY <1>0, <1>3, StartFacts
<1>4. CASE Read \/ Refuse \/ Send \/ Reject \/ RpcThrows \/ ConfirmThrows \/ ConfirmReturns
  BY <1>0, <1>4, CallSteps
<1>5. CASE UNCHANGED vars
  BY <1>0, <1>5 DEF vars
<1> QED BY <1>1, <1>2, <1>3, <1>4, <1>5 DEF Next

-----------------------------------------------------------------------------
(* What an informed caller passes, operation by operation.                 *)

\* The token accounts that are expected are accepted.
LEMMA TokensAccepted == ASSUME NEW c, NEW tokens PROVE TokenErrors(c, tokens, tokens) = {}
BY DEF TokenErrors

\* A creation passes the token accounts of the task's mint.
LEMMA CreateAccepted ==
    ASSUME NEW k, Ready(chain, k), k.op \in CreateOp PROVE AccountErrors(chain, Instruction(k)) = {}
<1> DEFINE ix == createTask(k)
<1>1. Instruction(k) = ix
  BY DEF Ready, CreateOp, ProtocolOp, Instruction, createDependentTask
<1>2. /\ ix.op = k.op
      /\ ix.tokens = CreationTokenAccounts(chain.kind.mint, Wallet(Creator), Task, Null)
  BY DEF createTask, Blank
<1> HIDE DEF ix
<1>3. AccountErrors(chain, ix) = TokenErrors(chain, ix.tokens, ix.tokens)
  BY <1>2, GroupFacts DEF AccountErrors
<1> QED BY <1>1, <1>3, TokensAccepted

\* Worker accounts, parent and bid are where the completion looks for them.
LEMMA CompletionAccepted ==
    ASSUME NEW ix, NEW a, ix.agent = a, ix.creator = Wallet(Creator), ix.treasury = Treasury,
           ix.worker = Wallet(a),
           ix.tokens = CompletionTokenAccounts(chain.kind.mint, Task, Wallet(a), Treasury),
           ix.remaining = TaskCompletionRemainingAccounts(
                             IF chain.kind.parent THEN <<Parent>> ELSE <<>>,
                             Settlement(chain, a), Wallet(a))
    PROVE  CompletionErrors(chain, ix) = {}
<1> DEFINE S == AcceptedBidSettlement(Task, a)
           tail == IF chain.kind.bid THEN Append(S, Wallet(a)) ELSE <<>>
           r == ix.remaining
           rest == IF chain.kind.parent /\ r # <<>> THEN Tail(r) ELSE r
           x == BidBookPda(Task)
           y == BidPda(Task, a)
           z == BidderMarketStatePda(a)
           w == Wallet(a)
           p == Parent
<1>0. S = <<x, y, z>>
  BY DEF AcceptedBidSettlement
<1> HIDE DEF S, x, y, z, w, p
<1>1. /\ S # <<>> /\ Append(S, w) = <<x, y, z, w>>
      /\ <<p>> \o <<x, y, z, w>> = <<p, x, y, z, w>>
  BY <1>0, ThreeFacts
<1>2. r = (IF chain.kind.parent THEN <<p>> ELSE <<>>) \o tail
  BY <1>1 DEF TaskCompletionRemainingAccounts, Settlement, S, w, p
<1>3. tail = <<>> \/ tail = <<x, y, z, w>>
  BY <1>1 DEF w
<1> HIDE DEF r, tail
<1>4. ASSUME chain.kind.parent PROVE r # <<>> /\ r[1] = p /\ Tail(r) = tail
  <2>1. r = <<p>> \o tail
    BY <1>2, <1>4
  <2>2. CASE tail = <<>>
    <3>1. r = <<p>>
      BY <2>1, <2>2
    <3> QED BY <2>2, <3>1
  <2>3. CASE tail = <<x, y, z, w>>
    <3>1. r = <<p, x, y, z, w>>
      BY <1>1, <2>1, <2>3
    <3> QED BY <2>3, <3>1
  <2> QED BY <1>3, <2>2, <2>3
<1>5. ASSUME ~chain.kind.parent PROVE r = tail
  BY <1>2, <1>3, <1>5
<1>6. rest = tail
  BY <1>4, <1>5
<1>7. chain.kind.bid => rest = Append(S, Wallet(a))
  BY <1>6 DEF tail, w
<1> HIDE DEF rest, tail
<1>8. CompletionErrors(chain, ix)
      = Err(chain.kind.parent /\ (r = <<>> \/ r[1] # Parent), "ParentTaskAccountRequired")
        \cup Err(chain.kind.bid /\ rest # Append(S, Wallet(a)), "BidSettlementAccountsRequired")
        \cup Err(FALSE, "InvalidCreator") \cup Err(FALSE, "InvalidTreasury")
        \cup Err(FALSE, "InvalidInput") \cup TokenErrors(chain, ix.tokens, ix.tokens)
  BY DEF CompletionErrors, S, rest, r
<1>9. Err(chain.kind.parent /\ (r = <<>> \/ r[1] # Parent), "ParentTaskAccountRequired") = {}
  BY <1>4 DEF Err, p
<1>10. Err(chain.kind.bid /\ rest # Append(S, Wallet(a)), "BidSettlementAccountsRequired") = {}
  BY <1>7 DEF Err
<1>11. Err(FALSE, "InvalidCreator") = {} /\ Err(FALSE, "InvalidTreasury") = {}
       /\ Err(FALSE, "InvalidInput") = {}
  BY DEF Err
<1> QED BY <1>8, <1>9, <1>10, <1>11, TokensAccepted

\* So whoever completes or accepts the work of an agent pays that agent.
LEMMA PaymentAccepted ==
    ASSUME NEW k, Ready(chain, k),
           k.op \in {"completeTask", "acceptTaskResult", "autoAcceptTaskResult", "validateTaskResult"}
    PROVE  AccountErrors(chain, Instruction(k)) = {}
<1> DEFINE ix == Instruction(k)
           a == k.agent
           parent == IF chain.kind.parent THEN <<Parent>> ELSE <<>>
<1>1. /\ k.op # "validateTaskResult" => k.o = [parent |-> parent, settlement |-> Settlement(chain, a)]
      /\ k.op = "validateTaskResult" =>
            k.o \in [parent : {parent}, settlement : {Settlement(chain, a)},
                     validator : {chain.mode = "ValidatorQuorum"}, approved : BOOLEAN]
  BY GroupFacts DEF Ready, Informed
<1>2. k.o.parent = parent /\ k.o.settlement = Settlement(chain, a)
  BY <1>1
<1>3. k.op = "completeTask" => k.by = a
  BY DEF Ready, Callers
<1>4. /\ ix.op = k.op /\ ix.agent = a /\ ix.creator = Wallet(Creator) /\ ix.treasury = Treasury
      /\ ix.worker = Wallet(a)
      /\ ix.tokens = CompletionTokenAccounts(chain.kind.mint, Task, Wallet(a), Treasury)
      /\ ix.remaining = TaskCompletionRemainingAccounts(k.o.parent, k.o.settlement, Wallet(a))
      /\ k.op = "validateTaskResult" =>
            ix.attestor = IF k.o.validator THEN Null ELSE TaskAttestorConfigPda(Task)
  <2>1. CASE k.op = "completeTask"
    <3>1. ix = Completion(k, Wallet(a))
      BY <1>3, <2>1 DEF Instruction, ProtocolOp, completeTask
    <3> QED BY <2>1, <3>1 DEF Completion, Blank
  <2>2. CASE k.op \in {"acceptTaskResult", "autoAcceptTaskResult"}
    <3>1. ix = Completion(k, Wallet(a))
      BY <2>2 DEF Instruction, ProtocolOp, acceptTaskResult, autoAcceptTaskResult
    <3> QED BY <2>2, <3>1 DEF Completion, Blank
  <2>3. CASE k.op = "validateTaskResult"
    <3>1. ix = validateTaskResult(k)
      BY <2>3 DEF Instruction, ProtocolOp
    <3> QED BY <2>3, <3>1 DEF validateTaskResult, Completion, Blank
  <2> QED BY <2>1, <2>2, <2>3
<1> HIDE DEF ix
<1>5. CompletionErrors(chain, ix) = {}
  BY <1>2, <1>4, CompletionAccepted
<1>6. CASE k.op # "validateTaskResult"
  <2>1. AccountErrors(chain, ix) = CompletionErrors(chain, ix)
    BY <1>4, <1>6, GroupFacts DEF AccountErrors
  <2> QED BY <1>5, <2>1 DEF ix
<1>7. CASE k.op = "validateTaskResult"
  <2>1. k.o.validator = (chain.mode = "ValidatorQuorum")
    BY <1>1, <1>7
  <2>2. TaskAttestorConfigPda(Task) # Null
    BY DEF TaskAttestorConfigPda, Null
  <2>3. (chain.mode = "ValidatorQuorum") <=> (ix.attestor = Null)
    BY <1>4, <1>7, <2>1, <2>2
  <2>4. AccountErrors(chain, ix)
        = CompletionErrors(chain, ix)
          \cup Err((chain.mode = "ValidatorQuorum") # (ix.attestor = Null), "InvalidInput")
    BY <1>4, <1>7, GroupFacts DEF AccountErrors
  <2>5. Err((chain.mode = "ValidatorQuorum") # (ix.attestor = Null), "InvalidInput") = {}
    BY <2>3 DEF Err
  <2> QED BY <1>5, <2>4, <2>5 DEF ix
<1> QED BY <1>6, <1>7

\* A wallet that may be left out by somebody.
LEMMA OrNull ==
    ASSUME NEW x, NEW y, NEW n, NEW b, NEW a, x \in {y} \cup (IF b = a THEN {n} ELSE {})
    PROVE  x = y \/ (b = a /\ x = n)
<1>1. CASE b = a
  BY <1>1
<1>2. CASE b # a
  BY <1>2
<1> QED BY <1>1, <1>2

\* A rejection names the wallet of the worker.
LEMMA RejectAccepted ==
    ASSUME NEW k, Ready(chain, k), k.op = "rejectTaskResult" PROVE AccountErrors(chain, Instruction(k)) = {}
<1> DEFINE ix == Instruction(k)
<1>1. ix = rejectTaskResult(k)
  BY DEF Instruction, ProtocolOp
<1>2. ix.op = "rejectTaskResult" /\ ix.agent = k.agent /\ ix.worker = Wallet(k.agent)
  BY <1>1 DEF rejectTaskResult, Blank
<1> HIDE DEF ix
<1>3. AccountErrors(chain, ix) = Err(ix.worker # Wallet(ix.agent), "InvalidInput")
  BY <1>2, GroupFacts DEF AccountErrors
<1> QED BY <1>2, <1>3, ErrFacts DEF ix

\* The rent of an expired claim goes to its worker, the bid's accounts follow.
LEMMA ExpireClaimAccepted ==
    ASSUME NEW k, Ready(chain, k), k.op = "expireClaim" PROVE AccountErrors(chain, Instruction(k)) = {}
<1> DEFINE ix == Instruction(k)
           a == k.agent
           S == AcceptedBidSettlement(Task, a)
<1>1. k.o.settlement = Settlement(chain, a) /\ (k.o.rent = Wallet(a) \/ (k.by = a /\ k.o.rent = Null))
  <2>1. k.o \in [rent : {Wallet(a)} \cup (IF k.by = a THEN {Null} ELSE {}),
                 settlement : {Settlement(chain, a)}]
    BY GroupFacts DEF Ready, Informed
  <2>2. /\ k.o.rent \in {Wallet(a)} \cup (IF k.by = a THEN {Null} ELSE {})
        /\ k.o.settlement = Settlement(chain, a)
    BY <2>1
  <2>3. CASE k.by = a
    BY <2>2, <2>3, OrNull
  <2>4. CASE k.by # a
    BY <2>2, <2>4, OrNull
  <2> QED BY <2>3, <2>4
<1>2. ix = expireClaim(k)
  BY DEF Instruction, ProtocolOp
<1>3. /\ ix.op = "expireClaim" /\ ix.agent = a
      /\ ix.rent = IF k.o.rent = Null THEN Wallet(k.by) ELSE k.o.rent
      /\ ix.remaining = ExpireClaimRemainingAccounts(k.o.settlement, Wallet(Creator))
  BY <1>2 DEF expireClaim, Blank
<1>4. S # <<>>
  BY ThreeFacts DEF AcceptedBidSettlement
<1> HIDE DEF ix, S
<1>5. ix.rent = Wallet(a)
  BY <1>1, <1>3 DEF Wallet, Null
<1>6. chain.kind.bid => ix.remaining = <<BidMarketplacePda>> \o S \o <<Wallet(Creator)>>
  BY <1>1, <1>3, <1>4 DEF Settlement, ExpireClaimRemainingAccounts, S
<1>7. AccountErrors(chain, ix)
      = Err(ix.rent # Wallet(a), "InvalidRentRecipient")
        \cup Err(chain.kind.bid /\ ix.remaining # <<BidMarketplacePda>> \o S \o <<Wallet(Creator)>>,
                 "BidSettlementAccountsRequired")
  BY <1>3, GroupFacts DEF AccountErrors, S
<1> QED BY <1>5, <1>6, <1>7, ErrFacts DEF ix

\* Whichever way the bidder is referred to, it is the agent.
LEMMA BidderAccepted ==
    ASSUME NEW k, Ready(chain, k), k.op \in BidderOp PROVE AccountErrors(chain, Instruction(k)) = {}
<1> DEFINE ix == Instruction(k)
           a == k.agent
<1>1. k.op \in {"createBid", "updateBid", "cancelBid", "acceptBid"}
  BY OpFacts
<1>2. a # Null /\ AgentPda(a) # Null
  BY MarketAssumption DEF Ready, AgentPda, Null
<1>3. ResolveBidderAgentPda(k.o.id, k.o.pda) = AgentPda(a)
  <2>1. k.o \in BidderRefs(a)
    BY <1>1, GroupFacts DEF Ready, Informed
  <2> QED BY <1>2, <2>1 DEF BidderRefs, ResolveBidderAgentPda
<1>4. ix = createBid(k)
  BY <1>1 DEF Instruction, ProtocolOp, updateBid, cancelBid, acceptBid
<1>5. ix.op = k.op /\ ix.agent = a /\ ix.bidder = AgentPda(a)
  BY <1>3, <1>4 DEF createBid, Blank
<1> HIDE DEF ix
<1>6. AccountErrors(chain, ix) = Err(ix.bidder # AgentPda(a), "InvalidInput")
  BY <1>1, <1>5, GroupFacts DEF AccountErrors
<1> QED BY <1>5, <1>6, ErrFacts DEF ix

\* What is left of an expired bid goes to its bidder.
LEMMA ExpireBidAccepted ==
    ASSUME NEW k, Ready(chain, k), k.op = "expireBid" PROVE AccountErrors(chain, Instruction(k)) = {}
<1> DEFINE ix == Instruction(k)
           a == k.agent
<1>1. k.o.authority = Wallet(a) \/ (k.by = a /\ k.o.authority = Null)
  <2>1. k.o \in {[id |-> a, pda |-> Null, authority |-> w] :
                    w \in {Wallet(a)} \cup (IF k.by = a THEN {Null} ELSE {})}
    BY GroupFacts DEF Ready, Informed
  <2>2. PICK w \in {Wallet(a)} \cup (IF k.by = a THEN {Null} ELSE {}) :
              k.o = [id |-> a, pda |-> Null, authority |-> w]
    BY <2>1
  <2>3. k.o.authority = w
    BY <2>2
  <2>4. w = Wallet(a) \/ (k.by = a /\ w = Null)
    BY <2>2, OrNull
  <2> QED BY <2>3, <2>4
<1>2. ix = expireBid(k)
  BY DEF Instruction, ProtocolOp
<1>3. ix.op = "expireBid" /\ ix.agent = a /\ ix.bidder = Wallet(a)
  <2>1. /\ ix.op = "expireBid" /\ ix.agent = a
        /\ ix.bidder = IF k.o.authority = Null THEN Wallet(k.by) ELSE k.o.authority
    BY <1>2 DEF expireBid, Blank
  <2> HIDE DEF ix
  <2> QED BY <1>1, <2>1 DEF Wallet, Null
<1> HIDE DEF ix
<1>4. AccountErrors(chain, ix) = Err(ix.bidder # Wallet(a), "InvalidInput")
  BY <1>3, GroupFacts DEF AccountErrors
<1> QED BY <1>3, <1>4, ErrFacts DEF ix

\* Only finitely many agents work on a task.
LEMMA WorkingFinite == IsFiniteSet(Working(chain)) /\ Working(chain) \subseteq Agent
BY MarketAssumption, FS_Subset DEF Working

\* The creator names the claim it complains of, a worker shows its own; whatever
\* workers they add are listed by their claims.
LEMMA InitiateDisputeAccepted ==
    ASSUME NEW k, Ready(chain, k), k.op = "initiateDispute" PROVE AccountErrors(chain, Instruction(k)) = {}
<1> DEFINE ix == Instruction(k)
           a == k.agent
           own == ClaimPda(Task, a)
           D == k.o.defendants
           pairs == Each(D, LAMBDA b : ClaimAndAgent(Task, b))
           W == Working(chain)
<1>1. /\ k.o.initiatorClaim = "default" \/ (k.by = a /\ k.o.initiatorClaim = "given")
      /\ k.o.workerGiven = (k.by # a) /\ D \subseteq W
      /\ k.o.submission = Null
         \/ (chain.results[a] # "none" /\ k.o.submission = TaskSubmissionPda(own))
  <2> DEFINE I == {"default"} \cup (IF k.by = a THEN {"given"} ELSE {})
             B == {k.by # a}
             X == {Null} \cup (IF chain.results[a] # "none" THEN {TaskSubmissionPda(own)} ELSE {})
  <2>1. k.o \in [initiatorClaim : I, workerGiven : B, defendants : SUBSET W, submission : X]
    BY GroupFacts DEF Ready, Informed, InformedInitiation
  <2>2. k.o.initiatorClaim \in I /\ k.o.workerGiven \in B /\ D \in SUBSET W /\ k.o.submission \in X
    <3> HIDE DEF I, B, X, W
    <3> QED BY <2>1
  <2>3. k.o.initiatorClaim = "default" \/ (k.by = a /\ k.o.initiatorClaim = "given")
    BY <2>2, OrNull
  <2>4. CASE chain.results[a] # "none"
    BY <2>2, <2>3, <2>4
  <2>5. CASE chain.results[a] = "none"
    BY <2>2, <2>3, <2>5
  <2> QED BY <2>4, <2>5
<1>2. k.by \in {Creator, a} /\ Creator # a /\ a # Null
  BY MarketAssumption, GroupFacts DEF Ready, Callers
<1>3. ix = initiateDispute(k)
  BY DEF Instruction, ProtocolOp
<1>4. /\ ix.op = "initiateDispute" /\ ix.agent = a /\ ix.by = k.by
      /\ ix.initiatorClaim = InitiatorClaim(k) /\ ix.submission = k.o.submission
      /\ ix.claim = OptionalClaim(IF k.o.workerGiven THEN a ELSE Null)
      /\ ix.workerAgent = OptionalAgent(IF k.o.workerGiven THEN a ELSE Null)
      /\ ix.remaining = DisputeRemainingAccounts(Task, Dispute, {}, D, <<>>)
  BY <1>3 DEF initiateDispute, Blank
<1>5. PairsOf(D, ix.remaining)
  <2>1. IsFiniteSet(D)
    BY <1>1, WorkingFinite, FS_Subset
  <2>2. PairsOf(D, pairs) /\ pairs \in Seq(AddressesOf(D))
    BY <2>1, EachPair DEF Each
  <2>3. Each({}, LAMBDA v : <<VotePda(Dispute, v), AgentPda(v)>>) = <<>>
    <3> DEFINE none == Each({}, LAMBDA v : <<VotePda(Dispute, v), AgentPda(v)>>)
    <3>1. none \in Seq(AddressesOf({})) /\ Len(none) = 2 * Cardinality({})
      BY FS_EmptySet, EachVote DEF Each, VotesOf
    <3> HIDE DEF none
    <3>2. Len(none) = 0
      BY <3>1, FS_EmptySet
    <3>3. none = <<>>
      BY <3>1, <3>2, EmptySeq
    <3> QED BY <3>3 DEF none
  <2>4. ix.remaining = <<>> \o pairs \o <<>>
    BY <1>4, <2>3 DEF DisputeRemainingAccounts, Each
  <2> HIDE DEF pairs, ix
  <2>5. ix.remaining = pairs
    BY <2>2, <2>4
  <2> QED BY <2>2, <2>5
<1> HIDE DEF ix, D, W, own
<1>6. AccountErrors(chain, ix)
      = (IF ix.by = Creator
         THEN Err(ix.initiatorClaim # Null, "AccountNotInitialized")
              \cup Err(ix.claim # own, "WorkerClaimRequired")
              \cup Err(ix.workerAgent # AgentPda(a), "WorkerAgentRequired")
         ELSE Err(ix.initiatorClaim # own, "NotTaskParticipant"))
        \cup Err(ix.submission # Null
                    /\ (ix.submission # TaskSubmissionPda(own) \/ chain.results[a] = "none"),
                 "AccountNotInitialized")
        \cup Err(\A S \in SUBSET W : ~PairsOf(S, ix.remaining), "InvalidInput")
  BY <1>4, GroupFacts DEF AccountErrors, InitiationErrors, own, W
<1>7. /\ Err(ix.submission # Null
                /\ (ix.submission # TaskSubmissionPda(own) \/ chain.results[a] = "none"),
             "AccountNotInitialized") = {}
      /\ Err(\A S \in SUBSET W : ~PairsOf(S, ix.remaining), "InvalidInput") = {}
  BY <1>1, <1>4, <1>5, ErrFacts
<1>8. CASE k.by = Creator
  <2>1. ix.initiatorClaim = Null /\ ix.claim = own /\ ix.workerAgent = AgentPda(a)
    BY <1>1, <1>2, <1>4, <1>8 DEF InitiatorClaim, OptionalClaim, OptionalAgent, own
  <2>2. /\ Err(ix.initiatorClaim # Null, "AccountNotInitialized") = {}
        /\ Err(ix.claim # own, "WorkerClaimRequired") = {}
        /\ Err(ix.workerAgent # AgentPda(a), "WorkerAgentRequired") = {}
    BY <2>1, ErrFacts
  <2> QED BY <1>4, <1>6, <1>7, <1>8, <2>2 DEF ix
<1>9. CASE k.by = a
  <2>1. ix.initiatorClaim = own
    BY <1>1, <1>2, <1>4, <1>9 DEF InitiatorClaim, own
  <2>2. Err(ix.initiatorClaim # own, "NotTaskParticipant") = {}
    BY <2>1, ErrFacts
  <2> QED BY <1>2, <1>4, <1>6, <1>7, <1>9, <2>2 DEF ix
<1> QED BY <1>2, <1>8, <1>9

\* A voter names the defendant, or nobody.
LEMMA VoteAccepted ==
    ASSUME NEW k, Ready(chain, k), k.op = "voteDispute" PROVE AccountErrors(chain, Instruction(k)) = {}
<1> DEFINE ix == Instruction(k)
           d == chain.defendant
<1>1. k.o.worker \in {Null, d}
  <2>1. k.o \in [worker : {Null, d}]
    BY GroupFacts DEF Ready, Informed
  <2> QED BY <2>1
<1>2. ix = voteDispute(k)
  BY DEF Instruction, ProtocolOp
<1>3. /\ ix.op = "voteDispute" /\ ix.claim = OptionalClaim(k.o.worker)
      /\ ix.workerAgent = OptionalAgent(k.o.worker)
  BY <1>2 DEF voteDispute, Blank
<1> HIDE DEF ix
<1>4. (ix.claim = Null /\ ix.workerAgent = Null) \/ AboutDefendant(chain, ix)
  BY <1>1, <1>3 DEF OptionalClaim, OptionalAgent, AboutDefendant
<1>5. AccountErrors(chain, ix)
      = Err((ix.claim # Null \/ ix.workerAgent # Null) /\ ~AboutDefendant(chain, ix),
            "WorkerNotInDispute")
  BY <1>3, GroupFacts DEF AccountErrors
<1> QED BY <1>4, <1>5, ErrFacts DEF ix

\* A dispute is withdrawn with its defendant.
LEMMA CancelDisputeAccepted ==
    ASSUME NEW k, Ready(chain, k), Ordered(chain), k.op = "cancelDispute"
    PROVE  AccountErrors(chain, Instruction(k)) = {}
<1> DEFINE ix == Instruction(k)
           d == chain.defendant
<1>1. k.o = [defendant |-> d]
  BY GroupFacts DEF Ready, Informed
<1>2. d \in Agent
  BY StatusFacts DEF Ready, Ordered
<1>3. d # Null
  BY <1>2, MarketAssumption
<1>4. ix = cancelDispute(k)
  BY DEF Instruction, ProtocolOp
<1>5. ix.op = "cancelDispute" /\ ix.remaining = <<AgentPda(d)>>
  BY <1>1, <1>3, <1>4 DEF cancelDispute, Blank
<1> HIDE DEF ix
<1>6. AccountErrors(chain, ix) = Err(ix.remaining # <<AgentPda(d)>>, "WorkerAgentRequired")
  BY <1>5, GroupFacts DEF AccountErrors
<1> QED BY <1>5, <1>6, ErrFacts DEF ix

\* A slash is paid into the treasury.
LEMMA SlashAccepted ==
    ASSUME NEW k, Ready(chain, k), k.op \in {"applyDisputeSlash", "applyInitiatorSlash"}
    PROVE  AccountErrors(chain, Instruction(k)) = {}
<1> DEFINE ix == Instruction(k)
           d == chain.defendant
           tokens == ApplySlashTokenAccounts(chain.kind.mint, Task, Treasury)
<1>1. CASE k.op = "applyDisputeSlash"
  <2>1. k.o.worker = d
    <3>1. k.o \in [worker : {d}]
      BY <1>1, GroupFacts DEF Ready, Informed
    <3> QED BY <3>1
  <2>2. ix = applyDisputeSlash(k)
    BY <1>1 DEF Instruction, ProtocolOp
  <2>3. /\ ix.op = "applyDisputeSlash" /\ ix.treasury = Treasury /\ ix.tokens = tokens
        /\ ix.claim = ClaimPda(Task, d) /\ ix.workerAgent = AgentPda(d)
    BY <1>1, <2>1, <2>2 DEF applyDisputeSlash, Blank
  <2> HIDE DEF ix, tokens
  <2>4. AccountErrors(chain, ix)
        = Err(ix.treasury # Treasury, "InvalidTreasury")
          \cup Err(~AboutDefendant(chain, ix), "WorkerNotInDispute")
          \cup TokenErrors(chain, ix.tokens, tokens)
    BY <2>3, GroupFacts DEF AccountErrors, tokens
  <2>5. AboutDefendant(chain, ix)
    BY <2>3 DEF AboutDefendant
  <2> QED BY <2>3, <2>4, <2>5, ErrFacts, TokensAccepted DEF ix
<1>2. CASE k.op = "applyInitiatorSlash"
  <2>1. ix = applyInitiatorSlash(k)
    BY <1>2 DEF Instruction, ProtocolOp
  <2>2. ix.op = "applyInitiatorSlash" /\ ix.treasury = Treasury
    BY <1>2, <2>1 DEF applyInitiatorSlash, Blank
  <2> HIDE DEF ix
  <2>3. AccountErrors(chain, ix) = Err(ix.treasury # Treasury, "InvalidTreasury")
    BY <2>2, GroupFacts DEF AccountErrors
  <2> QED BY <2>2, <2>3, ErrFacts DEF ix
<1> QED BY <1>1, <1>2

\* Enough signers stay enough when each is kept once.
LEMMA MultisigAccepted ==
    ASSUME NEW k, Ready(chain, k), k.op \in MultisigOp PROVE AccountErrors(chain, Instruction(k)) = {}
<1> DEFINE ix == Instruction(k)
           s == k.o.signers
           r == MultisigRemainingAccounts(s)
<1>1. k.op \in {"initializeBidMarketplace", "updateBidMarketplaceConfig"} \cup ProtocolOp
  BY DEF MultisigOp
<1>2. s \in SignerLists /\ Cardinality(ToSet(s)) >= Threshold
  <2>1. k.o \in [signers : {l \in SignerLists : Cardinality(ToSet(l)) >= Threshold}]
    BY <1>1, GroupFacts DEF Ready, Informed
  <2> QED BY <2>1
<1>3. s \in Seq(ToSet(s))
  BY <1>2, SignersAssumption
<1>4. ToSet(r) = ToSet(s) /\ IsInjective(r)
  BY <1>3, MultisigFacts
<1>5. ix = initializeBidMarketplace(k)
  BY <1>1 DEF Instruction, ProtocolOp, updateBidMarketplaceConfig,
              executeMultisigProtocolInstruction
<1>6. ix.op = k.op /\ ix.remaining = r
  BY <1>5 DEF initializeBidMarketplace, Blank
<1> HIDE DEF ix, r, s
<1>7. ~(Cardinality(ToSet(r)) < Threshold)
  <2>1. IsFiniteSet(ToSet(s))
    <3>1. DOMAIN s = 1..Len(s) /\ Len(s) \in Nat /\ ToSet(s) = {s[i] : i \in DOMAIN s}
      BY <1>3, LenProperties DEF ToSet
    <3>2. IsFiniteSet(1..Len(s))
      BY <3>1, FS_Interval
    <3> DEFINE f == [i \in 1..Len(s) |-> s[i]]
    <3>3. f \in Surjection(1..Len(s), ToSet(s))
      BY <3>1 DEF Surjection
    <3> QED BY <3>2, <3>3, FS_Surjection DEF ExistsSurjection
  <2>2. Cardinality(ToSet(s)) \in Nat
    BY <2>1, FS_CardinalityType
  <2> QED BY <1>2, <1>4, <2>2, MarketAssumption
<1>8. AccountErrors(chain, ix)
      = Err(Cardinality(ToSet(r)) < Threshold, "MultisigNotEnoughSigners")
        \cup Err(~IsInjective(r), "MultisigDuplicateSigner")
  BY <1>6, GroupFacts DEF AccountErrors
<1> QED BY <1>4, <1>7, <1>8, ErrFacts DEF ix

\* No other instruction is read by position.
LEMMA OtherAccepted ==
    ASSUME NEW k, Ready(chain, k),
           k.op \in {"setTaskJobSpec", "claimTask", "claimTaskWithJobSpec", "configureTaskValidation",
                     "submitTaskResult", "initializeBidBook"}
    PROVE  AccountErrors(chain, Instruction(k)) = {}
<1> DEFINE ix == Instruction(k)
<1>1. ix.op = k.op
  <2>2. CASE k.op = "setTaskJobSpec"
    <3>1. ix = setTaskJobSpec(k)
      BY <2>2 DEF Instruction, ProtocolOp
    <3> QED BY <2>2, <3>1 DEF setTaskJobSpec, Blank
  <2>3. CASE k.op = "configureTaskValidation"
    <3>1. ix = configureTaskValidation(k)
      BY <2>3 DEF Instruction, ProtocolOp
    <3> QED BY <3>1 DEF configureTaskValidation, Blank
  <2>4. CASE k.op \notin {"setTaskJobSpec", "configureTaskValidation"}
    <3>1. ix = Blank(k)
      BY <2>4 DEF Instruction, ProtocolOp, claimTask, claimTaskWithJobSpec, submitTaskResult,
                  initializeBidBook
    <3> QED BY <3>1 DEF Blank
  <2> QED BY <2>2, <2>3, <2>4
<1> HIDE DEF ix
<1>2. AccountErrors(chain, ix) = {}
  BY <1>1, GroupFacts DEF AccountErrors
<1> QED BY <1>2 DEF ix

\* No accounts are passed for nobody.
LEMMA NobodyFacts ==
    ASSUME NEW S, IsFiniteSet(S), NEW T, NEW r \in Seq(T), Len(r) = 2 * Cardinality(S), S # {}
    PROVE  r # <<>>
<1>1. Cardinality(S) \in Nat /\ Cardinality(S) # 0
  BY FS_EmptySet, FS_CardinalityType
<1>2. Len(r) # 0
  BY <1>1
<1> QED BY <1>2, EmptySeq

\* A cancellation names whoever works on the task, and the bid it had accepted.
LEMMA CancelAccepted ==
    ASSUME NEW k, Ready(chain, k), chain \in Chains, Ordered(chain), k.op = "cancelTask"
    PROVE  AccountErrors(chain, Instruction(k)) = {}
<1> DEFINE ix == Instruction(k)
           W == Working(chain)
           o == k.o
           b == CHOOSE a \in Accepted(chain) : TRUE
           x == BidBookPda(Task)
           y == BidPda(Task, b)
           z == BidderMarketStatePda(b)
           T == AddressesOf(W) \cup {x, y, z}
           r == ix.remaining
           pairs == Each(W, LAMBDA a : ClaimAndAgent(Task, a))
           triples == Each(W, LAMBDA a : Append(ClaimAndAgent(Task, a), Wallet(a)))
           settlement == IF chain.book = "Accepted" THEN AcceptedBidSettlement(Task, b) ELSE <<x>>
           workers == SubSeq(r, 1, Len(r) - Len(settlement))
           lists == IF chain.book = "none"
                    THEN Err(W # {} /\ r = <<>>, "WorkerAccountsRequired")
                         \cup Err(r # <<>> /\ ~PairsOf(W, r), "IncompleteWorkerAccounts")
                    ELSE IF Len(r) < Len(settlement) \/ ~IsSuffix(settlement, r)
                    THEN {"BidSettlementAccountsRequired"}
                    ELSE Err(~TriplesOf(W, workers), "IncompleteWorkerAccounts")
           tokens == CancelTokenAccounts(chain.kind.mint, Task, Wallet(Creator))
<1>1. k.by = Creator /\ o \in InformedCancel(chain)
  BY GroupFacts DEF Ready, Informed, Callers
<1>2. ix = cancelTask(k)
  BY DEF Instruction, ProtocolOp
<1>3. /\ ix.op = "cancelTask" /\ ix.tokens = tokens
      /\ r = CancelTaskRemainingAccounts(Task, o, o.bidder)
  BY <1>1, <1>2 DEF cancelTask, Blank
<1>4. IsFiniteSet(W) /\ AddressesOf(W) \subseteq T /\ x \in T /\ y \in T /\ z \in T
  BY WorkingFinite
<1>5. AccountErrors(chain, ix) = lists \cup TokenErrors(chain, tokens, tokens)
  <2>1. AccountErrors(chain, ix) = CancelErrors(chain, ix)
    BY <1>3, GroupFacts DEF AccountErrors
  <2> HIDE DEF ix
  <2> QED BY <1>3, <2>1 DEF CancelErrors
<1> HIDE DEF ix, W, b, x, y, z, T
<1>6. CASE chain.book = "none"
  <2>1. o = Cancelling(W, {}, FALSE, "none", Null)
    BY <1>1, <1>6 DEF InformedCancel, W
  <2>2. o.pairs = W /\ o.triples = {} /\ o.settlement = "none"
    BY <2>1 DEF Cancelling
  <2>3. r = pairs
    BY <1>3, <2>2 DEF CancelTaskRemainingAccounts, CancelHasSettlement,
                      LegacyCancelTaskRemainingAccounts, Each
  <2>4. PairsOf(W, r) /\ r \in Seq(T) /\ Len(r) = 2 * Cardinality(W)
    BY <1>4, <2>3, EachPair DEF Each
  <2> HIDE DEF r
  <2>5. W # {} => r # <<>>
    BY <1>4, <2>4, NobodyFacts
  <2>6. lists = {}
    BY <1>6, <2>4, <2>5, ErrFacts
  <2> QED BY <1>5, <2>6, TokensAccepted DEF ix
<1>7. CASE chain.book = "Accepted"
  <2>1. PICK p \in {{}, W} : o = Cancelling(p, W, TRUE, "accepted", b)
    BY <1>1, <1>7 DEF InformedCancel, W, b
  <2>2. o.triples = W /\ o.settlement = "accepted" /\ o.bidder = b
    BY <2>1 DEF Cancelling
  <2>3. r = triples \o <<x>> \o <<y, z>>
    BY <1>3, <2>2 DEF CancelTaskRemainingAccounts, CancelHasSettlement, CancelHasSuffix,
                      x, y, z, Each
  <2>4. TriplesOf(W, triples) /\ triples \in Seq(T)
    BY <1>4, EachTriple DEF Each
  <2> HIDE DEF r, triples
  <2>5. r = triples \o <<x, y, z>>
    <3> DEFINE s == triples
    <3>1. s \in Seq(T) /\ x \in T /\ y \in T /\ z \in T
      BY <1>4, <2>4
    <3> HIDE DEF s
    <3>2. s \o <<x>> \o <<y, z>> = s \o <<x, y, z>>
      BY <3>1, BookFirst, SMTT(60)
    <3> QED BY <2>3, <3>2 DEF s
  <2>6. settlement = <<x, y, z>> /\ <<x, y, z>> \in Seq(T)
    BY <1>4, <1>7 DEF AcceptedBidSettlement, x, y, z
  <2> HIDE DEF settlement
  <2>7. IsSuffix(settlement, r) /\ Len(r) = Len(triples) + Len(settlement) /\ workers = triples
        /\ Len(triples) \in Nat /\ Len(settlement) \in Nat
    BY <2>4, <2>5, <2>6, SuffixFacts, LenProperties
  <2> HIDE DEF workers
  <2>8. lists = {}
    <3>1. ~(Len(r) < Len(settlement))
      BY <2>7
    <3>2. Err(~TriplesOf(W, workers), "IncompleteWorkerAccounts") = {}
      BY <2>4, <2>7, ErrFacts
    <3> QED BY <1>7, <2>7, <3>1, <3>2
  <2> QED BY <1>5, <2>8, TokensAccepted DEF ix
<1>8. CASE chain.book \notin {"none", "Accepted"}
  <2>1. o = Cancelling({}, {}, FALSE, "book", Null)
    BY <1>1, <1>8 DEF InformedCancel
  <2>2. o.triples = {} /\ o.settlement = "book"
    BY <2>1 DEF Cancelling
  <2>3. W = {}
    BY <1>8 DEF Ordered, W
  <2>4. r = triples \o <<x>> \o <<>>
    BY <1>3, <2>2, <2>3 DEF CancelTaskRemainingAccounts, CancelHasSettlement, CancelHasSuffix,
                            x, Each
  <2>5. TriplesOf(W, triples) /\ triples \in Seq(T)
    BY <1>4, EachTriple DEF Each
  <2>6. settlement = <<x>> /\ <<x>> \in Seq(T)
    BY <1>4, <1>8
  <2> HIDE DEF r, triples, settlement
  <2>7. r = triples \o settlement
    BY <2>4, <2>5, <2>6, ConcatProperties, ConcatEmptySeq
  <2>8. IsSuffix(settlement, r) /\ Len(r) = Len(triples) + Len(settlement) /\ workers = triples
        /\ Len(triples) \in Nat /\ Len(settlement) \in Nat
    BY <2>5, <2>6, <2>7, SuffixFacts, LenProperties
  <2> HIDE DEF workers
  <2>9. lists = {}
    <3>1. ~(Len(r) < Len(settlement))
      BY <2>8
    <3>2. Err(~TriplesOf(W, workers), "IncompleteWorkerAccounts") = {}
      BY <2>5, <2>8, ErrFacts
    <3> QED BY <1>8, <2>8, <3>1, <3>2
  <2> QED BY <1>5, <2>9, TokensAccepted DEF ix
<1> QED BY <1>6, <1>7, <1>8

\* A dispute is settled with its votes, the workers and the bid it is about.
LEMMA SettlementAccepted ==
    ASSUME NEW k, Ready(chain, k), chain \in Chains, Ordered(chain),
           k.op \in {"resolveDispute", "expireDispute"}
    PROVE  AccountErrors(chain, Instruction(k)) = {}
<1> DEFINE ix == Instruction(k)
           V == chain.votes
           d == chain.defendant
           W == Working(chain)
           S == AcceptedBidSettlement(Task, d)
           b == Settlement(chain, d)
           T == AddressesOf(V) \cup AddressesOf(W)
                \cup {BidBookPda(Task), BidPda(Task, d), BidderMarketStatePda(d)}
           n == 2 * Cardinality(V)
           votes == Each(V, LAMBDA v : <<VotePda(Dispute, v), AgentPda(v)>>)
           pairs == Each(W, LAMBDA a : ClaimAndAgent(Task, a))
           r == ix.remaining
           treasury == IF k.op = "resolveDispute" THEN Treasury ELSE Null
           tokens == ResolveTokenAccounts(chain.kind.mint, Task, Wallet(Creator), Wallet(d), treasury)
           missing == \E v \in V : \A i \in 1..Cardinality(V) :
                         SubSeq(r, 2 * i - 1, 2 * i) # <<VotePda(Dispute, v), AgentPda(v)>>
           others == SubSeq(r, n + 1, Len(r) - Len(b))
<1>1. d \in Agent
  BY StatusFacts DEF Ready, Ordered
<1>2. k.o = [arbiters |-> V, workers |-> W, worker |-> d, settlement |-> b]
  BY <1>1, GroupFacts DEF Ready, Informed, InformedDispute
<1>3. ix = SettleDispute(k, treasury)
  <2>1. CASE k.op = "resolveDispute"
    BY <2>1 DEF Instruction, ProtocolOp, resolveDispute
  <2>2. CASE k.op = "expireDispute"
    BY <2>2 DEF Instruction, ProtocolOp, expireDispute
  <2> QED BY <2>1, <2>2
<1>4. /\ ix.op = k.op /\ ix.claim = ClaimPda(Task, d) /\ ix.workerAgent = AgentPda(d)
      /\ ix.worker = Wallet(d) /\ ix.tokens = tokens
      /\ r = DisputeRemainingAccounts(Task, Dispute, V, W, b)
  <2>1. d # Null
    BY <1>1, MarketAssumption
  <2> QED BY <1>2, <1>3, <2>1 DEF SettleDispute, Blank, OptionalClaim, OptionalAgent, OptionalWallet
<1>5. IsFiniteSet(V) /\ IsFiniteSet(W) /\ AddressesOf(V) \subseteq T /\ AddressesOf(W) \subseteq T
  <2>1. V \subseteq Arbiter
    BY DEF Chains
  <2>2. IsFiniteSet(V)
    BY <2>1, MarketAssumption, FS_Subset
  <2> QED BY <2>2, WorkingFinite
<1>6. b \in Seq(T) /\ b = IF chain.kind.bid THEN S ELSE <<>>
  <2>1. /\ BidBookPda(Task) \in T /\ BidPda(Task, d) \in T /\ BidderMarketStatePda(d) \in T
    OBVIOUS
  <2>2. S \in Seq(T)
    <3> HIDE DEF T
    <3> QED BY <2>1 DEF AcceptedBidSettlement
  <2> HIDE DEF T, S
  <2> QED BY <2>2, EmptySeq DEF Settlement, S
<1>7. r = votes \o pairs \o b
  BY <1>4 DEF DisputeRemainingAccounts, Each
<1>8. /\ votes \in Seq(T) /\ Len(votes) = n /\ Cardinality(V) \in Nat
      /\ \A v \in V : \E i \in 1..Cardinality(V) :
            SubSeq(votes, 2 * i - 1, 2 * i) = <<VotePda(Dispute, v), AgentPda(v)>>
  <2>1. VotesOf(V, votes) /\ votes \in Seq(T) /\ Cardinality(V) \in Nat
    BY <1>5, EachVote DEF Each
  <2> HIDE DEF T, V, votes
  <2> QED BY <2>1 DEF VotesOf
<1>9. PairsOf(W, pairs) /\ pairs \in Seq(T)
  BY <1>5, EachPair DEF Each
<1>10. AccountErrors(chain, ix)
       = Err(Len(r) < n \/ missing, "InvalidInput")
         \cup Err(Len(r) >= n /\ ~IsSuffix(b, r), "BidSettlementAccountsRequired")
         \cup Err(~PairsOf(W, others), "IncompleteWorkerAccounts")
         \cup Err(~AboutDefendant(chain, ix) \/ ix.worker # Wallet(d), "WorkerNotInDispute")
         \cup TokenErrors(chain, ix.tokens, tokens)
  <2>1. AccountErrors(chain, ix) = SettlementErrors(chain, ix, treasury)
    <3>1. CASE k.op = "resolveDispute"
      BY <1>4, <3>1, GroupFacts DEF AccountErrors
    <3>2. CASE k.op = "expireDispute"
      BY <1>4, <3>2, GroupFacts DEF AccountErrors
    <3> QED BY <3>1, <3>2
  <2> HIDE DEF ix
  <2> QED BY <1>6, <2>1 DEF SettlementErrors
<1> HIDE DEF ix, V, W, S, b, T, votes, pairs, r, tokens
<1>11. /\ Len(r) >= n /\ IsSuffix(b, r) /\ others = pairs
       /\ \A i, j \in 1..n : SubSeq(r, i, j) = SubSeq(votes, i, j)
  <2> HIDE DEF n
  <2>1. n = Len(votes) /\ votes \in Seq(T) /\ pairs \in Seq(T) /\ b \in Seq(T)
    BY <1>6, <1>8, <1>9
  <2>2. Len(r) >= n /\ IsSuffix(b, r)
    BY <1>7, <2>1, MiddleFacts
  <2>3. SubSeq(r, n + 1, Len(r) - Len(b)) = pairs
    BY <1>7, <2>1, MiddleFacts
  <2>4. \A i, j \in 1..n : SubSeq(r, i, j) = SubSeq(votes, i, j)
    BY <1>7, <2>1, MiddleFacts
  <2> QED BY <2>2, <2>3, <2>4
<1> HIDE DEF others
<1>12. ~missing
  <2> SUFFICES ASSUME NEW v \in V
               PROVE  \E i \in 1..Cardinality(V) :
                         SubSeq(r, 2 * i - 1, 2 * i) = <<VotePda(Dispute, v), AgentPda(v)>>
    OBVIOUS
  <2>1. PICK i \in 1..Cardinality(V) :
             SubSeq(votes, 2 * i - 1, 2 * i) = <<VotePda(Dispute, v), AgentPda(v)>>
    BY <1>8
  <2>2. 2 * i - 1 \in 1..n /\ 2 * i \in 1..n
    BY <1>8
  <2>3. SubSeq(r, 2 * i - 1, 2 * i) = SubSeq(votes, 2 * i - 1, 2 * i)
    BY <1>11, <2>2
  <2> QED BY <2>1, <2>3
<1>13. Len(r) \in Nat /\ n \in Nat
  BY <1>6, <1>7, <1>8, <1>9, ConcatProperties, LenProperties
<1> HIDE DEF missing, n
<1>14. ~(Len(r) < n)
  BY <1>11, <1>13
<1>15. /\ Err(Len(r) < n \/ missing, "InvalidInput") = {}
       /\ Err(Len(r) >= n /\ ~IsSuffix(b, r), "BidSettlementAccountsRequired") = {}
       /\ Err(~PairsOf(W, others), "IncompleteWorkerAccounts") = {}
       /\ Err(~AboutDefendant(chain, ix) \/ ix.worker # Wallet(d), "WorkerNotInDispute") = {}
  <2>1. AboutDefendant(chain, ix)
    BY <1>4 DEF AboutDefendant
  <2> QED BY <1>4, <1>9, <1>11, <1>12, <1>14, <2>1, ErrFacts
<1>16. TokenErrors(chain, ix.tokens, tokens) = {}
  BY <1>4, TokensAccepted
<1> QED BY <1>10, <1>15, <1>16 DEF ix

\* Whoever passes what fits the task is not refused for it.
LEMMA ReadyAccepted ==
    ASSUME NEW k, Ready(chain, k), chain \in Chains, Ordered(chain)
    PROVE  AccountErrors(chain, Instruction(k)) = {}
<1>1. k.op \in Op
  BY DEF Ready
<1>2. \/ k.op \in CreateOp
      \/ k.op \in {"completeTask", "acceptTaskResult", "autoAcceptTaskResult", "validateTaskResult"}
      \/ k.op = "rejectTaskResult" \/ k.op = "expireClaim" \/ k.op \in BidderOp
      \/ k.op = "expireBid" \/ k.op = "initiateDispute" \/ k.op = "cancelDispute"
      \/ k.op = "voteDispute"
      \/ k.op \in {"applyDisputeSlash", "applyInitiatorSlash"} \/ k.op \in MultisigOp
      \/ k.op \in {"setTaskJobSpec", "claimTask", "claimTaskWithJobSpec", "configureTaskValidation",
                   "submitTaskResult", "initializeBidBook"}
      \/ k.op = "cancelTask" \/ k.op \in {"resolveDispute", "expireDispute"}
  BY <1>1 DEF Op, TaskOp, ValidationOp, BidderOp, BidOp, DisputeOp
<1> QED BY <1>2, CreateAccepted, PaymentAccepted, RejectAccepted, ExpireClaimAccepted,
           BidderAccepted, ExpireBidAccepted, InitiateDisputeAccepted, VoteAccepted,
           CancelDisputeAccepted,
           SlashAccepted, MultisigAccepted, OtherAccepted, CancelAccepted, SettlementAccepted

-----------------------------------------------------------------------------
(* The informed caller through the steps.                                  *)

\* Nothing has been executed yet and nobody else has touched the task.
Fresh(k) == /\ k.informed = TRUE /\ k.moved # TRUE
            /\ k.phase \in {"reading", "sent"} /\ k.landed = 0

FreshInv == call # NoCall /\ Fresh(call) => Ready(chain, call)

\* At first there is no call to be answered.
LEMMA FreshInit == Init => FreshInv
BY DEF Init, FreshInv

\* The options fit the task at the start, and until somebody changes it.
LEMMA FreshStep == CallInv /\ FreshInv /\ [Next]_vars => FreshInv'
<1> SUFFICES ASSUME CallInv, FreshInv, [Next]_vars, call' # NoCall, Fresh(call')
             PROVE  Ready(chain', call')
  BY DEF FreshInv
<1>1. CASE Start
  BY <1>1, StartFacts DEF Fresh
<1>2. CASE Others
  <2>1. call # NoCall
    BY <1>2, OthersFacts
  <2>2. call'.moved = TRUE
    BY <1>2, <2>1, OthersFacts
  <2> QED BY <2>2 DEF Fresh
<1>3. CASE Read \/ Send
  <2>1. \/ Moves({"reading"}, "reading", 0) /\ chain' = chain
        \/ Moves({"reading"}, "sent", 0) /\ chain' = chain
    BY <1>3, CallSteps
  <2>2. /\ call # NoCall /\ call.phase = "reading" /\ chain' = chain
        /\ call'.op = call.op /\ call'.o = call.o /\ call'.informed = call.informed
        /\ call'.agent = call.agent /\ call'.by = call.by /\ call'.moved = call.moved
        /\ call'.landed = call.landed + 0
    BY <2>1 DEF Moves
  <2>3. call.landed = 0 /\ call'.landed = 0
    BY <2>2, NeedFacts DEF CallInv, Progress, Fresh
  <2>4. Ready(chain, call)
    BY <2>2, <2>3 DEF FreshInv, Fresh
  <2> QED BY <2>2, <2>3, <2>4 DEF Ready
<1>4. CASE Refuse \/ Land \/ Reject \/ RpcThrows \/ ConfirmThrows
  <2>1. call'.phase \in {"refused", "landed", "threw", "late"}
    BY <1>4, CallSteps DEF Moves
  <2> QED BY <2>1 DEF Fresh
<1>5. CASE ConfirmReturns
  <2>1. call # NoCall /\ call.phase = "landed" /\ call'.landed = call.landed + 0
    BY <1>5, CallSteps DEF Moves
  <2>2. call.landed \in Nat /\ call.landed >= 1
    BY <2>1, NeedFacts DEF CallInv, Progress
  <2> QED BY <2>1, <2>2 DEF Fresh
<1>6. CASE UNCHANGED vars
  BY <1>6 DEF vars, FreshInv, Fresh, Ready
<1> QED BY <1>1, <1>2, <1>3, <1>4, <1>5, <1>6 DEF Next

(***************************************************************************)
(* Whatever the task is and whoever calls, the accounts that an operation  *)
(* lists for a caller who passes what fits the task it sees (for a dispute *)
(* the lists of the devnet dispute script) are the ones the program reads  *)
(* by position, unless somebody else changed the task since the caller     *)
(* looked at it.                                                           *)
(***************************************************************************)
THEOREM InformedAccountsAreAccepted == Spec => []InformedAccountsAccepted
<1>1. CallInv /\ ChainInv /\ OrderedInv /\ FreshInv => InformedAccountsAccepted
  <2> SUFFICES ASSUME CallInv, ChainInv, OrderedInv, FreshInv, call.phase = "sent",
                      call.informed = TRUE, call.moved # TRUE, call.landed = 0
               PROVE  AccountErrors(chain, Instruction(call)) = {}
    BY DEF InformedAccountsAccepted, At, CallInv, SoundCall
  <2>1. call # NoCall
    BY DEF NoCall
  <2>2. Ready(chain, call)
    BY <2>1 DEF FreshInv, Fresh
  <2> QED BY <2>2, ReadyAccepted DEF ChainInv, OrderedInv
<1> QED BY <1>1, CallInit, CallInvStep, ChainInit, ChainStep, OrderedInit, OrderedStep,
           FreshInit, FreshStep, PTL DEF Spec
=============================================================================
