------------------------------ MODULE TaskMarket ------------------------------
(***************************************************************************)
(* One call of the SDK on a task that everybody else keeps working on: the *)
(* operations of src/tasks.ts, src/disputes.ts and src/bid-marketplace.ts  *)
(* that send transactions.                                                 *)
(*                                                                         *)
(* Every one of them has the same skeleton, with an await at each arrow:   *)
(*                                                                         *)
(*   idle -> reading -> sent -> landed -> returned                         *)
(*              \-> refused  \-> threw, late                               *)
(*                                                                         *)
(* It fetches the accounts it needs to know, builds one instruction, sends *)
(* it with builder.rpc() and waits for connection.confirmTransaction();    *)
(* createTask with a job spec goes through "sent" and "landed" twice.  An  *)
(* error before anything is sent ends in "refused", a later one in "threw" *)
(* or, when the transaction is still on its way, in "late".                *)
(*                                                                         *)
(* The facts the calls fetch (the task's creator and mint, the protocol's  *)
(* treasury, an agent's authority) never change once the account exists,   *)
(* so the instruction is a function of the call.                           *)
(***************************************************************************)
EXTENDS MarketProgram

CONSTANTS Kind,          \* kinds of task: bid, mint and parent of each
          SignerLists    \* multisig signers a caller may pass, in order

\* The signers are passed as an array.
ASSUME SignersAssumption == \A s \in SignerLists : s \in Seq(ToSet(s))

VARIABLES chain,     \* the task and what hangs on it
          call       \* the call that is observed

vars == <<chain, call>>

NoCall == [phase |-> "idle"]
Settled == {"returned", "refused", "threw"}
Phase == {"reading", "sent", "landed", "late"} \cup Settled

AboutAgent == {"claimTask", "claimTaskWithJobSpec", "expireClaim", "completeTask", "initiateDispute"}
              \cup (ValidationOp \ {"configureTaskValidation"})
              \cup (BidOp \ {"initializeBidBook"})

\* Whoever has a reason to call op about agent a.
Callers(op, a) ==
    CASE op = "voteDispute" -> Arbiter
      [] op \in {"expireClaim", "expireBid", "initiateDispute", "autoAcceptTaskResult"} ->
            {Creator, a}
      [] op \in {"claimTask", "claimTaskWithJobSpec", "completeTask", "submitTaskResult",
                 "createBid", "updateBid", "cancelBid"} -> {a}
      [] OTHER -> {Creator}

Agents(op) == IF op \in AboutAgent THEN Agent ELSE {CHOOSE a \in Agent : TRUE}

\* A hash or an id that toFixedBytes finds to have the wrong length.
Malformed == [malformed |-> TRUE]

-----------------------------------------------------------------------------
(* Arguments.  o are the options of a call, c what its caller knows of the *)
(* chain: Informed(c, op, by, a) are the options that fit it, in the form  *)
(* in which the SDK's types and the devnet scripts give them;              *)
(* Careless(op, a) are some others.                                        *)

Settlement(c, a) == IF c.kind.bid THEN AcceptedBidSettlement(Task, a) ELSE <<>>

BidderRefs(a) == {[id |-> a, pda |-> Null], [id |-> Null, pda |-> AgentPda(a)],
                  [id |-> a, pda |-> AgentPda(a)]}

Cancelling(pairs, triples, given, settlement, bidder) ==
    [pairs |-> pairs, triples |-> triples, triplesGiven |-> given, settlement |-> settlement,
     bidder |-> bidder]

InformedCancel(c) ==
    CASE c.book = "none" -> {Cancelling(Working(c), {}, FALSE, "none", Null)}
      [] c.book = "Accepted" ->
            {Cancelling(pairs, Working(c), TRUE, "accepted", CHOOSE a \in Accepted(c) : TRUE) :
                pairs \in {{}, Working(c)}}
      [] OTHER -> {Cancelling({}, {}, FALSE, "book", Null)}

\* Whether to show the submission and which workers to name is up to the caller.
InformedInitiation(c, by, a) ==
    [initiatorClaim : {"default"} \cup (IF by = a THEN {"given"} ELSE {}),
     workerGiven : {by # a}, defendants : SUBSET Working(c),
     submission : {Null} \cup (IF c.results[a] # "none"
                               THEN {TaskSubmissionPda(ClaimPda(Task, a))} ELSE {})]

\* As scripts/devnet-disputes.mjs passes them: the defendant among the workers.
InformedDispute(c) ==
    {[arbiters |-> c.votes, workers |-> Working(c), worker |-> c.defendant,
      settlement |-> IF c.defendant \in Agent THEN Settlement(c, c.defendant) ELSE <<>>]}

Informed(c, op, by, a) ==
    CASE op = "createTask" -> [spec : {"none", "full"}]
      [] op = "setTaskJobSpec" -> {[spec |-> "full"]}
      [] op = "expireClaim" ->
            [rent : {Wallet(a)} \cup (IF by = a THEN {Null} ELSE {}), settlement : {Settlement(c, a)}]
      [] op \in {"completeTask", "acceptTaskResult", "autoAcceptTaskResult"} ->
            {[parent |-> IF c.kind.parent THEN <<Parent>> ELSE <<>>, settlement |-> Settlement(c, a)]}
      [] op = "validateTaskResult" ->
            [parent : {IF c.kind.parent THEN <<Parent>> ELSE <<>>}, settlement : {Settlement(c, a)},
             validator : {c.mode = "ValidatorQuorum"}, approved : BOOLEAN]
      [] op = "configureTaskValidation" ->
            [mode : {"CreatorReview", "ValidatorQuorum", "ExternalAttestation"}]
      [] op = "cancelTask" -> InformedCancel(c)
      [] op \in BidOp \ {"initializeBidBook", "expireBid"} -> BidderRefs(a)
      [] op = "expireBid" ->
            {[id |-> a, pda |-> Null, authority |-> w] :
                w \in {Wallet(a)} \cup (IF by = a THEN {Null} ELSE {})}
      [] op = "initiateDispute" -> InformedInitiation(c, by, a)
      [] op = "voteDispute" -> [worker : {Null, c.defendant}]
      [] op = "applyDisputeSlash" -> [worker : {c.defendant}]
      [] op \in {"resolveDispute", "expireDispute"} -> InformedDispute(c)
      [] op = "cancelDispute" -> {[defendant |-> c.defendant]}
      [] op \in MultisigOp -> [signers : {s \in SignerLists : Cardinality(ToSet(s)) >= Threshold}]
      [] OTHER -> {[none |-> TRUE]}

Careless(op, a) ==
    CASE op = "createTask" -> [spec : {"half", "blank"}]
      [] op = "setTaskJobSpec" -> {[spec |-> "blank"]}
      [] op = "expireClaim" -> [rent : {Null}, settlement : {<<>>}]
      [] op \in {"completeTask", "acceptTaskResult", "autoAcceptTaskResult"} ->
            {[parent |-> <<>>, settlement |-> <<>>]}
      [] op = "cancelTask" ->
            {Cancelling(pairs, {}, FALSE, settlement, a) :
                pairs \in {{}, {a}}, settlement \in {"none", "book", "bidOnly", "accepted"}}
            \cup {Cancelling({}, {a}, TRUE, settlement, a) : settlement \in {"none", "book"}}
      [] op \in {"submitTaskResult", "rejectTaskResult"} -> {Malformed}
      [] op \in BidOp \ {"initializeBidBook", "expireBid"} ->
            {[id |-> Null, pda |-> Null], [id |-> a, pda |-> AgentPda(Creator)]}
      [] op = "expireBid" -> {[id |-> a, pda |-> Null, authority |-> Null]}
      [] op = "initiateDispute" ->
            {[initiatorClaim |-> claim, workerGiven |-> FALSE, defendants |-> {a},
              submission |-> TaskSubmissionPda(ClaimPda(Task, a))] : claim \in {"default", "null"}}
            \cup {Malformed}
      [] op \in {"voteDispute", "applyDisputeSlash"} -> {[worker |-> a]}
      [] op \in {"resolveDispute", "expireDispute"} ->
            {[arbiters |-> {}, workers |-> {}, worker |-> w, settlement |-> <<>>] : w \in {a, Null}}
      [] op = "cancelDispute" -> {[defendant |-> Null]}
      [] op \in MultisigOp -> [signers : SignerLists]
      [] OTHER -> {}

-----------------------------------------------------------------------------
(* The instructions.  Blank has the fields of all of them; each operator   *)
(* is named after the function of the SDK that builds it.                  *)

Blank(k) == [op |-> k.op, agent |-> k.agent, by |-> k.by, remaining |-> <<>>,
             creator |-> Null, treasury |-> Null, worker |-> Null, tokens |-> Null,
             rent |-> Null, bidder |-> Null, initiatorClaim |-> Null, claim |-> Null,
             workerAgent |-> Null, submission |-> Null,
             attestor |-> Null, mode |-> "Auto", approved |-> FALSE]

createTask(k) ==
    [Blank(k) EXCEPT !.tokens = CreationTokenAccounts(chain.kind.mint, Wallet(Creator), Task, Null)]

\* The second transaction of createTask, or a call of its own.
setTaskJobSpec(k) == [Blank(k) EXCEPT !.op = "setTaskJobSpec"]

createDependentTask(k) == createTask(k)

claimTask(k) == Blank(k)

claimTaskWithJobSpec(k) == Blank(k)

expireClaim(k) ==
    [Blank(k) EXCEPT !.rent = IF k.o.rent = Null THEN Wallet(k.by) ELSE k.o.rent,
                     !.remaining = ExpireClaimRemainingAccounts(k.o.settlement, Wallet(Creator))]

\* Shared by the four operations that pay a worker.
Completion(k, authority) ==
    [Blank(k) EXCEPT
        !.creator = Wallet(Creator), !.treasury = Treasury, !.worker = authority,
        !.tokens = CompletionTokenAccounts(chain.kind.mint, Task, authority, Treasury),
        !.remaining = TaskCompletionRemainingAccounts(k.o.parent, k.o.settlement, authority)]

completeTask(k) == Completion(k, Wallet(k.by))

acceptTaskResult(k) == Completion(k, Wallet(k.agent))

\* Mutant: the caller is paid in place of the worker.
autoAcceptTaskResultToCaller(k) == Completion(k, Wallet(k.by))

autoAcceptTaskResult(k) == Completion(k, Wallet(k.agent))

validateTaskResult(k) ==
    [Completion(k, Wallet(k.agent)) EXCEPT
        !.approved = k.o.approved,
        !.attestor = IF k.o.validator THEN Null ELSE TaskAttestorConfigPda(Task)]

configureTaskValidation(k) == [Blank(k) EXCEPT !.mode = k.o.mode]

submitTaskResult(k) == Blank(k)

rejectTaskResult(k) == [Blank(k) EXCEPT !.worker = Wallet(k.agent)]

cancelTask(k) ==
    [Blank(k) EXCEPT !.tokens = CancelTokenAccounts(chain.kind.mint, Task, Wallet(k.by)),
                     !.remaining = CancelTaskRemainingAccounts(Task, k.o, k.o.bidder)]

initializeBidBook(k) == Blank(k)

createBid(k) == [Blank(k) EXCEPT !.bidder = ResolveBidderAgentPda(k.o.id, k.o.pda)]

updateBid(k) == createBid(k)

cancelBid(k) == createBid(k)

acceptBid(k) == createBid(k)

expireBid(k) ==
    [Blank(k) EXCEPT !.bidder = IF k.o.authority = Null THEN Wallet(k.by) ELSE k.o.authority]

\* By default the creator passes no claim, anybody else the one of its agent.
InitiatorClaim(k) ==
    CASE k.o.initiatorClaim = "null" -> Null
      [] k.o.initiatorClaim = "given" -> ClaimPda(Task, k.agent)
      [] k.o.initiatorClaim = "default" -> IF k.by = Creator THEN Null ELSE ClaimPda(Task, k.by)

\* The optional claim and agent account of a worker.
OptionalClaim(w) == IF w = Null THEN Null ELSE ClaimPda(Task, w)
OptionalAgent(w) == IF w = Null THEN Null ELSE AgentPda(w)
OptionalWallet(w) == IF w = Null THEN Null ELSE Wallet(w)

initiateDispute(k) ==
    LET worker == IF k.o.workerGiven THEN k.agent ELSE Null IN
    [Blank(k) EXCEPT
        !.initiatorClaim = InitiatorClaim(k), !.submission = k.o.submission,
        !.claim = OptionalClaim(worker), !.workerAgent = OptionalAgent(worker),
        !.remaining = DisputeRemainingAccounts(Task, Dispute, {}, k.o.defendants, <<>>)]

voteDispute(k) == [Blank(k) EXCEPT !.claim = OptionalClaim(k.o.worker),
                                   !.workerAgent = OptionalAgent(k.o.worker)]

SettleDispute(k, treasury) ==
    [Blank(k) EXCEPT
        !.claim = OptionalClaim(k.o.worker), !.workerAgent = OptionalAgent(k.o.worker),
        !.worker = OptionalWallet(k.o.worker),
        !.remaining = DisputeRemainingAccounts(Task, Dispute, k.o.arbiters, k.o.workers,
                                               k.o.settlement),
        !.tokens = ResolveTokenAccounts(chain.kind.mint, Task, Wallet(Creator),
                                        OptionalWallet(k.o.worker), treasury)]

resolveDispute(k) == SettleDispute(k, Treasury)

expireDispute(k) == SettleDispute(k, Null)

cancelDispute(k) ==
    [Blank(k) EXCEPT !.remaining = IF k.o.defendant = Null THEN <<>> ELSE <<AgentPda(k.o.defendant)>>]

applyDisputeSlash(k) ==
    [Blank(k) EXCEPT !.treasury = Treasury,
                     !.claim = ClaimPda(Task, k.o.worker), !.workerAgent = AgentPda(k.o.worker),
                     !.tokens = ApplySlashTokenAccounts(chain.kind.mint, Task, Treasury)]

applyInitiatorSlash(k) == [Blank(k) EXCEPT !.treasury = Treasury]

initializeBidMarketplace(k) == [Blank(k) EXCEPT !.remaining = MultisigRemainingAccounts(k.o.signers)]

updateBidMarketplaceConfig(k) == initializeBidMarketplace(k)

executeMultisigProtocolInstruction(k) == initializeBidMarketplace(k)

\* The instruction that call k sends next.
Instruction(k) ==
    CASE k.op = "createTask" -> IF k.landed = 0 THEN createTask(k) ELSE setTaskJobSpec(k)
      [] k.op = "setTaskJobSpec" -> setTaskJobSpec(k)
      [] k.op = "createDependentTask" -> createDependentTask(k)
      [] k.op = "claimTask" -> claimTask(k)
      [] k.op = "claimTaskWithJobSpec" -> claimTaskWithJobSpec(k)
      [] k.op = "expireClaim" -> expireClaim(k)
      [] k.op = "completeTask" -> completeTask(k)
      [] k.op = "configureTaskValidation" -> configureTaskValidation(k)
      [] k.op = "submitTaskResult" -> submitTaskResult(k)
      [] k.op = "acceptTaskResult" -> acceptTaskResult(k)
      [] k.op = "rejectTaskResult" -> rejectTaskResult(k)
      [] k.op = "autoAcceptTaskResult" -> autoAcceptTaskResult(k)
      [] k.op = "validateTaskResult" -> validateTaskResult(k)
      [] k.op = "cancelTask" -> cancelTask(k)
      [] k.op = "initializeBidBook" -> initializeBidBook(k)
      [] k.op = "createBid" -> createBid(k)
      [] k.op = "updateBid" -> updateBid(k)
      [] k.op = "cancelBid" -> cancelBid(k)
      [] k.op = "acceptBid" -> acceptBid(k)
      [] k.op = "expireBid" -> expireBid(k)
      [] k.op = "initiateDispute" -> initiateDispute(k)
      [] k.op = "voteDispute" -> voteDispute(k)
      [] k.op = "resolveDispute" -> resolveDispute(k)
      [] k.op = "expireDispute" -> expireDispute(k)
      [] k.op = "cancelDispute" -> cancelDispute(k)
      [] k.op = "applyDisputeSlash" -> applyDisputeSlash(k)
      [] k.op = "applyInitiatorSlash" -> applyInitiatorSlash(k)
      [] k.op = "initializeBidMarketplace" -> initializeBidMarketplace(k)
      [] k.op = "updateBidMarketplaceConfig" -> updateBidMarketplaceConfig(k)
      [] k.op \in ProtocolOp -> executeMultisigProtocolInstruction(k)

-----------------------------------------------------------------------------
(* The call.                                                               *)

\* The accounts a call fetches one after the other before it sends.
Reads(op) ==
    CASE op \in {"acceptTaskResult", "autoAcceptTaskResult", "validateTaskResult"} ->
            <<"task", "protocolConfig", "agentRegistration">>
      [] op \in {"completeTask", "resolveDispute", "applyDisputeSlash"} ->
            <<"task", "protocolConfig">>
      [] op \in {"cancelTask", "initiateDispute", "expireDispute"} -> <<"task">>
      [] op = "rejectTaskResult" -> <<"agentRegistration">>
      [] op = "applyInitiatorSlash" -> <<"protocolConfig">>
      [] OTHER -> <<>>

\* Mutant: the job spec is only looked at when it is its turn.
RefusedLate(k) ==
    \/ k.o = Malformed
    \/ k.op = "createTask" /\ k.landed = 1 /\ k.o.spec \in {"half", "blank"}
    \/ k.op = "setTaskJobSpec" /\ k.o.spec = "blank"
    \/ k.op = "cancelTask" /\ CancelRefused(k.o)
    \/ k.op \in BidOp \ {"initializeBidBook"} /\ BidderRefused(k.o.id, k.o.pda)
    \/ k.op \in MultisigOp /\ k.o.signers = <<>>

\* Arguments the SDK does not accept, found before anything is sent.
Refused(k) ==
    \/ k.o = Malformed
    \/ k.op = "createTask" /\ k.o.spec \in {"half", "blank"}
    \/ k.op = "setTaskJobSpec" /\ k.o.spec = "blank"
    \/ k.op = "cancelTask" /\ CancelRefused(k.o)
    \/ k.op \in BidOp \ {"initializeBidBook"} /\ BidderRefused(k.o.id, k.o.pda)
    \/ k.op \in MultisigOp /\ k.o.signers = <<>>

\* The transactions a call stands for.
Need(k) == IF k.op = "createTask" /\ k.o.spec # "none" THEN 2 ELSE 1

Goto(phase) == call' = [call EXCEPT !.phase = phase]

At(phase) == call.phase = phase

Start ==
    /\ At("idle")
    /\ \E op \in Op : \E a \in Agents(op) : \E by \in Callers(op, a) :
       \E informed \in BOOLEAN :
       \E o \in IF informed THEN Informed(chain, op, by, a) ELSE Careless(op, a) :
          /\ op \in MultisigOp => chain.status = "missing" \* the task does not matter to them
          /\ StatusErrors(chain, [op |-> op, agent |-> a, by |-> by]) = {}
          /\ call' = [op |-> op, agent |-> a, by |-> by, o |-> o, informed |-> informed,
                      phase |-> "reading", todo |-> Reads(op), landed |-> 0, moved |-> FALSE]
    /\ UNCHANGED chain

\* A node answers a fetch.
Read ==
    /\ At("reading") /\ call.todo # <<>>
    /\ call' = [call EXCEPT !.todo = Tail(@)]
    /\ UNCHANGED chain

\* A fetch throws, or the SDK turns the arguments down.
Refuse ==
    /\ At("reading")
    /\ call.todo # <<>> \/ Refused(call)
    /\ Goto("refused")
    /\ UNCHANGED chain

Send ==
    /\ At("reading") /\ call.todo = <<>> /\ ~Refused(call)
    /\ Goto("sent")
    /\ UNCHANGED chain

\* The program executes what was sent, now or after the call gave up on it.
Land ==
    /\ At("sent") \/ At("late")
    /\ LET ix == Instruction(call) IN
       /\ StatusErrors(chain, ix) \cup AccountErrors(chain, ix) = {}
       /\ chain' = After(chain, ix)
       /\ call' = [call EXCEPT !.landed = @ + 1, !.phase = IF @ = "sent" THEN "landed" ELSE "threw"]

\* The program refuses it, for a reason listed here or another.
Reject ==
    /\ At("sent") \/ At("late")
    /\ Goto("threw")
    /\ UNCHANGED chain

\* rpc() gives up on a transaction that is still on its way.
RpcThrows == At("sent") /\ Goto("late") /\ UNCHANGED chain

\* rpc() or confirmTransaction() loses track of one that was executed.
ConfirmThrows == At("landed") /\ Goto("threw") /\ UNCHANGED chain

\* Mutant: createTask returns after its first transaction.
ConfirmReturnsEarly == At("landed") /\ Goto("returned") /\ UNCHANGED chain

\* Mutant: the count of transactions is off by one.
ConfirmReturnsOnceMore ==
    /\ At("landed")
    /\ Goto(IF call.landed > Need(call) THEN "returned" ELSE "reading")
    /\ UNCHANGED chain

ConfirmReturns ==
    /\ At("landed")
    /\ Goto(IF call.landed = Need(call) THEN "returned" ELSE "reading")
    /\ UNCHANGED chain

-----------------------------------------------------------------------------
(* Everybody else, whose instructions are in order, as long as the call    *)
(* has something left to send.                                             *)

Modes == {"CreatorReview", "ValidatorQuorum", "ExternalAttestation"}

Others ==
    /\ \/ call.phase \in {"idle", "reading", "sent"}
       \/ At("landed") /\ call.landed < Need(call)
    /\ \E op \in IF At("idle") THEN Op ELSE Op \ CreateOp :
       \E a \in Agents(op) : \E by \in Callers(op, a) :
       \E mode \in IF op = "configureTaskValidation" THEN Modes ELSE {"Auto"} :
       \E approved \in IF op = "validateTaskResult" THEN BOOLEAN ELSE {FALSE} :
          LET ix == [op |-> op, agent |-> a, by |-> by, mode |-> mode, approved |-> approved] IN
          /\ op \in MultisigOp => chain.kind.bid \* nor does a task that takes no bids notice them
          /\ StatusErrors(chain, ix) = {}
          /\ chain' = After(chain, ix)
          /\ chain' # chain
    /\ call' = IF At("idle") THEN call ELSE [call EXCEPT !.moved = TRUE]

Init == /\ \E kind \in Kind : chain = Missing(kind)
        /\ call = NoCall

Next == \/ Start \/ Read \/ Refuse \/ Send
        \/ Land \/ Reject \/ RpcThrows \/ ConfirmThrows \/ ConfirmReturns
        \/ Others

Spec == Init /\ [][Next]_vars

-----------------------------------------------------------------------------
TypeOK ==
    /\ chain.status \in {"missing", "Open", "InProgress", "PendingValidation", "Disputed"} \cup Ended
    /\ chain.claims \in [Agent -> {"none", "open", "done"}]
    /\ chain.results \in [Agent -> {"none", "Submitted", "Accepted", "Rejected"}]
    /\ chain.bids \in [Agent -> {"none", "Active", "Accepted"}]
    /\ chain.book \in {"none", "Open", "Accepted", "Closed"}
    /\ chain.dispute \in {"none", "Active", "Resolved", "Expired", "Cancelled"}
    /\ chain.votes \subseteq Arbiter
    /\ ~At("idle") => /\ call.op \in Op
                        /\ call.phase \in Phase
                        /\ call.landed \in 0..Need(call)

\* The promise to the caller, read off the call.
Outcome == INSTANCE CallOutcome WITH
    MaxNeed <- 2,
    outcome <- IF At("idle") THEN "none"
               ELSE CASE call.phase \in {"returned", "refused"} -> call.phase
                      [] call.phase \in {"threw", "late"} -> "threw"
                      [] OTHER -> "pending",
    need <- IF At("idle") THEN 0 ELSE Need(call),
    effect <- IF At("idle") THEN 0 ELSE call.landed

(***************************************************************************)
(* Every operation implements CallOutcome: a call that returns has had all *)
(* its transactions executed, each once, and a call whose arguments are    *)
(* refused leaves nothing behind, whatever others do in between.           *)
(***************************************************************************)
ImplementsOutcome == Outcome!Spec

(***************************************************************************)
(* The account lists are what the program reads by position: the           *)
(* instruction of a caller who passes what fits the task it sees is not    *)
(* refused for its accounts, unless somebody else changed the task since   *)
(* the caller looked at it.                                                *)
(***************************************************************************)
InformedAccountsAccepted ==
    At("sent") /\ call.informed /\ ~call.moved /\ call.landed = 0
        => AccountErrors(chain, Instruction(call)) = {}

(***************************************************************************)
(* Nor does the SDK itself turn such a caller down.                        *)
(***************************************************************************)
InformedNotRefused == ~At("idle") /\ call.informed => ~Refused(call)

(***************************************************************************)
(* Only an error tells of a half-made creation: when createTask is over    *)
(* and the task has no job spec although one was given, it threw, even if  *)
(* a worker claimed the task or its creator cancelled it before the second *)
(* transaction.                                                            *)
(***************************************************************************)
HalfCreatedThrew ==
    ~At("idle") /\ call.op = "createTask" /\ call.o.spec = "full" /\ call.phase = "returned"
        => chain.spec
=============================================================================
