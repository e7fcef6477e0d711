----------------------------- MODULE SpendOutcome -----------------------------
(***************************************************************************)
(* What private completion promises to its callers, with no cache, network *)
(* or retry in sight.  Every nullifier is spent at most once, by the       *)
(* transaction of one call, and "paid" is the answer of that call and of   *)
(* no other.  "error" promises nothing: the transaction of a call that     *)
(* failed may have been, or may yet be, executed.                          *)
(***************************************************************************)
CONSTANTS Nullifier, Call, NoCall

VARIABLES spentBy,   \* the call whose transaction spent a nullifier
          outcome    \* what a call has told its caller so far

vars == <<spentBy, outcome>>

Init == /\ spentBy = [n \in Nullifier |-> NoCall]
        /\ outcome = [c \in Call |-> "pending"]

\* The transaction of call c spends n; c may already have reported an error.
Spend(c, n) ==
    /\ spentBy[n] = NoCall
    /\ \A m \in Nullifier : spentBy[m] # c
    /\ outcome[c] # "paid"
    /\ spentBy' = [spentBy EXCEPT ![n] = c]
    /\ UNCHANGED outcome

Pay(c) ==
    /\ outcome[c] = "pending"
    /\ \E n \in Nullifier : spentBy[n] = c
    /\ outcome' = [outcome EXCEPT ![c] = "paid"]
    /\ UNCHANGED spentBy

Fail(c) ==
    /\ outcome[c] = "pending"
    /\ outcome' = [outcome EXCEPT ![c] = "error"]
    /\ UNCHANGED spentBy

Next == \E c \in Call : \/ \E n \in Nullifier : Spend(c, n)
                        \/ Pay(c)
                        \/ Fail(c)

Spec == Init /\ [][Next]_vars
=============================================================================
