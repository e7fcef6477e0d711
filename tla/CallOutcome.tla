------------------------------ MODULE CallOutcome ------------------------------
(***************************************************************************)
(* What one call of the SDK that changes the chain promises its caller,    *)
(* with no account, read or network in sight.  The call stands for one or  *)
(* more transactions, to be executed in order.  "returned" promises that   *)
(* every one of them was executed, "refused" (an error before anything was *)
(* sent) that none was or ever will be, and "threw" promises nothing: they *)
(* may have been executed in part, and one more may still be.              *)
(***************************************************************************)
EXTENDS Naturals

CONSTANT MaxNeed   \* transactions a call may stand for

VARIABLES outcome,  \* what the caller has been told
          need,     \* transactions the call stands for, 0 before it is made
          effect    \* how many of them were executed

vars == <<outcome, need, effect>>

Init == outcome = "none" /\ need = 0 /\ effect = 0

Begin == /\ outcome = "none"
         /\ outcome' = "pending"
         /\ need' \in 1..MaxNeed
         /\ UNCHANGED effect

Execute == /\ outcome \in {"pending", "threw"}
           /\ effect < need
           /\ effect' = effect + 1
           /\ UNCHANGED <<outcome, need>>

Return == /\ outcome = "pending"
          /\ effect = need
          /\ outcome' = "returned"
          /\ UNCHANGED <<need, effect>>

Refuse == /\ outcome = "pending"
          /\ effect = 0
          /\ outcome' = "refused"
          /\ UNCHANGED <<need, effect>>

Throw == /\ outcome = "pending"
         /\ outcome' = "threw"
         /\ UNCHANGED <<need, effect>>

Next == Begin \/ Execute \/ Return \/ Refuse \/ Throw

Spec == Init /\ [][Next]_vars
=============================================================================
