----------------------------- MODULE BudgetLedger -----------------------------
(***************************************************************************)
(* What the target and the duration budget promise: an account that only   *)
(* grows, only under a policy, and never beyond it; the policy may change  *)
(* as long as it still covers the account.                                 *)
(***************************************************************************)
EXTENDS Integers

CONSTANT None

VARIABLES limit, charged

Init == limit = None /\ charged = 0

SetLimit ==
    /\ \/ limit' = None /\ charged = 0
       \/ limit' \in Nat \ {0} /\ charged <= limit'
    /\ UNCHANGED charged

Charge ==
    /\ limit # None
    /\ charged' \in Nat
    /\ charged < charged'
    /\ charged' <= limit
    /\ UNCHANGED limit

Next == SetLimit \/ Charge

Spec == Init /\ [][Next]_<<limit, charged>>
===============================================================================
