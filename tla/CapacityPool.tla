----------------------------- MODULE CapacityPool -----------------------------
(***************************************************************************)
(* What the concurrency budget promises, without jobs, leases or handlers: *)
(* a pool of slots whose size only changes while it is empty.              *)
(***************************************************************************)
EXTENDS Integers, FiniteSets

CONSTANTS Holder, None

VARIABLES limit, holders

Init == limit = None /\ holders = {}

Resize ==
    /\ holders = {}
    /\ limit' \in (Nat \ {0}) \union {None}
    /\ UNCHANGED holders

Acquire(h) ==
    /\ limit # None
    /\ h \notin holders
    /\ Cardinality(holders) < limit
    /\ holders' = holders \union {h}
    /\ UNCHANGED limit

Release(h) ==
    /\ h \in holders
    /\ holders' = holders \ {h}
    /\ UNCHANGED limit

Next == Resize \/ \E h \in Holder : Acquire(h) \/ Release(h)

Spec == Init /\ [][Next]_<<limit, holders>>
===============================================================================
