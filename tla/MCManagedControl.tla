--------------------------- MODULE MCManagedControl ---------------------------
(***************************************************************************)
(* Small instances of ManagedControl for TLC.                              *)
(***************************************************************************)
EXTENDS ManagedControl, TLC

MCOrigins == [v \in Version |-> v - 1]

\* A runner that opts into every budget, as a managed claim must.
Managed == {[owned |-> TRUE, budget |-> TRUE, binding |-> 2, seconds |-> 3]}

\* An engagement whose owner has put all three budget policies in force, as a managed claim needs.
\* Revisions count from there.
Configured ==
    /\ NewEngagement
    /\ NothingManaged
    /\ concurrency_limit \in ConcLimit
    /\ target_limit \in TargetLimit
    /\ duration_limit \in DurationLimit

ConfiguredSpec == Configured /\ [][ManagedNext]_allVars

Symmetry == Permutations(Session)
===============================================================================
