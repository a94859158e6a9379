------------------------------ MODULE ResultStore ------------------------------
(***************************************************************************)
(* What storing results promises, without uploads, retries, leases or      *)
(* views: a job stores at most one result, together with its evidence; the *)
(* result does not change while it is kept, its evidence may only shrink,  *)
(* and a job whose result was discarded never stores another.              *)
(***************************************************************************)
CONSTANTS Job, Document

VARIABLES
    stored,     \* the result of each job: <<>> or <<document>>
    evidence,   \* the set of evidence kept for each job
    closed      \* jobs that store nothing any more

storeVars == <<stored, evidence, closed>>

Init ==
    /\ stored = [j \in Job |-> <<>>]
    /\ evidence = [j \in Job |-> {}]
    /\ closed = {}

Store(j) ==
    /\ j \notin closed
    /\ \E d \in Document : stored' = [stored EXCEPT ![j] = <<d>>]
    /\ evidence' = [evidence EXCEPT ![j] = evidence'[j]]
    /\ closed' = closed \union {j}

Discard(j) ==
    /\ stored' = [stored EXCEPT ![j] = <<>>]
    /\ evidence' = [evidence EXCEPT ![j] = {}]
    /\ closed' = closed \union {j}

\* Somebody removes evidence, of any jobs; the results stay.
Prune ==
    /\ evidence' = [j \in Job |-> evidence[j] \intersect evidence'[j]]
    /\ UNCHANGED <<stored, closed>>

Next == Prune \/ \E j \in Job : Store(j) \/ Discard(j)

Spec == Init /\ [][Next]_storeVars
===============================================================================
