--------------------------- MODULE JobControlProofs ---------------------------
(***************************************************************************)
(* Proofs about JobControl for every set of jobs, pollers, contents,       *)
(* policies and requests.                                                  *)
(***************************************************************************)
EXTENDS JobControl, FiniteSetTheorems, NaturalsInduction, WellFoundedInduction, TLAPS

-------------------------------------------------------------------------------
(* Facts about the operators.                                              *)

\* The fields of a claim body.
LEMMA RequestFields ==
    ASSUME NEW r \in Request
    PROVE  /\ r.owned \in BOOLEAN /\ r.budget \in BOOLEAN
           /\ r.binding \in Version \union {None}
           /\ r.seconds \in Nat \union {None}
           /\ ~r.owned => ~r.budget /\ r.binding = None /\ r.seconds = None
  <1>1. r \in Body \/ r = NoBody
    BY RequestAssumption DEF RequestAssumption
  <1>2. CASE r \in Body
    BY <1>2 DEF Body
  <1>3. CASE r = NoBody
    BY <1>3 DEF NoBody
  <1> QED
    BY <1>1, <1>2, <1>3

\* A claim that ChargeOk and AllocateOk admit is charged natural numbers.
LEMMA ChargesAreNatural ==
    ASSUME TypeOK, NEW j \in Job, NEW r \in Request, ChargeOk(j, r), AllocateOk(r)
    PROVE  TargetCount(r) \in Nat /\ Allocation(r) \in Nat
  <1>1. TargetCount(r) \in Nat
    BY RequestFields, VersionAssumption DEF TargetCount, ChargeOk, VersionAssumption
  <1>2. Allocation(r) \in Nat
    BY RequestFields DEF Allocation, AllocateOk
  <1> QED
    BY <1>1, <1>2

\* The parents create_pipeline records are stages of the same chain.
LEMMA ChainParents ==
    ASSUME NEW c \in Chains, NEW j \in Job,
           \E i \in DOMAIN c : i > 1 /\ c[i] = j
    PROVE  c[(CHOOSE i \in DOMAIN c : i > 1 /\ c[i] = j) - 1] \in Job
  <1> DEFINE k == CHOOSE i \in DOMAIN c : i > 1 /\ c[i] = j
  <1>1. k \in DOMAIN c /\ k > 1
    OBVIOUS
  <1>2. PICK n \in 1..Cardinality(Job) : c \in [1..n -> Job]
    BY DEF Chains
  <1>3. n \in Nat
    BY <1>2, FS_CardinalityType, JobAssumption
  <1>4. k - 1 \in 1..n
    BY <1>1, <1>2, <1>3
  <1> QED
    BY <1>2, <1>4

-------------------------------------------------------------------------------
(* Type correctness.                                                       *)

\* Steps of the engagement's handlers keep every variable in its type.
LEMMA EngagementStepType == TypeOK /\ EngagementStep => TypeOK'
  <1> SUFFICES ASSUME TypeOK, EngagementStep PROVE TypeOK'
    OBVIOUS
  <1> USE DEF TypeOK, engagementVars, policyVars, ledgerVars, jobVars, executionVars, pollVars
  <1>1. ASSUME NEW v \in Version, EditCase(v) PROVE TypeOK'
    BY <1>1 DEF EditCase
  <1>2. CASE DeleteCase
    BY <1>2 DEF DeleteCase
  <1>3. CASE EngageStopWork
    BY <1>3 DEF EngageStopWork, State, Open
  <1>4. CASE ReleaseStopWork
    BY <1>4 DEF ReleaseStopWork
  <1>5. ASSUME NEW l \in ConcLimit, ConfigureConcurrency(l) PROVE TypeOK'
    BY <1>5 DEF ConfigureConcurrency
  <1>6. ASSUME NEW l \in TargetLimit, ConfigureTargets(l) PROVE TypeOK'
    BY <1>6 DEF ConfigureTargets
  <1>7. ASSUME NEW l \in DurationLimit, ConfigureDuration(l) PROVE TypeOK'
    BY <1>7 DEF ConfigureDuration
  <1>8. CASE DeleteEngagement
    BY <1>8 DEF DeleteEngagement, DropRows, Status, State
  <1>9. ASSUME NEW c \in Chains, CreatePipeline(c) PROVE TypeOK'
    BY <1>9, ChainParents DEF CreatePipeline, Status, Row
  <1> QED
    BY <1>1, <1>2, <1>3, <1>4, <1>5, <1>6, <1>7, <1>8, <1>9 DEF EngagementStep

\* Steps on one job (creation, claim, PATCH, lease, finish, deletion) keep the types.
LEMMA JobStepType ==
    ASSUME TypeOK, NEW j \in Job, JobStep(j)
    PROVE  TypeOK'
  <1> USE DEF TypeOK, engagementVars, policyVars, ledgerVars, jobVars, executionVars, pollVars
  <1>1. ASSUME NEW parent \in Job \union {None}, CreateJob(j, parent) PROVE TypeOK'
    BY <1>1 DEF CreateJob, Status, Row
  <1>2. CASE DeleteJob(j)
    BY <1>2 DEF DeleteJob, DropRows, Status, State
  <1>3. ASSUME NEW r \in Request, Claim(j, r) PROVE TypeOK'
    <2>1. TargetCount(r) \in Nat /\ Allocation(r) \in Nat
      BY <1>3, ChargesAreNatural DEF Claim, Issue
    <2>2. r.budget \in BOOLEAN
      BY RequestFields
    <2>3. /\ status' \in [Job -> Status]
          /\ case_snapshot' \in [Job -> Version \union {None}]
      BY <1>3 DEF Claim, Issue, Status, Row
    <2>4. /\ state' \in [Job -> State]
          /\ expired' \in [Job -> BOOLEAN]
          /\ capacity_reserved' \in [Job -> BOOLEAN]
      BY <1>3, <2>2 DEF Claim, Issue, State, Open
    <2>5. target_charge' \in [Job -> Nat] /\ duration_seconds' \in [Job -> Nat]
      BY <1>3, <2>1 DEF Claim, Issue
    <2>6. targets_spent' \in Nat /\ duration_allocated' \in Nat
      BY <1>3, <2>1 DEF Claim, Issue
    <2> QED
      BY <1>3, <2>3, <2>4, <2>5, <2>6 DEF Claim, Issue
  <1>4. ASSUME NEW new \in Row, UpdateJob(j, new) PROVE TypeOK'
    BY <1>4 DEF UpdateJob, Status
  <1>5. CASE RequestCancel(j)
    BY <1>5 DEF RequestCancel, State, Open
  <1>6. CASE Expire(j)
    BY <1>6 DEF Expire
  <1>7. CASE RefreshExecution(j)
    BY <1>7 DEF RefreshExecution, State, Open
  <1>8. CASE RefuseCompletion(j)
    BY <1>8 DEF RefuseCompletion, State, Open
  <1>9. ASSUME NEW outcome \in Terminal \union {"uncertain"}, FinishExecution(j, outcome)
        PROVE TypeOK'
    BY <1>9 DEF FinishExecution, State, Open, Terminal, Status, Row
  <1> QED
    BY <1>1, <1>2, <1>3, <1>4, <1>5, <1>6, <1>7, <1>8, <1>9 DEF JobStep, OperatorStep, RunnerStep

\* Steps of a poll keep the types.
LEMMA PollStepType ==
    ASSUME TypeOK, NEW p \in Poller, PollStep(p)
    PROVE  TypeOK'
  <1> USE DEF TypeOK, engagementVars, policyVars, ledgerVars, jobVars, executionVars, pollVars
  <1>1. CASE PollPending(p)
    BY <1>1 DEF PollPending
  <1>2. CASE PollParents(p)
    BY <1>2 DEF PollParents
  <1>3. CASE PollFailOrphans(p)
    BY <1>3 DEF PollFailOrphans, FailRows, Status, Row
  <1>4. CASE PollFailCaseless(p)
    BY <1>4 DEF PollFailCaseless, FailRows, Forget, Status, Row
  <1>5. CASE PollAbort(p)
    BY <1>5 DEF PollAbort, Forget
  <1> QED
    BY <1>1, <1>2, <1>3, <1>4, <1>5 DEF PollStep

\* The initial state is well typed.
LEMMA InitType == Init => TypeOK
  <1> SUFFICES ASSUME Init PROVE TypeOK
    OBVIOUS
  <1>1. expired \in [Job -> BOOLEAN] /\ capacity_reserved \in [Job -> BOOLEAN]
    BY DEF Init, NewEngagement, NoPolicy
  <1>2. targets_spent \in Nat /\ duration_allocated \in Nat
    BY DEF Init, NewEngagement, NoPolicy
  <1>3. target_charge \in [Job -> Nat] /\ duration_seconds \in [Job -> Nat]
    BY DEF Init, NewEngagement, NoPolicy
  <1>4. status \in [Job -> Status] /\ state \in [Job -> State]
    BY DEF Init, NewEngagement, NoPolicy, Status, State
  <1>5. /\ depends_on \in [Job -> Job \union {None}]
        /\ case_snapshot \in [Job -> Version \union {None}]
        /\ pc \in [Poller -> {"idle", "parents", "orphans", "cases"}]
        /\ seen \in [Poller -> SUBSET Job]
        /\ doomed \in [Poller -> SUBSET Job]
    BY DEF Init, NewEngagement, NoPolicy
  <1> QED
    BY <1>1, <1>2, <1>3, <1>4, <1>5 DEF Init, NewEngagement, NoPolicy, TypeOK

\* Type correctness of the whole specification, for every instance.
THEOREM TypeCorrect == Spec => []TypeOK
  <1>1. Init => TypeOK
    BY InitType
  <1>2. TypeOK /\ [Next]_vars => TypeOK'
    <2> SUFFICES ASSUME TypeOK, [Next]_vars PROVE TypeOK'
      OBVIOUS
    <2>1. CASE Next
      BY <2>1, EngagementStepType, JobStepType, PollStepType DEF Next
    <2>2. CASE UNCHANGED vars
      BY <2>2 DEF TypeOK, vars, engagementVars, policyVars, ledgerVars, jobVars,
                  executionVars, pollVars
    <2> QED
      BY <2>1, <2>2
  <1> QED
    BY <1>1, <1>2, PTL DEF Spec

-------------------------------------------------------------------------------
(* The inductive invariant: jobs and execution rows agree, no attempt is   *)
(* active under stop-work, and recorded charges match frozen contents.     *)

Consistent ==
    /\ TypeOK
    /\ StopWorkLeavesNoneActive
    /\ ExecutionAgreesWithJob
    /\ ChargeMatchesSnapshot

\* Deleting job rows together with their execution rows keeps the rest consistent.
LEMMA DropRowsConsistent ==
    ASSUME Consistent, TypeOK', NEW J \in SUBSET Job, DropRows(J), stop_work' = stop_work
    PROVE  Consistent'
  <1> USE DEF Consistent, TypeOK
  <1>1. ASSUME NEW k \in J
        PROVE  /\ status'[k] = "deleted" /\ state'[k] = "none"
               /\ target_charge'[k] = 0 /\ duration_seconds'[k] = 0
    BY DEF DropRows
  <1>2. ASSUME NEW k \in Job \ J
        PROVE  /\ status'[k] = status[k] /\ state'[k] = state[k]
               /\ target_charge'[k] = target_charge[k]
               /\ duration_seconds'[k] = duration_seconds[k]
               /\ case_snapshot'[k] = case_snapshot[k]
    BY DEF DropRows
  <1>3. \A k \in J : ~capacity_reserved'[k]
    BY DEF DropRows
  <1>4. \A k \in Job \ J : capacity_reserved'[k] = capacity_reserved[k]
    BY DEF DropRows
  <1>5. StopWorkLeavesNoneActive'
    BY <1>1, <1>2 DEF StopWorkLeavesNoneActive
  <1>6. ChargeMatchesSnapshot'
    BY <1>1, <1>2 DEF ChargeMatchesSnapshot
  <1>7. ExecutionAgreesWithJob'
    BY <1>1, <1>2, <1>3, <1>4 DEF ExecutionAgreesWithJob, Open, Terminal
  <1> QED
    BY <1>5, <1>6, <1>7

\* Steps of the engagement's handlers keep the rows consistent.
LEMMA EngagementStepConsistent == Consistent /\ EngagementStep => Consistent'
  <1> SUFFICES ASSUME Consistent, EngagementStep PROVE Consistent'
    OBVIOUS
  <1>0. TypeOK'
    BY EngagementStepType DEF Consistent
  <1> USE <1>0 DEF Consistent, TypeOK, StopWorkLeavesNoneActive, ExecutionAgreesWithJob,
        ChargeMatchesSnapshot, engagementVars, policyVars, ledgerVars, jobVars, executionVars,
        pollVars
  <1>1. ASSUME NEW v \in Version, EditCase(v) PROVE Consistent'
    BY <1>1 DEF EditCase
  <1>2. CASE DeleteCase
    BY <1>2 DEF DeleteCase
  <1>3. CASE EngageStopWork
    BY <1>3 DEF EngageStopWork, Open, Terminal
  <1>4. CASE ReleaseStopWork
    BY <1>4 DEF ReleaseStopWork
  <1>5. ASSUME NEW l \in ConcLimit, ConfigureConcurrency(l) PROVE Consistent'
    BY <1>5 DEF ConfigureConcurrency
  <1>6. ASSUME NEW l \in TargetLimit, ConfigureTargets(l) PROVE Consistent'
    BY <1>6 DEF ConfigureTargets
  <1>7. ASSUME NEW l \in DurationLimit, ConfigureDuration(l) PROVE Consistent'
    BY <1>7 DEF ConfigureDuration
  <1>8. CASE DeleteEngagement
    BY <1>8, DropRowsConsistent DEF DeleteEngagement
  <1>9. ASSUME NEW c \in Chains, CreatePipeline(c) PROVE Consistent'
    <2>1. \A j \in Job : (\E i \in DOMAIN c : c[i] = j) => status[j] = "absent"
      BY <1>9 DEF CreatePipeline, Queueable
    <2>2. \A j \in Job : status[j] = "absent" => state[j] = "none"
      BY DEF State, Open, Terminal, Finished
    <2> QED
      BY <1>9, <2>1, <2>2 DEF CreatePipeline, Open, Terminal
  <1> QED
    BY <1>1, <1>2, <1>3, <1>4, <1>5, <1>6, <1>7, <1>8, <1>9 DEF EngagementStep

\* Steps on one job keep the rows consistent.  A pending job has no execution row, so a claim
\* never meets an older one.
LEMMA JobStepConsistent ==
    ASSUME Consistent, NEW j \in Job, JobStep(j)
    PROVE  Consistent'
  <1>0. TypeOK'
    BY JobStepType DEF Consistent
  <1> USE <1>0 DEF Consistent, TypeOK, StopWorkLeavesNoneActive, ExecutionAgreesWithJob,
        ChargeMatchesSnapshot, engagementVars, policyVars, ledgerVars, jobVars, executionVars,
        pollVars
  <1>1. ASSUME NEW parent \in Job \union {None}, CreateJob(j, parent) PROVE Consistent'
    <2>1. status[j] = "absent" /\ state[j] = "none"
      BY <1>1 DEF CreateJob, Queueable, State, Open, Terminal, Finished
    <2> QED
      BY <1>1, <2>1 DEF CreateJob, Open, Terminal
  <1>2. CASE DeleteJob(j)
    BY <1>2, DropRowsConsistent DEF DeleteJob
  <1>3. ASSUME NEW r \in Request, Claim(j, r) PROVE Consistent'
    <2>1. status[j] = "pending" /\ state[j] = "none"
      BY <1>3 DEF Claim, Issue, State, Open, Terminal, Finished
    <2>2. target_charge[j] = 0 /\ duration_seconds[j] = 0 /\ ~capacity_reserved[j]
      BY <2>1 DEF Open
    <2>3. StopWorkLeavesNoneActive'
      BY <1>3 DEF Claim, Issue
    <2>4. ExecutionAgreesWithJob'
      BY <1>3, <2>1, <2>2 DEF Claim, Issue, Open, Terminal, Finished
    <2>5. ChargeMatchesSnapshot'
      <3>1. TargetCount(r) > 0 => r.binding = spec /\ spec \in Version /\ j \in GateJob
                                  /\ TargetCount(r) = Origins[spec]
        BY <1>3, RequestFields DEF Claim, Issue, TargetCount, ChargeOk
      <3> QED
        BY <1>3, <2>2, <3>1 DEF Claim, Issue
    <2> QED
      BY <2>3, <2>4, <2>5
  <1>4. ASSUME NEW new \in Row, UpdateJob(j, new) PROVE Consistent'
    BY <1>4 DEF UpdateJob, Open, Terminal
  <1>5. CASE RequestCancel(j)
    BY <1>5 DEF RequestCancel, Open, Terminal
  <1>6. CASE Expire(j)
    BY <1>6 DEF Expire
  <1>7. CASE RefreshExecution(j)
    BY <1>7 DEF RefreshExecution, Open, Terminal
  <1>8. CASE RefuseCompletion(j)
    BY <1>8 DEF RefuseCompletion, Open, Terminal
  <1>9. ASSUME NEW outcome \in Terminal \union {"uncertain"}, FinishExecution(j, outcome)
        PROVE Consistent'
    BY <1>9 DEF FinishExecution, Open, Terminal, Finished
  <1> QED
    BY <1>1, <1>2, <1>3, <1>4, <1>5, <1>6, <1>7, <1>8, <1>9 DEF JobStep, OperatorStep, RunnerStep

\* Polls overwrite the status of rows that exist, whatever it is; the rows stay consistent.
LEMMA PollStepConsistent ==
    ASSUME Consistent, NEW p \in Poller, PollStep(p)
    PROVE  Consistent'
  <1>0. TypeOK'
    BY PollStepType DEF Consistent
  <1> USE <1>0 DEF Consistent, TypeOK, StopWorkLeavesNoneActive, ExecutionAgreesWithJob,
        ChargeMatchesSnapshot, engagementVars, policyVars, ledgerVars, jobVars, executionVars,
        pollVars
  <1>1. CASE PollPending(p)
    BY <1>1 DEF PollPending
  <1>2. CASE PollParents(p)
    BY <1>2 DEF PollParents
  <1>3. CASE PollFailOrphans(p)
    BY <1>3 DEF PollFailOrphans, FailRows, Finished
  <1>4. CASE PollFailCaseless(p)
    BY <1>4 DEF PollFailCaseless, FailRows, Finished
  <1>5. CASE PollAbort(p)
    BY <1>5 DEF PollAbort
  <1> QED
    BY <1>1, <1>2, <1>3, <1>4, <1>5 DEF PollStep

\* Every step keeps the rows consistent.
LEMMA StepConsistent == Consistent /\ [Next]_vars => Consistent'
  <1> SUFFICES ASSUME Consistent, [Next]_vars PROVE Consistent'
    OBVIOUS
  <1>1. CASE Next
    BY <1>1, EngagementStepConsistent, JobStepConsistent, PollStepConsistent DEF Next
  <1>2. CASE UNCHANGED vars
    BY <1>2 DEF Consistent, TypeOK, StopWorkLeavesNoneActive, ExecutionAgreesWithJob,
                ChargeMatchesSnapshot, vars, engagementVars, policyVars, ledgerVars, jobVars,
                executionVars, pollVars
  <1> QED
    BY <1>1, <1>2

\* The initial state is consistent.
LEMMA InitConsistent == Init => Consistent
  <1>1. Init => TypeOK
    BY InitType
  <1> QED
    BY <1>1 DEF Init, NewEngagement, NoPolicy, Consistent, StopWorkLeavesNoneActive,
                ExecutionAgreesWithJob, ChargeMatchesSnapshot, Open, Terminal, Finished

\* Consistent holds initially, is preserved by every step, and therefore always holds.
THEOREM AlwaysConsistent == Spec => []Consistent
  BY InitConsistent, StepConsistent, PTL DEF Spec

-------------------------------------------------------------------------------
(* The concurrency budget implements CapacityPool.                         *)

poolVars == <<concurrency_limit, Reserved>>

\* The pool's instance of FiniteSets counts as FiniteSets does.
LEMMA PoolCardinality == \A S : Pool!Cardinality(S) = Cardinality(S)
  BY DEF Pool!Cardinality, Cardinality

\* Handlers of the engagement resize an empty pool or leave it alone.
LEMMA EngagementStepPool ==
    ASSUME Consistent, EngagementStep
    PROVE  [Pool!Next]_poolVars
  <1> USE DEF poolVars, Reserved, engagementVars, policyVars, jobVars, executionVars
  <1>1. ASSUME NEW v \in Version, EditCase(v) PROVE UNCHANGED poolVars
    BY <1>1 DEF EditCase
  <1>2. CASE DeleteCase
    BY <1>2 DEF DeleteCase
  <1>3. CASE EngageStopWork
    BY <1>3 DEF EngageStopWork
  <1>4. CASE ReleaseStopWork
    BY <1>4 DEF ReleaseStopWork
  <1>5. ASSUME NEW l \in ConcLimit, ConfigureConcurrency(l) PROVE Pool!Resize
    <2>1. l \in (Nat \ {0}) \union {None}
      BY LimitAssumption DEF LimitAssumption, Limits
    <2> QED
      BY <1>5, <2>1 DEF ConfigureConcurrency, Idle, Pool!Resize
  <1>6. ASSUME NEW l \in TargetLimit, ConfigureTargets(l) PROVE UNCHANGED poolVars
    BY <1>6 DEF ConfigureTargets
  <1>7. ASSUME NEW l \in DurationLimit, ConfigureDuration(l) PROVE UNCHANGED poolVars
    BY <1>7 DEF ConfigureDuration
  <1>8. CASE DeleteEngagement
    <2>1. Reserved = {}
      BY <1>8 DEF DeleteEngagement, Idle
    <2>2. \A k \in Job : ~capacity_reserved[k]
      BY <2>1
    <2>3. \A k \in Job : ~capacity_reserved'[k]
      BY <1>8, <2>2 DEF DeleteEngagement, DropRows
    <2>4. Reserved' = {}
      BY <2>3
    <2>5. concurrency_limit' = concurrency_limit
      BY <1>8 DEF DeleteEngagement
    <2> QED
      BY <2>1, <2>4, <2>5
  <1>9. ASSUME NEW c \in Chains, CreatePipeline(c) PROVE UNCHANGED poolVars
    BY <1>9 DEF CreatePipeline
  <1> QED
    BY <1>1, <1>2, <1>3, <1>4, <1>5, <1>6, <1>7, <1>8, <1>9 DEF EngagementStep, Pool!Next

\* A claim acquires at most one slot, an acknowledgement releases at most one, and no other
\* step on a job touches the pool.
LEMMA JobStepPool ==
    ASSUME Consistent, NEW j \in Job, JobStep(j)
    PROVE  [Pool!Next]_poolVars
  <1> USE DEF poolVars, Reserved, engagementVars, policyVars, jobVars, executionVars
  <1>0. capacity_reserved \in [Job -> BOOLEAN]
    BY DEF Consistent, TypeOK
  <1>1. ASSUME NEW parent \in Job \union {None}, CreateJob(j, parent) PROVE UNCHANGED poolVars
    BY <1>1 DEF CreateJob
  <1>2. CASE DeleteJob(j)
    <2>1. ~capacity_reserved[j]
      BY <1>2 DEF DeleteJob
    <2>2. capacity_reserved' = [k \in Job |-> IF k \in {j} THEN FALSE ELSE capacity_reserved[k]]
      BY <1>2 DEF DeleteJob, DropRows
    <2>3. \A k \in Job : capacity_reserved'[k] <=> capacity_reserved[k]
      BY <1>0, <2>1, <2>2
    <2> QED
      BY <1>2, <2>3 DEF DeleteJob
  <1>3. ASSUME NEW r \in Request, Claim(j, r) PROVE [Pool!Next]_poolVars
    <2>1. concurrency_limit' = concurrency_limit
      BY <1>3 DEF Claim, Issue
    <2>2. ~capacity_reserved[j]
      BY <1>3 DEF Claim, Issue, Consistent, ExecutionAgreesWithJob
    <2>3. CASE r.budget
      <3>1. r.owned /\ concurrency_limit # None /\ Cardinality(Reserved) < concurrency_limit
        BY <1>3, <2>3, RequestFields DEF Claim, Issue, BeforeClaim
      <3>2. capacity_reserved' = [capacity_reserved EXCEPT ![j] = TRUE]
        BY <1>3, <2>3, <3>1 DEF Claim, Issue
      <3>3. Reserved' = Reserved \union {j} /\ j \notin Reserved
        BY <1>0, <2>2, <3>2
      <3> QED
        BY <2>1, <3>1, <3>3, PoolCardinality DEF Pool!Next, Pool!Acquire
    <2>4. CASE ~r.budget
      <3>1. \/ capacity_reserved' = [capacity_reserved EXCEPT ![j] = FALSE]
            \/ capacity_reserved' = capacity_reserved
        BY <1>3, <2>4, RequestFields DEF Claim, Issue
      <3>2. \A k \in Job : capacity_reserved'[k] <=> capacity_reserved[k]
        BY <1>0, <2>2, <3>1
      <3> QED
        BY <2>1, <3>2
    <2> QED
      BY <2>3, <2>4
  <1>4. ASSUME NEW new \in Row, UpdateJob(j, new) PROVE UNCHANGED poolVars
    BY <1>4 DEF UpdateJob
  <1>5. CASE RequestCancel(j)
    BY <1>5 DEF RequestCancel
  <1>6. CASE Expire(j)
    BY <1>6 DEF Expire
  <1>7. CASE RefreshExecution(j)
    BY <1>7 DEF RefreshExecution
  <1>8. CASE RefuseCompletion(j)
    BY <1>8 DEF RefuseCompletion
  <1>9. ASSUME NEW outcome \in Terminal \union {"uncertain"}, FinishExecution(j, outcome)
        PROVE [Pool!Next]_poolVars
    <2>1. concurrency_limit' = concurrency_limit
      BY <1>9 DEF FinishExecution
    <2>2. CASE outcome = "uncertain"
      BY <1>9, <2>1, <2>2 DEF FinishExecution
    <2>3. CASE outcome # "uncertain"
      <3>1. capacity_reserved' = [capacity_reserved EXCEPT ![j] = FALSE]
        BY <1>9, <2>3 DEF FinishExecution
      <3>2. Reserved' = Reserved \ {j}
        BY <1>0, <3>1
      <3>3. CASE j \in Reserved
        BY <2>1, <3>2, <3>3 DEF Pool!Next, Pool!Release
      <3>4. CASE j \notin Reserved
        BY <2>1, <3>2, <3>4
      <3> QED
        BY <3>3, <3>4
    <2> QED
      BY <2>2, <2>3
  <1> QED
    BY <1>1, <1>2, <1>3, <1>4, <1>5, <1>6, <1>7, <1>8, <1>9 DEF JobStep, OperatorStep, RunnerStep

\* No poll changes capacity, not even one that overwrites a running job's status.
LEMMA PollStepPool ==
    ASSUME NEW p \in Poller, PollStep(p)
    PROVE  UNCHANGED poolVars
  BY DEF PollStep, PollPending, PollParents, PollFailOrphans, PollFailCaseless, PollAbort,
         poolVars, Reserved, engagementVars, policyVars, executionVars

\* Every step of the system is a step of the pool or leaves it alone.
LEMMA CapacityStep == Consistent /\ [Next]_vars => [Pool!Next]_poolVars
  <1> SUFFICES ASSUME Consistent, [Next]_vars PROVE [Pool!Next]_poolVars
    OBVIOUS
  <1>1. CASE Next
    BY <1>1, EngagementStepPool, JobStepPool, PollStepPool DEF Next
  <1>2. CASE UNCHANGED vars
    BY <1>2 DEF vars, engagementVars, policyVars, executionVars, poolVars, Reserved
  <1> QED
    BY <1>1, <1>2

\* Refinement: the handlers that reserve, release and resize capacity implement the pool.
THEOREM CapacityRefinement == Spec => ImplementsCapacityPool
  <1>1. Init => Pool!Init
    BY DEF Init, NewEngagement, NoPolicy, Pool!Init, Reserved
  <1> QED
    BY <1>1, CapacityStep, AlwaysConsistent, PTL
    DEF Spec, ImplementsCapacityPool, Pool!Spec, poolVars

\* One step of the pool keeps the number of reserved slots within the limit.
LEMMA PoolStepWithinLimit ==
    ASSUME Consistent, CapacityWithinLimit, [Pool!Next]_poolVars
    PROVE  CapacityWithinLimit'
  <1> USE DEF CapacityWithinLimit, poolVars
  <1>1. IsFiniteSet(Reserved) /\ Cardinality(Reserved) \in Nat
    BY JobAssumption, FS_Subset, FS_CardinalityType DEF JobAssumption, Reserved
  <1>2. concurrency_limit \in Nat \union {None}
    BY LimitAssumption DEF Consistent, TypeOK, LimitAssumption, Limits
  <1>3. CASE Pool!Resize
    <2>1. Reserved' = {} /\ concurrency_limit' \in Nat \union {None} /\ concurrency_limit' # 0
      BY <1>3, LimitAssumption DEF Pool!Resize, LimitAssumption
    <2>2. Cardinality(Reserved') = 0
      BY <2>1, FS_EmptySet
    <2> QED
      BY <2>1, <2>2
  <1>4. ASSUME NEW h \in Job, Pool!Acquire(h) PROVE CapacityWithinLimit'
    <2>1. Cardinality(Reserved \union {h}) = Cardinality(Reserved) + 1
      BY <1>1, <1>4, FS_AddElement DEF Pool!Acquire
    <2> QED
      BY <1>1, <1>2, <1>4, <2>1, PoolCardinality DEF Pool!Acquire
  <1>5. ASSUME NEW h \in Job, Pool!Release(h) PROVE CapacityWithinLimit'
    <2>1. Cardinality(Reserved \ {h}) = Cardinality(Reserved) - 1
      BY <1>1, <1>5, FS_RemoveElement DEF Pool!Release
    <2> QED
      BY <1>1, <1>2, <1>5, <2>1 DEF Pool!Release
  <1>6. CASE UNCHANGED poolVars
    BY <1>6
  <1> QED
    BY <1>3, <1>4, <1>5, <1>6 DEF Pool!Next

-------------------------------------------------------------------------------
(* The target and duration budgets implement BudgetLedger.                 *)

targetVars == <<target_limit, targets_spent>>
durationVars == <<duration_limit, duration_allocated>>

\* A claim charges each account within its limit or not at all.
LEMMA ClaimLedger ==
    ASSUME Consistent, NEW j \in Job, NEW r \in Request, Claim(j, r)
    PROVE  [Targets!Next]_targetVars /\ [Duration!Next]_durationVars
  <1> USE DEF targetVars, durationVars, policyVars
  <1>1. targets_spent \in Nat /\ duration_allocated \in Nat
    BY DEF Consistent, TypeOK
  <1>2. TargetCount(r) \in Nat /\ Allocation(r) \in Nat
    BY ChargesAreNatural DEF Claim, Issue, Consistent
  <1>3. [Targets!Next]_targetVars
    <2>1. CASE target_limit = None
      BY <1>1, <2>1 DEF Claim, Issue, TargetCount
    <2>2. CASE target_limit # None
      <3>1. /\ target_limit' = target_limit
            /\ targets_spent' = targets_spent + TargetCount(r)
            /\ TargetCount(r) > 0
            /\ targets_spent + TargetCount(r) <= target_limit
        BY <2>2 DEF Claim, Issue, TargetCount, ChargeOk
      <3> QED
        BY <1>1, <1>2, <2>2, <3>1 DEF Targets!Next, Targets!Charge
    <2> QED
      BY <2>1, <2>2
  <1>4. [Duration!Next]_durationVars
    <2>1. CASE duration_limit = None
      BY <1>1, <2>1 DEF Claim, Issue, Allocation
    <2>2. CASE duration_limit # None
      <3>1. /\ duration_limit' = duration_limit
            /\ duration_allocated' = duration_allocated + Allocation(r)
            /\ duration_allocated + Allocation(r) <= duration_limit
        BY <2>2 DEF Claim, Issue, Allocation, AllocateOk
      <3> QED
        BY <1>1, <1>2, <2>2, <3>1 DEF Duration!Next, Duration!Charge
    <2> QED
      BY <2>1, <2>2
  <1> QED
    BY <1>3, <1>4

\* Apart from claims, only the policy handlers touch an account, and only its limit.
LEMMA StepLedger ==
    ASSUME Consistent, [Next]_vars
    PROVE  [Targets!Next]_targetVars /\ [Duration!Next]_durationVars
  <1> USE DEF targetVars, durationVars, engagementVars, policyVars, ledgerVars
  <1>1. CASE EngagementStep
    <2>1. ASSUME NEW l \in TargetLimit, ConfigureTargets(l)
          PROVE  Targets!Next /\ UNCHANGED durationVars
      BY <2>1, LimitAssumption
      DEF ConfigureTargets, Covers, Targets!Next, Targets!SetLimit, LimitAssumption, Limits
    <2>2. ASSUME NEW l \in DurationLimit, ConfigureDuration(l)
          PROVE  Duration!Next /\ UNCHANGED targetVars
      BY <2>2, LimitAssumption
      DEF ConfigureDuration, Covers, Duration!Next, Duration!SetLimit, LimitAssumption, Limits
    <2>3. CASE \/ \E v \in Version : EditCase(v)
               \/ DeleteCase \/ EngageStopWork \/ ReleaseStopWork \/ DeleteEngagement
               \/ \E l \in ConcLimit : ConfigureConcurrency(l)
               \/ \E c \in Chains : CreatePipeline(c)
      BY <2>3 DEF EditCase, DeleteCase, EngageStopWork, ReleaseStopWork, DeleteEngagement,
                  ConfigureConcurrency, CreatePipeline
    <2> QED
      BY <1>1, <2>1, <2>2, <2>3 DEF EngagementStep
  <1>2. ASSUME NEW j \in Job, JobStep(j)
        PROVE  [Targets!Next]_targetVars /\ [Duration!Next]_durationVars
    <2>1. CASE \E r \in Request : Claim(j, r)
      BY <2>1, ClaimLedger
    <2>2. CASE \/ \E parent \in Job \union {None} : CreateJob(j, parent)
               \/ DeleteJob(j) \/ \E new \in Row : UpdateJob(j, new)
               \/ RequestCancel(j) \/ Expire(j) \/ RefreshExecution(j) \/ RefuseCompletion(j)
               \/ \E outcome \in Terminal \union {"uncertain"} : FinishExecution(j, outcome)
      BY <2>2 DEF CreateJob, DeleteJob, UpdateJob, RequestCancel, Expire, RefreshExecution,
                  RefuseCompletion, FinishExecution
    <2> QED
      BY <1>2, <2>1, <2>2 DEF JobStep, OperatorStep, RunnerStep
  <1>3. ASSUME NEW p \in Poller, PollStep(p) PROVE UNCHANGED <<targetVars, durationVars>>
    BY <1>3 DEF PollStep, PollPending, PollParents, PollFailOrphans, PollFailCaseless, PollAbort
  <1>4. CASE UNCHANGED vars
    BY <1>4 DEF vars
  <1> QED
    BY <1>1, <1>2, <1>3, <1>4 DEF Next

\* Refinement: target charges behave as a growing account under a policy.
THEOREM TargetRefinement == Spec => ImplementsTargetLedger
  <1>1. Init => Targets!Init
    BY DEF Init, NewEngagement, NoPolicy, Targets!Init
  <1>2. Consistent /\ [Next]_vars => [Targets!Next]_targetVars
    BY StepLedger
  <1> QED
    BY <1>1, <1>2, AlwaysConsistent, PTL DEF Spec, ImplementsTargetLedger, Targets!Spec, targetVars

\* Refinement: duration allocations behave as a growing account under a policy.
THEOREM DurationRefinement == Spec => ImplementsDurationLedger
  <1>1. Init => Duration!Init
    BY DEF Init, NewEngagement, NoPolicy, Duration!Init
  <1>2. Consistent /\ [Next]_vars => [Duration!Next]_durationVars
    BY StepLedger
  <1> QED
    BY <1>1, <1>2, AlwaysConsistent, PTL
    DEF Spec, ImplementsDurationLedger, Duration!Spec, durationVars

\* One step of the accounts keeps the charges covered by the policies in force.
LEMMA LedgerStepCovered ==
    ASSUME ChargesCovered, [Targets!Next]_targetVars, [Duration!Next]_durationVars
    PROVE  ChargesCovered'
  <1>1. Covers(target_limit, targets_spent)'
    BY LimitAssumption DEF ChargesCovered, Covers, targetVars, Targets!Next, Targets!SetLimit,
       Targets!Charge, LimitAssumption
  <1>2. Covers(duration_limit, duration_allocated)'
    BY LimitAssumption DEF ChargesCovered, Covers, durationVars, Duration!Next, Duration!SetLimit,
       Duration!Charge, LimitAssumption
  <1> QED
    BY <1>1, <1>2 DEF ChargesCovered

-------------------------------------------------------------------------------
(* The safety properties the runs check.                                   *)

\* Budgets are never overrun, stop-work leaves nothing active, and job, execution and charge
\* records agree, in every reachable state of every instance.
THEOREM Safety == Spec => []RowsAgree
  <1>1. Init => CapacityWithinLimit /\ ChargesCovered
    BY DEF Init, NewEngagement, NoPolicy, CapacityWithinLimit, ChargesCovered, Covers, Reserved
  <1>2. Consistent /\ CapacityWithinLimit /\ [Next]_vars => CapacityWithinLimit'
    BY CapacityStep, PoolStepWithinLimit
  <1>3. Consistent /\ ChargesCovered /\ [Next]_vars => ChargesCovered'
    BY StepLedger, LedgerStepCovered
  <1>4. Consistent => /\ StopWorkLeavesNoneActive
                      /\ ExecutionAgreesWithJob
                      /\ ChargeMatchesSnapshot
    BY DEF Consistent
  <1>5. TypeOK /\ CapacityWithinLimit /\ ChargesCovered /\ Consistent => RowsAgree
    BY <1>4 DEF RowsAgree
  <1> QED
    BY <1>1, <1>2, <1>3, <1>5, AlwaysConsistent, TypeCorrect, PTL DEF Spec

\* The three refinements together: the budgets implement their abstract specifications.
THEOREM BudgetRefinement == Spec => ImplementsBudgets
  BY CapacityRefinement, TargetRefinement, DurationRefinement DEF ImplementsBudgets

-------------------------------------------------------------------------------
(* What a step may never do.                                               *)

Revives(j) ==
    \/ state[j] \notin {"none", "active"} /\ state'[j] = "active"
    \/ state[j] \in Terminal /\ state'[j] \notin {state[j], "none"}
    \/ /\ state'[j] = "completed" /\ state[j] # "completed"
       /\ ~(state[j] = "active" /\ ~expired[j] /\ ~stop_work)

\* A step on one job revives neither its own attempt nor another one.
LEMMA JobStepRevivesNone ==
    ASSUME Consistent, NEW j \in Job, JobStep(j), NEW k \in Job
    PROVE  ~Revives(k)
  <1> USE DEF Revives, Terminal, executionVars
  <1>0. state \in [Job -> State]
    BY DEF Consistent, TypeOK
  <1>1. CASE \/ \E parent \in Job \union {None} : CreateJob(j, parent)
             \/ \E new \in Row : UpdateJob(j, new)
             \/ Expire(j)
    BY <1>1 DEF CreateJob, UpdateJob, Expire
  <1>2. CASE DeleteJob(j)
    BY <1>0, <1>2 DEF DeleteJob, DropRows
  <1>3. ASSUME NEW r \in Request, Claim(j, r) PROVE ~Revives(k)
    <2>1. state[j] = "none"
      BY <1>0, <1>3 DEF Claim, Issue, Consistent, ExecutionAgreesWithJob, State, Open, Finished
    <2>2. state' = state \/ state' = [state EXCEPT ![j] = "active"]
      BY <1>3 DEF Claim, Issue
    <2> QED
      BY <1>0, <2>1, <2>2
  <1>4. CASE RequestCancel(j) \/ RefreshExecution(j) \/ RefuseCompletion(j)
    BY <1>0, <1>4 DEF RequestCancel, RefreshExecution, RefuseCompletion, Open
  <1>5. ASSUME NEW outcome \in Terminal \union {"uncertain"}, FinishExecution(j, outcome)
        PROVE  ~Revives(k)
    BY <1>0, <1>5 DEF FinishExecution, Open, MayComplete
  <1> QED
    BY <1>1, <1>2, <1>3, <1>4, <1>5 DEF JobStep, OperatorStep, RunnerStep

\* ADR 0006: an attempt that expired, was asked to stop or was acknowledged never runs again.
THEOREM NoRevival == Spec => AttemptNeverRevives
  <1>1. Consistent /\ [Next]_vars => \A k \in Job : ~Revives(k)
    <2> SUFFICES ASSUME Consistent, [Next]_vars, NEW k \in Job PROVE ~Revives(k)
      OBVIOUS
    <2> USE DEF Revives, Terminal, executionVars
    <2>0. state \in [Job -> State]
      BY DEF Consistent, TypeOK
    <2>1. CASE EngagementStep
      BY <2>0, <2>1 DEF EngagementStep, EditCase, DeleteCase, EngageStopWork, ReleaseStopWork,
         ConfigureConcurrency, ConfigureTargets, ConfigureDuration, DeleteEngagement, DropRows,
         CreatePipeline
    <2>2. ASSUME NEW j \in Job, JobStep(j) PROVE ~Revives(k)
      BY <2>2, JobStepRevivesNone
    <2>3. ASSUME NEW p \in Poller, PollStep(p) PROVE ~Revives(k)
      BY <2>3 DEF PollStep, PollPending, PollParents, PollFailOrphans, PollFailCaseless, PollAbort
    <2>4. CASE UNCHANGED vars
      BY <2>4 DEF vars
    <2> QED
      BY <2>1, <2>2, <2>3, <2>4 DEF Next
  <1>2. (\A k \in Job : ~Revives(k)) =>
          [\A j \in Job :
              /\ state[j] \notin {"none", "active"} => state'[j] # "active"
              /\ state[j] \in Terminal => state'[j] \in {state[j], "none"}
              /\ state'[j] = "completed" /\ state[j] # "completed" =>
                    state[j] = "active" /\ ~expired[j] /\ ~stop_work]_vars
    BY DEF Revives
  <1> QED
    BY <1>1, <1>2, AlwaysConsistent, PTL DEF Spec, AttemptNeverRevives

\* The engagement row is only deleted with both accounts at zero.
LEMMA DeletedOnlyUncharged ==
    ASSUME [Next]_vars, engagement = "open", engagement' = "deleted"
    PROVE  targets_spent = 0 /\ duration_allocated = 0
  <1> USE DEF engagementVars
  <1>1. CASE EngagementStep
    BY <1>1 DEF EngagementStep, EditCase, DeleteCase, EngageStopWork, ReleaseStopWork,
       ConfigureConcurrency, ConfigureTargets, ConfigureDuration, DeleteEngagement, CreatePipeline
  <1>2. ASSUME NEW j \in Job, JobStep(j) PROVE FALSE
    BY <1>2 DEF JobStep, OperatorStep, RunnerStep, CreateJob, DeleteJob, Claim, Issue, UpdateJob, RequestCancel, Expire,
       RefreshExecution, RefuseCompletion, FinishExecution
  <1>3. ASSUME NEW p \in Poller, PollStep(p) PROVE FALSE
    BY <1>3 DEF PollStep, PollPending, PollParents, PollFailOrphans, PollFailCaseless, PollAbort
  <1>4. CASE UNCHANGED vars
    BY <1>4 DEF vars
  <1> QED
    BY <1>1, <1>2, <1>3, <1>4 DEF Next

\* Charges are never refunded, and an engagement that has any is never deleted.
THEOREM ChargesAreFinal == Spec => AccountingNeverErased
  <1>1. Consistent /\ [Next]_vars =>
          [/\ targets_spent' >= targets_spent
           /\ duration_allocated' >= duration_allocated
           /\ engagement' = "deleted" /\ engagement = "open" =>
                 targets_spent = 0 /\ duration_allocated = 0]_vars
    <2> SUFFICES ASSUME Consistent, [Next]_vars
                 PROVE  /\ targets_spent' >= targets_spent
                        /\ duration_allocated' >= duration_allocated
                        /\ engagement' = "deleted" /\ engagement = "open" =>
                              targets_spent = 0 /\ duration_allocated = 0
      OBVIOUS
    <2>1. targets_spent \in Nat /\ duration_allocated \in Nat
      BY DEF Consistent, TypeOK
    <2>2. targets_spent' >= targets_spent
      BY <2>1, StepLedger DEF targetVars, Targets!Next, Targets!SetLimit, Targets!Charge
    <2>3. duration_allocated' >= duration_allocated
      BY <2>1, StepLedger DEF durationVars, Duration!Next, Duration!SetLimit, Duration!Charge
    <2> QED
      BY <2>2, <2>3, DeletedOnlyUncharged
  <1> QED
    BY <1>1, AlwaysConsistent, PTL DEF Spec, AccountingNeverErased

-------------------------------------------------------------------------------
(* Sums of charges.  A sum over the jobs is taken one job at a time; what  *)
(* holds of it is shown for every set of jobs, by its size.                *)

\* A set of naturals that is not empty has a least element.
LEMMA LeastNatural ==
    ASSUME NEW S \in SUBSET Nat, S # {}
    PROVE  \E x \in S : \A y \in S : x <= y
  <1> DEFINE R == OpToRel(<, Nat)
  <1>1. IsWellFoundedOn(R, Nat)
    BY NatLessThanWellFounded
  <1>2. \A x, y \in Nat : x < y => <<x, y>> \in R
    BY DEF OpToRel
  <1> HIDE DEF R
  <1>3. PICK x \in S : \A y \in S : ~(<<y, x>> \in R)
    BY <1>1, WFMin
  <1>4. ASSUME NEW y \in S PROVE x <= y
    <2>1. x \in Nat /\ y \in Nat
      OBVIOUS
    <2>2. ~(y < x)
      BY <1>2, <1>3, <2>1
    <2> QED
      BY <2>1, <2>2
  <1> QED
    BY <1>4

\* The sum of charges c over T, given the sums f over smaller sets: one job is taken out.
OneOf(T) == CHOOSE x \in T : TRUE
SumStep(c, f, T) == IF T = {} THEN 0 ELSE c[OneOf(T)] + f[T \ {OneOf(T)}]

\* f is the sum over every set of jobs with at most n members.
SetsUpTo(n) == {T \in SUBSET Job : Cardinality(T) <= n}
SumsUpTo(f, c, n) ==
    f \in [SetsUpTo(n) -> Nat] /\ \A T \in SetsUpTo(n) : f[T] = SumStep(c, f, T)

\* Taking a job out of a set leaves a set with one member less.
LEMMA TakeOne ==
    ASSUME NEW T \in SUBSET Job, T # {}
    PROVE  /\ IsFiniteSet(T) /\ Cardinality(T) \in Nat /\ Cardinality(T) >= 1
           /\ OneOf(T) \in T /\ OneOf(T) \in Job /\ T \ {OneOf(T)} \in SUBSET Job
           /\ Cardinality(T \ {OneOf(T)}) = Cardinality(T) - 1
  <1>1. IsFiniteSet(T) /\ Cardinality(T) \in Nat
    BY JobAssumption, FS_Subset, FS_CardinalityType DEF JobAssumption
  <1>2. OneOf(T) \in T
    BY DEF OneOf
  <1>3. Cardinality(T \ {OneOf(T)}) = Cardinality(T) - 1 /\ Cardinality(T \ {OneOf(T)}) \in Nat
    BY <1>1, <1>2, FS_RemoveElement, FS_CardinalityType
  <1> QED
    BY <1>1, <1>2, <1>3

\* ... which is among the sets of at most one member less.
LEMMA TakeOneUpTo ==
    ASSUME NEW n \in Nat, NEW T \in SetsUpTo(n), T # {}
    PROVE  /\ n >= 1 /\ OneOf(T) \in Job
           /\ T \ {OneOf(T)} \in SetsUpTo(n) /\ T \ {OneOf(T)} \in SetsUpTo(n - 1)
  <1>1. T \in SUBSET Job /\ Cardinality(T) <= n
    BY DEF SetsUpTo
  <1>2. /\ Cardinality(T) \in Nat /\ Cardinality(T) >= 1
        /\ OneOf(T) \in Job /\ T \ {OneOf(T)} \in SUBSET Job
        /\ Cardinality(T \ {OneOf(T)}) = Cardinality(T) - 1
    BY <1>1, TakeOne
  <1>3. Cardinality(T \ {OneOf(T)}) <= n - 1 /\ Cardinality(T \ {OneOf(T)}) <= n /\ n >= 1
    BY <1>1, <1>2
  <1> QED
    BY <1>2, <1>3 DEF SetsUpTo

\* Sums of natural charges exist, for sets of every size.
LEMMA SumsExist ==
    ASSUME NEW c \in [Job -> Nat], NEW n \in Nat
    PROVE  \E f : SumsUpTo(f, c, n)
  <1> DEFINE Bad == {m \in Nat : ~\E f : SumsUpTo(f, c, m)}
  <1>1. ASSUME NEW m \in Nat, \A k \in Bad : m <= k
        PROVE  \E f : SumsUpTo(f, c, m)
    <2>1. PICK f : \A T \in SetsUpTo(m) : T # {} =>
                       /\ T \ {OneOf(T)} \in SetsUpTo(m - 1)
                       /\ f[T \ {OneOf(T)}] \in Nat
                       /\ f[T \ {OneOf(T)}] = SumStep(c, f, T \ {OneOf(T)})
      <3>1. CASE m = 0
        <4>1. ASSUME NEW T \in SetsUpTo(m), T # {} PROVE FALSE
          <5>1. m >= 1
            BY <4>1, TakeOneUpTo
          <5> QED
            BY <3>1, <5>1
        <4> QED
          BY <4>1
      <3>2. CASE m # 0
        <4>1. m - 1 \in Nat /\ m - 1 \notin Bad
          BY <1>1, <3>2
        <4>2. PICK f : SumsUpTo(f, c, m - 1)
          BY <4>1
        <4>3. ASSUME NEW T \in SetsUpTo(m), T # {} PROVE T \ {OneOf(T)} \in SetsUpTo(m - 1)
          BY <4>3, TakeOneUpTo
        <4> QED
          BY <4>2, <4>3 DEF SumsUpTo
      <3> QED
        BY <3>1, <3>2
    <2> DEFINE g == [T \in SetsUpTo(m) |-> SumStep(c, f, T)]
    <2>2. ASSUME NEW T \in SetsUpTo(m)
          PROVE  g[T] \in Nat /\ g[T] = SumStep(c, g, T)
      <3>1. CASE T = {}
        BY <3>1 DEF SumStep
      <3>2. CASE T # {}
        <4>1. T \ {OneOf(T)} \in SetsUpTo(m) /\ c[OneOf(T)] \in Nat
          BY <3>2, TakeOneUpTo
        <4>2. g[T \ {OneOf(T)}] = f[T \ {OneOf(T)}]
          BY <2>1, <3>2, <4>1
        <4>3. g[T] = c[OneOf(T)] + f[T \ {OneOf(T)}]
          BY <3>2 DEF SumStep
        <4>4. f[T \ {OneOf(T)}] \in Nat
          BY <2>1, <3>2
        <4>5. SumStep(c, g, T) = c[OneOf(T)] + g[T \ {OneOf(T)}]
          BY <3>2 DEF SumStep
        <4> HIDE DEF g
        <4> QED
          BY <4>1, <4>2, <4>3, <4>4, <4>5
      <3> QED
        BY <3>1, <3>2
    <2>3. g \in [SetsUpTo(m) -> Nat]
      BY <2>2
    <2> HIDE DEF g
    <2> QED
      BY <2>2, <2>3 DEF SumsUpTo
  <1>2. Bad = {}
    <2> SUFFICES ASSUME Bad # {} PROVE FALSE
      OBVIOUS
    <2>1. PICK m \in Bad : \A k \in Bad : m <= k
      BY LeastNatural
    <2> QED
      BY <1>1, <2>1
  <1> QED
    BY <1>2

\* The sum the property takes is a sum in this sense.
LEMMA TotalIsSum ==
    ASSUME NEW c \in [Job -> Nat]
    PROVE  \E f \in [SUBSET Job -> Nat] :
               Total(c) = f[Job] /\ \A T \in SUBSET Job : f[T] = SumStep(c, f, T)
  <1> DEFINE Sums(f) == [T \in SUBSET Job |->
                            IF T = {} THEN 0
                            ELSE LET x == CHOOSE x \in T : TRUE IN c[x] + f[T \ {x}]]
             sum == CHOOSE f : f = Sums(f)
  <1>1. SetsUpTo(Cardinality(Job)) = SUBSET Job /\ Cardinality(Job) \in Nat
    BY JobAssumption, FS_Subset, FS_CardinalityType DEF JobAssumption, SetsUpTo
  <1>2. PICK f : SumsUpTo(f, c, Cardinality(Job))
    BY <1>1, SumsExist
  <1>3. f = Sums(f)
    BY <1>1, <1>2 DEF SumsUpTo, SumStep, OneOf
  <1>4. sum = Sums(sum)
    BY <1>3
  <1>5. Total(c) = sum[Job]
    BY DEF Total, MapThenSumSet, MapThenFoldSet
  <1> HIDE DEF sum
  <1>6. DOMAIN sum = SUBSET Job /\ sum = [T \in SUBSET Job |-> sum[T]]
    BY <1>4
  <1>7. \A T \in SUBSET Job : sum[T] = SumStep(c, sum, T)
    BY <1>4 DEF SumStep, OneOf
  <1> HIDE DEF Sums
  <1> DEFINE Bad == {n \in Nat : \E T \in SUBSET Job : Cardinality(T) = n /\ sum[T] \notin Nat}
  <1>8. ASSUME NEW T \in SUBSET Job, \A n \in Bad : Cardinality(T) <= n PROVE sum[T] \in Nat
    <2>1. CASE T = {}
      <3>1. sum[T] = SumStep(c, sum, T)
        BY <1>7
      <3> QED
        BY <2>1, <3>1 DEF SumStep
    <2>2. CASE T # {}
      <3> DEFINE U == T \ {OneOf(T)}
      <3>1. /\ OneOf(T) \in Job /\ U \in SUBSET Job /\ Cardinality(T) \in Nat
            /\ Cardinality(T) >= 1 /\ Cardinality(U) = Cardinality(T) - 1
        BY <2>2, TakeOne
      <3>2. sum[T] = SumStep(c, sum, T)
        BY <1>7
      <3>3. sum[T] = c[OneOf(T)] + sum[U]
        BY <2>2, <3>2 DEF SumStep
      <3> HIDE DEF U
      <3>4. Cardinality(U) \in Nat /\ Cardinality(U) \notin Bad
        BY <1>8, <3>1
      <3>5. sum[U] \in Nat
        BY <3>1, <3>4
      <3> QED
        BY <3>1, <3>3, <3>5
    <2> QED
      BY <2>1, <2>2
  <1>9. Bad = {}
    <2> SUFFICES ASSUME Bad # {} PROVE FALSE
      OBVIOUS
    <2>1. PICK n \in Bad : \A k \in Bad : n <= k
      BY LeastNatural
    <2> QED
      BY <1>8, <2>1
  <1>10. ASSUME NEW T \in SUBSET Job PROVE sum[T] \in Nat
    <2>1. Cardinality(T) \in Nat
      BY JobAssumption, FS_Subset, FS_CardinalityType DEF JobAssumption
    <2> QED
      BY <1>9, <2>1
  <1>11. sum \in [SUBSET Job -> Nat]
    BY <1>6, <1>10
  <1> QED
    BY <1>5, <1>7, <1>11

\* When one charge grows by at most x and no other grows, neither does the sum by more than x.
LEMMA TotalGrows ==
    ASSUME NEW c \in [Job -> Nat], NEW d \in [Job -> Nat], NEW j, NEW x \in Nat,
           \A k \in Job : d[k] <= IF k = j THEN c[k] + x ELSE c[k]
    PROVE  /\ Total(c) \in Nat /\ Total(d) \in Nat
           /\ Total(d) <= Total(c) + x
           /\ j \notin Job => Total(d) <= Total(c)
  <1>1. PICK f \in [SUBSET Job -> Nat] :
            Total(c) = f[Job] /\ \A T \in SUBSET Job : f[T] = SumStep(c, f, T)
    BY TotalIsSum
  <1>2. PICK g \in [SUBSET Job -> Nat] :
            Total(d) = g[Job] /\ \A T \in SUBSET Job : g[T] = SumStep(d, g, T)
    BY TotalIsSum
  <1> DEFINE Within(T) == g[T] <= f[T] + IF j \in T THEN x ELSE 0
             Bad == {n \in Nat : \E T \in SUBSET Job : Cardinality(T) = n /\ ~Within(T)}
  <1>3. ASSUME NEW T \in SUBSET Job, \A n \in Bad : Cardinality(T) <= n PROVE Within(T)
    <2>1. CASE T = {}
      <3>1. f[T] = SumStep(c, f, T) /\ g[T] = SumStep(d, g, T)
        BY <1>1, <1>2
      <3> QED
        BY <2>1, <3>1 DEF SumStep
    <2>2. CASE T # {}
      <3> DEFINE i == OneOf(T)
                 U == T \ {i}
      <3>1. i \in T /\ i \in Job /\ U \in SUBSET Job /\ Cardinality(U) = Cardinality(T) - 1
            /\ Cardinality(T) \in Nat /\ Cardinality(T) >= 1
        BY <2>2, TakeOne
      <3>2. Within(U)
        BY <1>3, <3>1
      <3>3. f[T] = c[i] + f[U] /\ g[T] = d[i] + g[U]
        BY <1>1, <1>2, <2>2 DEF SumStep
      <3>4. /\ f[T] \in Nat /\ f[U] \in Nat /\ g[T] \in Nat /\ g[U] \in Nat
            /\ c[i] \in Nat /\ d[i] \in Nat /\ d[i] <= IF i = j THEN c[i] + x ELSE c[i]
        BY <3>1
      <3>5. i = j => j \in T /\ j \notin U
        BY <3>1
      <3>6. i # j => (j \in T <=> j \in U)
        OBVIOUS
      <3> HIDE DEF i, U
      <3> QED
        BY <3>2, <3>3, <3>4, <3>5, <3>6
    <2> QED
      BY <2>1, <2>2
  <1>4. Bad = {}
    <2> SUFFICES ASSUME Bad # {} PROVE FALSE
      OBVIOUS
    <2>1. PICK n \in Bad : \A k \in Bad : n <= k
      BY LeastNatural
    <2> QED
      BY <1>3, <2>1
  <1>5. Within(Job)
    BY <1>4, JobAssumption, FS_CardinalityType DEF JobAssumption
  <1> QED
    BY <1>1, <1>2, <1>5

\* What a step may do to charges and their account: one job's charge grows by x, no other
\* grows, and the account grows by x at least.
Accounted(charge, new, account, grown) ==
    \E j, x : /\ x \in Nat /\ grown >= account + x
              /\ \A k \in Job : new[k] <= IF k = j THEN charge[k] + x ELSE charge[k]

\* Such a step leaves the sum within the account.
LEMMA AccountedKeepsSum ==
    ASSUME NEW charge \in [Job -> Nat], NEW new \in [Job -> Nat],
           NEW account \in Nat, NEW grown \in Nat,
           Accounted(charge, new, account, grown), Total(charge) <= account
    PROVE  Total(new) <= grown
  <1>1. PICK j, x : /\ x \in Nat /\ grown >= account + x
                    /\ \A k \in Job : new[k] <= IF k = j THEN charge[k] + x ELSE charge[k]
    BY DEF Accounted
  <1>2. /\ Total(charge) \in Nat /\ Total(new) \in Nat
        /\ Total(new) <= Total(charge) + x
    BY <1>1, TotalGrows
  <1> QED
    BY <1>1, <1>2

\* Every step is such a step for both accounts: a claim charges its job what it adds to the
\* account, a deletion erases charges and refunds nothing, and no other step touches them.
LEMMA StepAccounted ==
    ASSUME Consistent, Consistent', [Next]_vars
    PROVE  /\ Accounted(target_charge, target_charge', targets_spent, targets_spent')
           /\ Accounted(duration_seconds, duration_seconds', duration_allocated, duration_allocated')
  <1>1. /\ target_charge \in [Job -> Nat] /\ target_charge' \in [Job -> Nat]
        /\ duration_seconds \in [Job -> Nat] /\ duration_seconds' \in [Job -> Nat]
        /\ targets_spent \in Nat /\ targets_spent' \in Nat
        /\ duration_allocated \in Nat /\ duration_allocated' \in Nat
    BY DEF Consistent, TypeOK
  <1>2. ASSUME NEW j \in Job, NEW r \in Request, Claim(j, r)
        PROVE  /\ Accounted(target_charge, target_charge', targets_spent, targets_spent')
               /\ Accounted(duration_seconds, duration_seconds', duration_allocated, duration_allocated')
    <2>1. TargetCount(r) \in Nat /\ Allocation(r) \in Nat
      BY <1>2, ChargesAreNatural DEF Claim, Issue, Consistent
    <2>2. /\ targets_spent' = targets_spent + TargetCount(r)
          /\ duration_allocated' = duration_allocated + Allocation(r)
          /\ target_charge' \in {target_charge, [target_charge EXCEPT ![j] = TargetCount(r)]}
          /\ duration_seconds' \in {duration_seconds, [duration_seconds EXCEPT ![j] = Allocation(r)]}
      BY <1>2 DEF Claim, Issue, executionVars
    <2>3. \A k \in Job : target_charge'[k] <=
              IF k = j THEN target_charge[k] + TargetCount(r) ELSE target_charge[k]
      BY <1>1, <2>1, <2>2
    <2>4. \A k \in Job : duration_seconds'[k] <=
              IF k = j THEN duration_seconds[k] + Allocation(r) ELSE duration_seconds[k]
      BY <1>1, <2>1, <2>2
    <2>5. targets_spent' >= targets_spent + TargetCount(r)
          /\ duration_allocated' >= duration_allocated + Allocation(r)
      BY <1>1, <2>1, <2>2
    <2> QED
      BY <2>1, <2>3, <2>4, <2>5 DEF Accounted
  <1>3. ASSUME /\ \A k \in Job : target_charge'[k] \in {0, target_charge[k]}
               /\ \A k \in Job : duration_seconds'[k] \in {0, duration_seconds[k]}
        PROVE  /\ Accounted(target_charge, target_charge', targets_spent, targets_spent')
               /\ Accounted(duration_seconds, duration_seconds', duration_allocated, duration_allocated')
    <2>1. targets_spent' >= targets_spent
      BY <1>1, StepLedger DEF targetVars, Targets!Next, Targets!SetLimit, Targets!Charge
    <2>2. duration_allocated' >= duration_allocated
      BY <1>1, StepLedger DEF durationVars, Duration!Next, Duration!SetLimit, Duration!Charge
    <2>3. targets_spent' >= targets_spent + 0 /\ duration_allocated' >= duration_allocated + 0
      BY <1>1, <2>1, <2>2
    <2>4. \A k \in Job : /\ target_charge'[k] <=
                                IF k = None THEN target_charge[k] + 0 ELSE target_charge[k]
                         /\ duration_seconds'[k] <=
                                IF k = None THEN duration_seconds[k] + 0 ELSE duration_seconds[k]
      BY <1>1, <1>3
    <2> QED
      BY <2>3, <2>4 DEF Accounted
  <1>4. ASSUME NEW J \in SUBSET Job, DropRows(J)
        PROVE  /\ \A k \in Job : target_charge'[k] \in {0, target_charge[k]}
               /\ \A k \in Job : duration_seconds'[k] \in {0, duration_seconds[k]}
    BY <1>4 DEF DropRows
  <1>5. CASE UNCHANGED <<target_charge, duration_seconds>>
    BY <1>3, <1>5
  <1>6. CASE EngagementStep
    <2>1. CASE DeleteEngagement
      BY <1>3, <1>4, <2>1 DEF DeleteEngagement
    <2>2. CASE ~DeleteEngagement
      BY <1>5, <1>6, <2>2 DEF EngagementStep, EditCase, DeleteCase, EngageStopWork, ReleaseStopWork,
         ConfigureConcurrency, ConfigureTargets, ConfigureDuration, CreatePipeline, executionVars
    <2> QED
      BY <2>1, <2>2
  <1>7. ASSUME NEW j \in Job, JobStep(j)
        PROVE  /\ Accounted(target_charge, target_charge', targets_spent, targets_spent')
               /\ Accounted(duration_seconds, duration_seconds', duration_allocated, duration_allocated')
    <2>1. CASE DeleteJob(j)
      BY <1>3, <1>4, <2>1 DEF DeleteJob
    <2>2. CASE \E r \in Request : Claim(j, r)
      BY <1>2, <2>2
    <2>3. CASE ~DeleteJob(j) /\ ~\E r \in Request : Claim(j, r)
      BY <1>5, <1>7, <2>3 DEF JobStep, OperatorStep, RunnerStep, CreateJob, UpdateJob, RequestCancel,
         Expire, RefreshExecution, RefuseCompletion, FinishExecution, executionVars
    <2> QED
      BY <2>1, <2>2, <2>3
  <1>8. ASSUME NEW p \in Poller, PollStep(p) PROVE UNCHANGED <<target_charge, duration_seconds>>
    BY <1>8 DEF PollStep, PollPending, PollParents, PollFailOrphans, PollFailCaseless, PollAbort,
       executionVars
  <1> QED
    BY <1>5, <1>6, <1>7, <1>8 DEF Next, vars, executionVars

\* At the start nothing is charged.
LEMMA InitialSum ==
    ASSUME Init
    PROVE  ChargesSumWithinAccount
  <1> DEFINE none == [j \in Job |-> 0]
  <1>1. /\ target_charge = none /\ duration_seconds = none
        /\ targets_spent = 0 /\ duration_allocated = 0
    BY DEF Init, NewEngagement
  <1>2. PICK f \in [SUBSET Job -> Nat] :
            Total(none) = f[Job] /\ \A T \in SUBSET Job : f[T] = SumStep(none, f, T)
    BY TotalIsSum
  <1> DEFINE Bad == {n \in Nat : \E T \in SUBSET Job : Cardinality(T) = n /\ f[T] # 0}
  <1>3. ASSUME NEW T \in SUBSET Job, \A n \in Bad : Cardinality(T) <= n PROVE f[T] = 0
    <2>1. f[T] = SumStep(none, f, T)
      BY <1>2
    <2>2. CASE T = {}
      BY <2>1, <2>2 DEF SumStep
    <2>3. CASE T # {}
      <3> DEFINE U == T \ {OneOf(T)}
      <3>1. /\ OneOf(T) \in Job /\ U \in SUBSET Job /\ Cardinality(T) \in Nat
            /\ Cardinality(T) >= 1 /\ Cardinality(U) = Cardinality(T) - 1
        BY <2>3, TakeOne
      <3>2. f[T] = 0 + f[U]
        BY <2>1, <2>3, <3>1 DEF SumStep
      <3> HIDE DEF U
      <3>3. Cardinality(U) \in Nat /\ Cardinality(U) \notin Bad
        BY <1>3, <3>1
      <3>4. f[U] = 0
        BY <3>1, <3>3
      <3> QED
        BY <3>2, <3>4
    <2> QED
      BY <2>2, <2>3
  <1>4. Bad = {}
    <2> SUFFICES ASSUME Bad # {} PROVE FALSE
      OBVIOUS
    <2>1. PICK n \in Bad : \A k \in Bad : n <= k
      BY LeastNatural
    <2> QED
      BY <1>3, <2>1
  <1>5. Total(none) = 0
    BY <1>2, <1>4, JobAssumption, FS_CardinalityType DEF JobAssumption
  <1> QED
    BY <1>1, <1>5 DEF ChargesSumWithinAccount

\* The charges of the attempts that still exist are covered by what was spent: claims charge
\* once, deletions refund nothing, for any number of jobs and any charges.
THEOREM ChargesTheorem == Spec => []ChargesSumWithinAccount
  <1>1. Init => ChargesSumWithinAccount
    BY InitialSum
  <1>2. ASSUME Consistent, Consistent', ChargesSumWithinAccount, [Next]_vars
        PROVE  ChargesSumWithinAccount'
    <2>1. /\ target_charge \in [Job -> Nat] /\ target_charge' \in [Job -> Nat]
          /\ duration_seconds \in [Job -> Nat] /\ duration_seconds' \in [Job -> Nat]
          /\ targets_spent \in Nat /\ targets_spent' \in Nat
          /\ duration_allocated \in Nat /\ duration_allocated' \in Nat
      BY <1>2 DEF Consistent, TypeOK
    <2>2. Total(target_charge) <= targets_spent /\ Total(duration_seconds) <= duration_allocated
      BY <1>2 DEF ChargesSumWithinAccount
    <2>3. Total(target_charge') <= targets_spent' /\ Total(duration_seconds') <= duration_allocated'
      BY <1>2, <2>1, <2>2, StepAccounted, AccountedKeepsSum
    <2> QED
      BY <2>3 DEF ChargesSumWithinAccount
  <1> QED
    BY <1>1, <1>2, AlwaysConsistent, PTL DEF Spec

-------------------------------------------------------------------------------
(* Recorded outcomes, when nobody polls: only the unlocked writes of       *)
(* GET /jobs/pending can rewrite them.                                     *)

Settled == \A j \in Job : state[j] \in Open => status[j] = "running"

KeptBy(j) ==
    /\ status[j] \in Finished => status'[j] \in {status[j], "deleted"}
    /\ status[j] = "running" /\ state[j] # "none" /\ status'[j] \in Finished =>
          state'[j] \in Terminal

\* Steps of the engagement's handlers keep outcomes.
LEMMA EngagementStepKeeps ==
    ASSUME Consistent, Settled, EngagementStep
    PROVE  Settled' /\ \A k \in Job : KeptBy(k)
  <1> USE DEF Settled, KeptBy, jobVars, executionVars, Finished
  <1>0. status \in [Job -> Status] /\ state \in [Job -> State]
    BY DEF Consistent, TypeOK
  <1>1. CASE \/ \E v \in Version : EditCase(v)
             \/ DeleteCase \/ ReleaseStopWork
             \/ \E l \in ConcLimit : ConfigureConcurrency(l)
             \/ \E l \in TargetLimit : ConfigureTargets(l)
             \/ \E l \in DurationLimit : ConfigureDuration(l)
    BY <1>1 DEF EditCase, DeleteCase, ReleaseStopWork, ConfigureConcurrency, ConfigureTargets,
       ConfigureDuration
  <1>2. CASE EngageStopWork
    BY <1>0, <1>2 DEF EngageStopWork, Open
  <1>3. CASE DeleteEngagement
    BY <1>0, <1>3 DEF DeleteEngagement, DropRows, Open
  <1>4. ASSUME NEW c \in Chains, CreatePipeline(c) PROVE Settled' /\ \A k \in Job : KeptBy(k)
    <2>1. \A k \in Job : (\E i \in DOMAIN c : c[i] = k) => status[k] = "absent"
      BY <1>4 DEF CreatePipeline, Queueable
    <2> QED
      BY <1>0, <1>4, <2>1 DEF CreatePipeline
  <1> QED
    BY <1>1, <1>2, <1>3, <1>4 DEF EngagementStep

\* Steps on a job keep outcomes: PATCH by its transition table, the owner's acknowledgement
\* because an unacknowledged attempt belongs to a running job.
LEMMA JobStepKeeps ==
    ASSUME Consistent, Settled, NEW j \in Job, JobStep(j)
    PROVE  Settled' /\ \A k \in Job : KeptBy(k)
  <1> USE DEF Settled, KeptBy, jobVars, executionVars, Finished
  <1>0. status \in [Job -> Status] /\ state \in [Job -> State]
    BY DEF Consistent, TypeOK
  <1>1. ASSUME NEW parent \in Job \union {None}, CreateJob(j, parent)
        PROVE  Settled' /\ \A k \in Job : KeptBy(k)
    BY <1>0, <1>1 DEF CreateJob, Queueable
  <1>2. CASE DeleteJob(j)
    BY <1>0, <1>2 DEF DeleteJob, DropRows, Open
  <1>3. ASSUME NEW r \in Request, Claim(j, r) PROVE Settled' /\ \A k \in Job : KeptBy(k)
    <2>1. state' = state \/ state' = [state EXCEPT ![j] = "active"]
      BY <1>3 DEF Claim, Issue
    <2>2. status[j] = "pending" /\ status' = [status EXCEPT ![j] = "running"]
      BY <1>3 DEF Claim, Issue
    <2> QED
      BY <1>0, <2>1, <2>2
  <1>4. ASSUME NEW new \in Row, UpdateJob(j, new) PROVE Settled' /\ \A k \in Job : KeptBy(k)
    <2>1. status[j] \in {"pending", "running"} /\ state[j] = "none"
      BY <1>4 DEF UpdateJob, Exists, PatchTransitions, Row
    <2> QED
      BY <1>0, <1>4, <2>1 DEF UpdateJob, Open
  <1>5. CASE RequestCancel(j) \/ Expire(j) \/ RefreshExecution(j) \/ RefuseCompletion(j)
    BY <1>0, <1>5 DEF RequestCancel, Expire, RefreshExecution, RefuseCompletion, Open
  <1>6. ASSUME NEW outcome \in Terminal \union {"uncertain"}, FinishExecution(j, outcome)
        PROVE  Settled' /\ \A k \in Job : KeptBy(k)
    <2>1. status[j] = "running"
      BY <1>6 DEF FinishExecution
    <2> QED
      BY <1>0, <1>6, <2>1 DEF FinishExecution, Open, Terminal
  <1> QED
    BY <1>1, <1>2, <1>3, <1>4, <1>5, <1>6 DEF JobStep, OperatorStep, RunnerStep

\* jobs.py and ADR 0006 hold of every handler but GET /jobs/pending: without pollers a finished
\* job never reopens and a controlled job stays running until its owner acknowledges.
THEOREM OutcomesKeptWithoutPolls ==
    ASSUME Poller = {}
    PROVE  Spec => OutcomesKept
  <1>1. Init => Settled
    BY DEF Init, NewEngagement, NoPolicy, Settled, Open
  <1>2. Consistent /\ Settled /\ [Next]_vars => Settled' /\ \A k \in Job : KeptBy(k)
    <2> SUFFICES ASSUME Consistent, Settled, [Next]_vars
                 PROVE  Settled' /\ \A k \in Job : KeptBy(k)
      OBVIOUS
    <2>1. CASE EngagementStep
      BY <2>1, EngagementStepKeeps
    <2>2. ASSUME NEW j \in Job, JobStep(j) PROVE Settled' /\ \A k \in Job : KeptBy(k)
      BY <2>2, JobStepKeeps
    <2>3. CASE UNCHANGED vars
      BY <2>3 DEF vars, jobVars, executionVars, Settled, KeptBy, Finished
    <2> QED
      BY <2>1, <2>2, <2>3 DEF Next
  <1>3. (\A k \in Job : KeptBy(k)) =>
          /\ [\A j \in Job : status[j] \in Finished => status'[j] \in {status[j], "deleted"}]_vars
          /\ [\A j \in Job :
                status[j] = "running" /\ state[j] # "none" /\ status'[j] \in Finished =>
                    state'[j] \in Terminal]_vars
    BY DEF KeptBy
  <1> QED
    BY <1>1, <1>2, <1>3, AlwaysConsistent, PTL
    DEF Spec, OutcomesKept, FinishedNeverReopens, ControlledJobStaysRunning
===============================================================================
