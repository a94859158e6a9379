------------------------------ MODULE JobControl ------------------------------
(***************************************************************************)
(* Scan jobs of one engagement, from creation to their outcome: the job    *)
(* queue, the claim, the opt-in execution lease, stop-work and the three   *)
(* budgets (backend/routers/jobs.py, execution_control.py,                 *)
(* concurrency_budget.py, target_budget.py, duration_budget.py and the     *)
(* policy handlers of routers/engagements.py).                             *)
(*                                                                         *)
(* Every handler that takes the engagement row lock (lock_job, lock, the   *)
(* claim) is one atomic step.  GET /jobs/pending takes no lock: it reads,  *)
(* then writes whole rows by primary key, and is split at every statement  *)
(* another transaction may commit before.                                  *)
(*                                                                         *)
(* Time: expires_at is compared with now() only, and a lease that was ever *)
(* expired is never extended, so a lease is its one bit "expired".         *)
(* managed_authority_revision and the jobs that need a managed             *)
(* authorization are added by ManagedControl.                              *)
(***************************************************************************)
EXTENDS Integers, FiniteSets, FiniteSetsExt

CONSTANTS
    Job,            \* identifiers of scan jobs (never reused)
    GateJob,        \* the jobs whose tool_type is vardrgate_api_test
    Poller,         \* clients of GET /jobs/pending
    Version,        \* contents the engagement's test case may hold
    Origins,        \* number of origins a content represents; 0: no binding
    ConcLimit,      \* values an owner may PUT as concurrency policy
    TargetLimit,    \* ... as target policy
    DurationLimit,  \* ... as duration policy
    Request,        \* the bodies runners send with a claim
    None            \* SQL NULL / Python None

Limits(S) == S \subseteq (Nat \ {0}) \union {None}

ASSUME JobAssumption == IsFiniteSet(Job) /\ GateJob \subseteq Job /\ None \notin Job
ASSUME VersionAssumption == None \notin Version /\ Origins \in [Version -> Nat]
ASSUME LimitAssumption == 
    /\ None \notin Int
    /\ Limits(ConcLimit) /\ Limits(TargetLimit) /\ Limits(DurationLimit)

\* What a claim opts into: an owned execution, a capacity slot, a target binding, a duration.
\* A claim without a body opts into nothing.
NoBody == [owned |-> FALSE, budget |-> FALSE, binding |-> None, seconds |-> None]
Body == [owned : {TRUE}, budget : BOOLEAN, binding : Version \union {None},
         seconds : (Nat \ {0}) \union {None}]

ASSUME RequestAssumption == Request \subseteq Body \union {NoBody}

VARIABLES
    engagement,         \* "open" until DELETE /engagements/{id}
    stop_work,          \* stop_work_at is not None
    concurrency_limit,
    target_limit, targets_spent,
    duration_limit, duration_allocated,
    spec,               \* content of the test case, None once deleted
    status,             \* ScanJob.status; "absent" and "deleted": no row
    depends_on,
    case_snapshot,
    state,              \* JobExecution.state; "none": no row
    expired,            \* JobExecution.expires_at <= now()
    capacity_reserved,
    target_charge,
    duration_seconds,
    pc, seen, doomed    \* a GET /jobs/pending request in progress

policyVars == <<concurrency_limit, target_limit, duration_limit>>
ledgerVars == <<targets_spent, duration_allocated>>
engagementVars == <<engagement, stop_work, policyVars, ledgerVars, spec>>
jobVars == <<status, depends_on, case_snapshot>>
executionVars == <<state, expired, capacity_reserved, target_charge, duration_seconds>>
pollVars == <<pc, seen, doomed>>
vars == <<engagementVars, jobVars, executionVars, pollVars>>

-------------------------------------------------------------------------------
Row == {"pending", "running", "done", "failed"}
Status == Row \union {"absent", "deleted"}
Finished == {"done", "failed"}
Terminal == {"completed", "failed", "cancelled"}
Open == {"active", "cancel_requested", "uncertain"}
State == {"none"} \union Open \union Terminal

TypeOK ==
    /\ engagement \in {"open", "deleted"}
    /\ stop_work \in BOOLEAN
    /\ concurrency_limit \in ConcLimit \union {None}
    /\ target_limit \in TargetLimit \union {None}
    /\ duration_limit \in DurationLimit \union {None}
    /\ targets_spent \in Nat
    /\ duration_allocated \in Nat
    /\ spec \in Version \union {None}
    /\ status \in [Job -> Status]
    /\ depends_on \in [Job -> Job \union {None}]
    /\ case_snapshot \in [Job -> Version \union {None}]
    /\ state \in [Job -> State]
    /\ expired \in [Job -> BOOLEAN]
    /\ capacity_reserved \in [Job -> BOOLEAN]
    /\ target_charge \in [Job -> Nat]
    /\ duration_seconds \in [Job -> Nat]
    /\ pc \in [Poller -> {"idle", "parents", "orphans", "cases"}]
    /\ seen \in [Poller -> SUBSET Job]
    /\ doomed \in [Poller -> SUBSET Job]

NewEngagement ==
    /\ engagement = "open"
    /\ stop_work = FALSE
    /\ targets_spent = 0
    /\ duration_allocated = 0
    /\ spec \in Version
    /\ status = [j \in Job |-> "absent"]
    /\ depends_on = [j \in Job |-> None]
    /\ case_snapshot = [j \in Job |-> None]
    /\ state = [j \in Job |-> "none"]
    /\ expired = [j \in Job |-> FALSE]
    /\ capacity_reserved = [j \in Job |-> FALSE]
    /\ target_charge = [j \in Job |-> 0]
    /\ duration_seconds = [j \in Job |-> 0]
    /\ pc = [p \in Poller |-> "idle"]
    /\ seen = [p \in Poller |-> {}]
    /\ doomed = [p \in Poller |-> {}]

NoPolicy == concurrency_limit = None /\ target_limit = None /\ duration_limit = None

Init == NewEngagement /\ NoPolicy

Exists(j) == status[j] \in Row

\* concurrency_budget.reserved counts these.
Reserved == {j \in Job : capacity_reserved[j]}

\* concurrency_budget.require_idle
Idle == Reserved = {} /\ \A j \in Job : status[j] # "running"

-------------------------------------------------------------------------------
(* Test case, stop-work and policies: handlers under the engagement lock.  *)

\* update_test_case with a spec
EditCase(v) ==
    /\ engagement = "open"
    /\ spec # None
    /\ spec' = v
    /\ UNCHANGED <<engagement, stop_work, policyVars, ledgerVars, jobVars, executionVars, pollVars>>

DeleteCase ==
    /\ engagement = "open"
    /\ spec # None
    /\ spec' = None
    /\ UNCHANGED <<engagement, stop_work, policyVars, ledgerVars, jobVars, executionVars, pollVars>>

\* Mutant of EngageStopWork: running attempts are left active.
StopNewWorkOnly ==
    /\ engagement = "open"
    /\ stop_work' = TRUE
    /\ UNCHANGED <<engagement, policyVars, ledgerVars, spec, jobVars, executionVars, pollVars>>

EngageStopWork ==
    /\ engagement = "open"
    /\ stop_work' = TRUE
    /\ state' = [j \in Job |-> IF state[j] = "active" THEN "cancel_requested" ELSE state[j]]
    /\ UNCHANGED <<engagement, policyVars, ledgerVars, spec, jobVars, expired,
                   capacity_reserved, target_charge, duration_seconds, pollVars>>

ReleaseStopWork ==
    /\ engagement = "open"
    /\ stop_work' = FALSE
    /\ UNCHANGED <<engagement, policyVars, ledgerVars, spec, jobVars, executionVars, pollVars>>

\* Mutant of ConfigureConcurrency: require_idle is not called.
ConfigureConcurrencyBusy(limit) ==
    /\ engagement = "open"
    /\ concurrency_limit' = limit
    /\ UNCHANGED <<engagement, stop_work, target_limit, duration_limit, ledgerVars, spec,
                   jobVars, executionVars, pollVars>>

ConfigureConcurrency(limit) ==
    /\ engagement = "open"
    /\ Idle
    /\ concurrency_limit' = limit
    /\ UNCHANGED <<engagement, stop_work, target_limit, duration_limit, ledgerVars, spec,
                   jobVars, executionVars, pollVars>>

\* What was charged can neither be reset nor disabled.
Covers(limit, charged) == IF limit = None THEN charged = 0 ELSE charged <= limit

\* Mutant of ConfigureTargets: a policy below what was spent is accepted.
ConfigureTargetsUnchecked(limit) ==
    /\ engagement = "open"
    /\ Idle
    /\ target_limit' = limit
    /\ UNCHANGED <<engagement, stop_work, concurrency_limit, duration_limit, ledgerVars, spec,
                   jobVars, executionVars, pollVars>>

ConfigureTargets(limit) ==
    /\ engagement = "open"
    /\ Idle
    /\ Covers(limit, targets_spent)
    /\ target_limit' = limit
    /\ UNCHANGED <<engagement, stop_work, concurrency_limit, duration_limit, ledgerVars, spec,
                   jobVars, executionVars, pollVars>>

ConfigureDuration(limit) ==
    /\ engagement = "open"
    /\ Idle
    /\ Covers(limit, duration_allocated)
    /\ duration_limit' = limit
    /\ UNCHANGED <<engagement, stop_work, concurrency_limit, target_limit, ledgerVars, spec,
                   jobVars, executionVars, pollVars>>

\* The rows of these jobs go, and their execution rows with them.
DropRows(J) ==
    /\ status' = [j \in Job |-> IF j \in J THEN "deleted" ELSE status[j]]
    /\ state' = [j \in Job |-> IF j \in J THEN "none" ELSE state[j]]
    /\ expired' = [j \in Job |-> IF j \in J THEN FALSE ELSE expired[j]]
    /\ capacity_reserved' = [j \in Job |-> IF j \in J THEN FALSE ELSE capacity_reserved[j]]
    /\ target_charge' = [j \in Job |-> IF j \in J THEN 0 ELSE target_charge[j]]
    /\ duration_seconds' = [j \in Job |-> IF j \in J THEN 0 ELSE duration_seconds[j]]
    /\ UNCHANGED <<depends_on, case_snapshot>>

\* Mutant of DeleteEngagement: accounting is not looked at.
DeleteWithAccounting ==
    /\ engagement = "open"
    /\ concurrency_limit # None \/ Reserved # {} => Idle
    /\ engagement' = "deleted"
    /\ DropRows({j \in Job : Exists(j)})
    /\ UNCHANGED <<stop_work, policyVars, ledgerVars, spec, pollVars>>

DeleteEngagement ==
    /\ engagement = "open"
    /\ concurrency_limit # None \/ Reserved # {} => Idle
    /\ targets_spent = 0
    /\ duration_allocated = 0
    /\ engagement' = "deleted"
    /\ DropRows({j \in Job : Exists(j)})
    /\ UNCHANGED <<stop_work, policyVars, ledgerVars, spec, pollVars>>

-------------------------------------------------------------------------------
(* Creating and removing jobs.                                             *)

Queueable(j) ==
    /\ status[j] = "absent"
    /\ j \in GateJob => spec # None

\* create_job: the stop-work check and the insert are not one transaction step
\* in the code, but create_pipeline inserts under stop-work anyway.
CreateJob(j, parent) ==
    /\ engagement = "open"
    /\ ~stop_work
    /\ Queueable(j)
    /\ parent # None => Exists(parent)
    /\ status' = [status EXCEPT ![j] = "pending"]
    /\ depends_on' = [depends_on EXCEPT ![j] = parent]
    /\ UNCHANGED <<engagementVars, case_snapshot, executionVars, pollVars>>

\* create_pipeline: a chain of stages, each waiting on the one before it.
Chains == {c \in UNION {[1..n -> Job] : n \in 1..Cardinality(Job)} :
              \A i, k \in DOMAIN c : i # k => c[i] # c[k]}

CreatePipeline(chain) ==
    /\ engagement = "open"
    /\ \A i \in DOMAIN chain : Queueable(chain[i])
    /\ status' = [j \in Job |-> IF \E i \in DOMAIN chain : chain[i] = j THEN "pending" ELSE status[j]]
    /\ depends_on' = [j \in Job |->
          IF \E i \in DOMAIN chain : i > 1 /\ chain[i] = j
          THEN chain[(CHOOSE i \in DOMAIN chain : i > 1 /\ chain[i] = j) - 1]
          ELSE depends_on[j]]
    /\ UNCHANGED <<engagementVars, case_snapshot, executionVars, pollVars>>

DeleteJob(j) ==
    /\ Exists(j)
    /\ ~capacity_reserved[j]
    /\ DropRows({j})
    /\ UNCHANGED <<engagementVars, pollVars>>

-------------------------------------------------------------------------------
(* Claim.                                                                  *)

\* Mutant of BeforeClaim: <= for <.
BeforeClaimOneMore(r) ==
    IF concurrency_limit = None
    THEN ~r.budget
    ELSE r.budget /\ Cardinality(Reserved) <= concurrency_limit

\* concurrency_budget.before_claim
BeforeClaim(r) ==
    IF concurrency_limit = None
    THEN ~r.budget
    ELSE r.budget /\ Cardinality(Reserved) < concurrency_limit

\* target_budget.charge and duration_budget.allocate: what the claim is charged.
TargetCount(r) == IF target_limit = None THEN 0 ELSE Origins[r.binding]
Allocation(r) == IF duration_limit = None THEN 0 ELSE r.seconds

\* Mutant of ChargeOk: the runner's binding is trusted and not compared with the case.
ChargeUnbound(j, r) ==
    IF target_limit = None
    THEN r.binding = None
    ELSE /\ r.binding # None
         /\ j \in GateJob
         /\ Origins[r.binding] > 0
         /\ targets_spent + Origins[r.binding] <= target_limit

\* Mutant of ChargeOk: what this claim adds is not counted.
ChargeWhileBelow(j, r) ==
    IF target_limit = None
    THEN r.binding = None
    ELSE /\ r.binding # None
         /\ j \in GateJob
         /\ r.binding = spec
         /\ Origins[spec] > 0
         /\ targets_spent < target_limit

ChargeOk(j, r) ==
    IF target_limit = None
    THEN r.binding = None
    ELSE /\ r.binding # None
         /\ j \in GateJob
         /\ r.binding = spec
         /\ Origins[spec] > 0
         /\ targets_spent + Origins[spec] <= target_limit

\* Mutant of AllocateOk: what this claim adds is not counted.
AllocateWhileBelow(r) ==
    IF duration_limit = None
    THEN r.seconds = None
    ELSE r.seconds # None /\ duration_allocated < duration_limit

AllocateOk(r) ==
    IF duration_limit = None
    THEN r.seconds = None
    ELSE r.seconds # None /\ duration_allocated + r.seconds <= duration_limit

\* Mutant of Issue: the account is overwritten where it should be added to.
IssueOverwrites(j, r) ==
    /\ status' = [status EXCEPT ![j] = "running"]
    /\ case_snapshot' = [case_snapshot EXCEPT ![j] = IF j \in GateJob THEN spec ELSE None]
    /\ targets_spent' = TargetCount(r)
    /\ duration_allocated' = duration_allocated + Allocation(r)
    /\ IF r.owned
       THEN /\ state' = [state EXCEPT ![j] = "active"]
            /\ expired' = [expired EXCEPT ![j] = FALSE]
            /\ capacity_reserved' = [capacity_reserved EXCEPT ![j] = r.budget]
            /\ target_charge' = [target_charge EXCEPT ![j] = TargetCount(r)]
            /\ duration_seconds' = [duration_seconds EXCEPT ![j] = Allocation(r)]
       ELSE UNCHANGED executionVars
    /\ UNCHANGED <<engagement, stop_work, policyVars, spec, depends_on, pollVars>>

\* The job runs with the case frozen, the budgets are charged and control.issue inserts the
\* execution of a claim with a body.
Issue(j, r) ==
    /\ status' = [status EXCEPT ![j] = "running"]
    /\ case_snapshot' = [case_snapshot EXCEPT ![j] = IF j \in GateJob THEN spec ELSE None]
    /\ targets_spent' = targets_spent + TargetCount(r)
    /\ duration_allocated' = duration_allocated + Allocation(r)
    /\ IF r.owned
       THEN /\ state' = [state EXCEPT ![j] = "active"]
            /\ expired' = [expired EXCEPT ![j] = FALSE]
            /\ capacity_reserved' = [capacity_reserved EXCEPT ![j] = r.budget]
            /\ target_charge' = [target_charge EXCEPT ![j] = TargetCount(r)]
            /\ duration_seconds' = [duration_seconds EXCEPT ![j] = Allocation(r)]
       ELSE UNCHANGED executionVars
    /\ UNCHANGED <<engagement, stop_work, policyVars, spec, depends_on, pollVars>>

\* The guard repeats what the conditional UPDATE's WHERE clause requires at
\* commit; the unlocked read before it can only make the code refuse more.
\* depends_on is not consulted.
Claim(j, r) ==
    /\ status[j] = "pending"
    /\ BeforeClaim(r)
    /\ ~stop_work
    /\ j \in GateJob => spec # None
    /\ ChargeOk(j, r)
    /\ AllocateOk(r)
    /\ Issue(j, r)

-------------------------------------------------------------------------------
(* PATCH /jobs/{id}.                                                       *)

\* Mutant of PatchTransitions: a finished job may be released again.
PatchReopens == [s \in Row |->
    CASE s = "pending" -> {"done", "failed"}
      [] OTHER -> {"pending", "done", "failed"}]

PatchTransitions == [s \in Row |->
    CASE s = "pending" -> {"done", "failed"}
      [] s = "running" -> {"pending", "done", "failed"}
      [] OTHER -> {}]

\* Mutant of UpdateJob: the execution row is not looked up.
UpdateAnyJob(j, new) ==
    /\ Exists(j)
    /\ new \in PatchTransitions[status[j]]
    /\ status' = [status EXCEPT ![j] = new]
    /\ UNCHANGED <<engagementVars, depends_on, case_snapshot, executionVars, pollVars>>

\* update_job for a job without an execution row
UpdateJob(j, new) ==
    /\ Exists(j)
    /\ state[j] = "none"
    /\ new \in PatchTransitions[status[j]]
    /\ status' = [status EXCEPT ![j] = new]
    /\ UNCHANGED <<engagementVars, depends_on, case_snapshot, executionVars, pollVars>>

\* update_job to "failed" for a controlled job: a request to its owner
RequestCancel(j) ==
    /\ status[j] = "running"
    /\ state[j] = "active"
    /\ state' = [state EXCEPT ![j] = "cancel_requested"]
    /\ UNCHANGED <<engagementVars, jobVars, expired, capacity_reserved, target_charge,
                   duration_seconds, pollVars>>

-------------------------------------------------------------------------------
(* The execution's owner, and its lease running out.                       *)

Expire(j) ==
    /\ state[j] = "active"
    /\ ~expired[j]
    /\ expired' = [expired EXCEPT ![j] = TRUE]
    /\ UNCHANGED <<engagementVars, jobVars, state, capacity_reserved, target_charge,
                   duration_seconds, pollVars>>

\* refresh_execution; "continue" moves expires_at of a live lease, which stays live
RefreshExecution(j) ==
    /\ state[j] # "none"
    /\ state' = [state EXCEPT ![j] =
          IF @ = "active" /\ stop_work THEN "cancel_requested"
          ELSE IF @ = "active" /\ expired[j] THEN "uncertain"
          ELSE @]
    /\ UNCHANGED <<engagementVars, jobVars, expired, capacity_reserved, target_charge,
                   duration_seconds, pollVars>>

\* Mutant of MayComplete: the lease is not checked again at completion.
MayCompleteLate(j) == state[j] = "active" /\ ~stop_work

MayComplete(j) == state[j] = "active" /\ ~expired[j] /\ ~stop_work

\* finish_execution("completed") refused; the refusal is recorded
RefuseCompletion(j) ==
    /\ state[j] \in Open
    /\ ~MayComplete(j)
    /\ state' = [state EXCEPT ![j] = "cancel_requested"]
    /\ UNCHANGED <<engagementVars, jobVars, expired, capacity_reserved, target_charge,
                   duration_seconds, pollVars>>

\* Mutant of FinishExecution: the slot is not given back.
FinishKeepsCapacity(j, outcome) ==
    /\ state[j] \in Open
    /\ outcome = "completed" => MayComplete(j)
    /\ state' = [state EXCEPT ![j] = outcome]
    /\ status' = IF outcome = "uncertain" THEN status
                 ELSE [status EXCEPT ![j] = IF outcome = "completed" THEN "done" ELSE "failed"]
    /\ UNCHANGED <<engagementVars, depends_on, case_snapshot, expired, capacity_reserved,
                   target_charge, duration_seconds, pollVars>>

\* Mutant of FinishExecution: the attempt's outcome is written as the job's status.
FinishCopiesOutcome(j, outcome) ==
    /\ state[j] \in Open
    /\ outcome = "completed" => MayComplete(j)
    /\ state' = [state EXCEPT ![j] = outcome]
    /\ capacity_reserved' = [capacity_reserved EXCEPT ![j] = @ /\ outcome = "uncertain"]
    /\ status' = [status EXCEPT ![j] = IF outcome = "uncertain" THEN @ ELSE outcome]
    /\ UNCHANGED <<engagementVars, depends_on, case_snapshot, expired, target_charge,
                   duration_seconds, pollVars>>

\* finish_execution accepted; "uncertain" keeps the job running and its capacity
FinishExecution(j, outcome) ==
    /\ state[j] \in Open
    /\ outcome = "completed" => MayComplete(j)
    /\ state' = [state EXCEPT ![j] = outcome]
    /\ IF outcome = "uncertain"
       THEN UNCHANGED <<status, capacity_reserved>>
       ELSE /\ capacity_reserved' = [capacity_reserved EXCEPT ![j] = FALSE]
            /\ status' = [status EXCEPT ![j] = IF outcome = "completed" THEN "done" ELSE "failed"]
    /\ UNCHANGED <<engagementVars, depends_on, case_snapshot, expired, target_charge,
                   duration_seconds, pollVars>>

-------------------------------------------------------------------------------
(* GET /jobs/pending.                                                      *)

\* the pending jobs are read, without a lock
PollPending(p) ==
    /\ pc[p] = "idle"
    /\ pc' = [pc EXCEPT ![p] = "parents"]
    /\ seen' = [seen EXCEPT ![p] = {j \in Job : status[j] = "pending"}]
    /\ UNCHANGED <<engagementVars, jobVars, executionVars, doomed>>

\* A parent that failed or has no row.
Lost(j) == depends_on[j] # None /\ status[depends_on[j]] \notin {"pending", "running", "done"}
Ready(j) == depends_on[j] = None \/ status[depends_on[j]] = "done"

\* Mutant of PollParents: a parent that no longer exists is not noticed.
PollFailedParents(p) ==
    /\ pc[p] = "parents"
    /\ pc' = [pc EXCEPT ![p] = "orphans"]
    /\ seen' = [seen EXCEPT ![p] = {j \in @ : Ready(j)}]
    /\ doomed' = [doomed EXCEPT ![p] =
          {j \in seen[p] : depends_on[j] # None /\ status[depends_on[j]] = "failed"}]
    /\ UNCHANGED <<engagementVars, jobVars, executionVars>>

\* _filter_by_dependencies reads the parents' status
PollParents(p) ==
    /\ pc[p] = "parents"
    /\ pc' = [pc EXCEPT ![p] = "orphans"]
    /\ seen' = [seen EXCEPT ![p] = {j \in @ : Ready(j)}]
    /\ doomed' = [doomed EXCEPT ![p] = {j \in seen[p] : Lost(j)}]
    /\ UNCHANGED <<engagementVars, jobVars, executionVars>>

\* An UPDATE by primary key: whatever the row's status is by now is overwritten.
FailRows(J) == [j \in Job |-> IF j \in J THEN "failed" ELSE status[j]]

Forget(p) ==
    /\ pc' = [pc EXCEPT ![p] = "idle"]
    /\ seen' = [seen EXCEPT ![p] = {}]
    /\ doomed' = [doomed EXCEPT ![p] = {}]

\* _filter_by_dependencies writes and commits
PollFailOrphans(p) ==
    /\ pc[p] = "orphans"
    /\ \A j \in doomed[p] : Exists(j)
    /\ status' = FailRows(doomed[p])
    /\ pc' = [pc EXCEPT ![p] = "cases"]
    /\ UNCHANGED <<engagementVars, depends_on, case_snapshot, executionVars, seen, doomed>>

\* _resolve_test_cases: gate jobs whose case is gone are failed and committed
Caseless(p) == IF spec = None THEN seen[p] \intersect GateJob ELSE {}

\* A row to write is gone (StaleDataError), or a row that the first commit
\* expired in the session can no longer be reloaded (ObjectDeletedError).
CannotFailCaseless(p) ==
    \E j \in seen[p] : ~Exists(j) /\ (j \in Caseless(p) \/ doomed[p] # {})

PollFailCaseless(p) ==
    /\ pc[p] = "cases"
    /\ ~CannotFailCaseless(p)
    /\ status' = FailRows(Caseless(p))
    /\ Forget(p)
    /\ UNCHANGED <<engagementVars, depends_on, case_snapshot, executionVars>>

\* the request fails with an error and its transaction is rolled back
PollAbort(p) ==
    /\ \/ pc[p] = "orphans" /\ \E j \in doomed[p] : ~Exists(j)
       \/ pc[p] = "cases" /\ CannotFailCaseless(p)
    /\ Forget(p)
    /\ UNCHANGED <<engagementVars, jobVars, executionVars>>

PollStep(p) ==
    PollPending(p) \/ PollParents(p) \/ PollFailOrphans(p) \/ PollFailCaseless(p) \/ PollAbort(p)

-------------------------------------------------------------------------------
EngagementStep ==
    \/ \E v \in Version : EditCase(v)
    \/ DeleteCase
    \/ EngageStopWork
    \/ ReleaseStopWork
    \/ \E l \in ConcLimit : ConfigureConcurrency(l)
    \/ \E l \in TargetLimit : ConfigureTargets(l)
    \/ \E l \in DurationLimit : ConfigureDuration(l)
    \/ DeleteEngagement
    \/ \E c \in Chains : CreatePipeline(c)

\* Handlers open to every kind of job.
OperatorStep(j) ==
    \/ \E parent \in Job \union {None} : CreateJob(j, parent)
    \/ DeleteJob(j)
    \/ \E new \in Row : UpdateJob(j, new)
    \/ RequestCancel(j)

\* The claim and the lease of a runner: closed to jobs that need a managed authorization.
RunnerStep(j) ==
    \/ \E r \in Request : Claim(j, r)
    \/ Expire(j)
    \/ RefreshExecution(j)
    \/ RefuseCompletion(j)
    \/ \E outcome \in Terminal \union {"uncertain"} : FinishExecution(j, outcome)

JobStep(j) == OperatorStep(j) \/ RunnerStep(j)

Next ==
    \/ EngagementStep
    \/ \E j \in Job : JobStep(j)
    \/ \E p \in Poller : PollStep(p)

Spec == Init /\ [][Next]_vars

\* Runners poll for as long as they are up, and a request the server accepted runs
\* to its end; nothing is assumed of operators, owners or time.
FairSpec == Spec /\ \A p \in Poller : WF_vars(PollStep(p))

-------------------------------------------------------------------------------
(* Properties.                                                             *)

\* Admission control (concurrency_budget.before_claim) and release by claim, finish and
\* delete: reserved attempts never exceed the limit, and without a policy none is reserved.
CapacityWithinLimit ==
    IF concurrency_limit = None
    THEN Reserved = {}
    ELSE Cardinality(Reserved) <= concurrency_limit

\* What claims were charged (target_budget.charge, duration_budget.allocate) stays covered by
\* the policy in force, whatever order policies are changed and jobs claimed in.
ChargesCovered ==
    /\ Covers(target_limit, targets_spent)
    /\ Covers(duration_limit, duration_allocated)

\* engage_stop_work leaves no attempt active, and none becomes active until it is released.
StopWorkLeavesNoneActive == stop_work => \A j \in Job : state[j] # "active"

\* A job row and its execution row agree (claim_job, update_job, finish_execution, delete_job):
\* an acknowledged attempt belongs to a finished job and holds no capacity; an unacknowledged
\* one never belongs to a pending job, so the job cannot be claimed a second time; a job done
\* under an attempt was completed by it; nothing is charged or reserved without an attempt.
ExecutionAgreesWithJob ==
    \A j \in Job :
        /\ state[j] \in Terminal => status[j] \in Finished
        /\ state[j] \in Open => status[j] \in {"running", "failed"}
        /\ capacity_reserved[j] => state[j] \in Open
        /\ status[j] = "done" => state[j] \in {"none", "completed"}
        /\ state[j] = "none" => target_charge[j] = 0 /\ duration_seconds[j] = 0

\* The charge an execution row records is that of the case content frozen in its job at claim,
\* however the stored case is edited or deleted later.
ChargeMatchesSnapshot ==
    \A j \in Job : target_charge[j] > 0 =>
        case_snapshot[j] \in Version /\ target_charge[j] = Origins[case_snapshot[j]]

\* The rows of jobs, executions, policies and accounts agree, whatever claims, stops, deletions,
\* policy changes and polls without the lock are committed in between.
RowsAgree ==
    /\ TypeOK
    /\ CapacityWithinLimit
    /\ ChargesCovered
    /\ StopWorkLeavesNoneActive
    /\ ExecutionAgreesWithJob
    /\ ChargeMatchesSnapshot

\* The sum of what the execution rows record.
Total(charge) == MapThenSumSet(LAMBDA j : charge[j], Job)

\* The charges of the execution rows that still exist never exceed the account they were
\* added to by claim_job: deleting a job refunds nothing and no charge is counted twice.
ChargesSumWithinAccount ==
    /\ Total(target_charge) <= targets_spent
    /\ Total(duration_seconds) <= duration_allocated

\* ADR 0006: an attempt that expired or was asked to stop is never renewed or completed, whoever
\* releases stop-work afterwards, and an acknowledged attempt keeps its outcome.
AttemptNeverRevives ==
    [][\A j \in Job :
          /\ state[j] \notin {"none", "active"} => state'[j] # "active"
          /\ state[j] \in Terminal => state'[j] \in {state[j], "none"}
          /\ state'[j] = "completed" /\ state[j] # "completed" =>
                state[j] = "active" /\ ~expired[j] /\ ~stop_work]_vars

\* docs/api.md: spend is cumulative. No step lowers what was charged, and an engagement with
\* charges is never deleted, not even after its jobs were.
AccountingNeverErased ==
    [][/\ targets_spent' >= targets_spent
       /\ duration_allocated' >= duration_allocated
       /\ engagement' = "deleted" /\ engagement = "open" =>
             targets_spent = 0 /\ duration_allocated = 0]_vars

\* jobs.py: "A finished job never reopens ... so a recorded outcome and its evidence are never
\* rewritten."  The only change of a finished job is its deletion.
FinishedNeverReopens ==
    [][\A j \in Job : status[j] \in Finished => status'[j] \in {status[j], "deleted"}]_vars

\* ADR 0006: "A controlled job stays running until its owner acknowledges termination or
\* completion."
ControlledJobStaysRunning ==
    [][\A j \in Job :
          status[j] = "running" /\ state[j] # "none" /\ status'[j] \in Finished =>
              state'[j] \in Terminal]_vars

\* Outcomes are recorded once, and for a controlled job by its owner (update_job, finish_execution).
OutcomesKept == FinishedNeverReopens /\ ControlledJobStaysRunning

\* get_pending_jobs: a job that can never run (its parent failed or vanished, or its test case
\* was deleted) does not stay in the queue for as long as someone polls.
Hopeless(j) ==
    /\ status[j] = "pending"
    /\ Lost(j) \/ (Ready(j) /\ j \in GateJob /\ spec = None)
QueueNeverHangs == \A j \in Job : Hopeless(j) ~> ~Hopeless(j)

-------------------------------------------------------------------------------
(* The three budgets implement their abstract specifications.              *)

Pool == INSTANCE CapacityPool WITH
    Holder <- Job, limit <- concurrency_limit, holders <- Reserved
Targets == INSTANCE BudgetLedger WITH limit <- target_limit, charged <- targets_spent
Duration == INSTANCE BudgetLedger WITH limit <- duration_limit, charged <- duration_allocated

\* before_claim, finish_execution, delete_job and configure_concurrency together behave as a
\* pool of slots that is only resized while empty.
ImplementsCapacityPool == Pool!Spec

\* charge / allocate and the policy handlers behave as two growing accounts.
ImplementsTargetLedger == Targets!Spec
ImplementsDurationLedger == Duration!Spec

\* The three budgets keep what their abstract specifications promise, under every order of
\* claims, finishes, deletions and policy changes.
ImplementsBudgets ==
    /\ ImplementsCapacityPool
    /\ ImplementsTargetLedger
    /\ ImplementsDurationLedger
===============================================================================
