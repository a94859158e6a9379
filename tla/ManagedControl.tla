---------------------------- MODULE ManagedControl ----------------------------
(***************************************************************************)
(* Jobs that run under a signed, single-use authorization: the issuer      *)
(* (managed_issuance.py), its results and known stops (managed_results.py, *)
(* managed_stops.py), on top of the jobs, leases and budgets of            *)
(* JobControl.                                                             *)
(*                                                                         *)
(* An operation is a request between Issuer.operation's first observation  *)
(* of the clock, a transaction of its own, and its end.  What it does      *)
(* under the engagement lock, its body, is one step, taken when it last    *)
(* writes the clock ledger: every time check is of the form "still         *)
(* before", so that earlier checks of the same row add nothing and later   *)
(* ones only refuse more.  Where a body stamps a row, or checks one that   *)
(* it then overwrites, it did so some time before (ago).  The wall clock   *)
(* may be set between the steps of a request, not inside a body.           *)
(*                                                                         *)
(* Signatures, digests and tokens are compared by what they stand for; a   *)
(* mismatch is a refusal.  Authentication is left out: "key" is what       *)
(* _enrollment reads of the runner's API key.                              *)
(*                                                                         *)
(* The lease of a managed execution is the time lease[j]; JobControl's bit *)
(* "expired" is about executions of the legacy adapter only.               *)
(***************************************************************************)
EXTENDS JobControl

CONSTANTS
    Approval,       \* identifiers of signed approvals
    Artifact,       \* result documents a runner may upload
    Session,        \* requests served at the same time
    LeaseSeconds,   \* LEASE_SECONDS
    MaxSeconds,     \* max_duration_seconds of every approval
    MaxExecutions,  \* max_executions of every approval
    MaxTime,        \* bound: the wall clock
    MaxRevision     \* bound: authority changes

ASSUME ManagedAssumption ==
    /\ None \notin Approval /\ None \notin Artifact /\ None \notin Terminal
    /\ LeaseSeconds \in Nat \ {0} /\ MaxSeconds \in Nat \ {0} /\ MaxExecutions \in Nat \ {0}
    /\ MaxTime \in Nat /\ MaxRevision \in Nat

VARIABLES
    revision,               \* Engagement.managed_authority_revision
    key,                    \* the enrolled runner's API key exists
    marked,                 \* authorization_contract_required
    managed_approval_id,
    approval,               \* ManagedApproval rows
    contract,               \* ManagedContract row of each job
    started_at, lease,      \* ScanJob.started_at, JobExecution.expires_at
    result, stopped,        \* ManagedResult and ManagedStop rows
    evidence,               \* how often evidence was stored for the job
    wall, observed,         \* the wall clock, and the clock ledger
    session                 \* operations in progress

permitVars == <<marked, managed_approval_id, approval, contract, started_at, lease>>
receiptVars == <<result, stopped, evidence>>
authorityVars == <<revision, key>>
clockVars == <<wall, observed, session>>
managedVars == <<permitVars, receiptVars, authorityVars, clockVars>>
allVars == <<vars, managedVars>>

-------------------------------------------------------------------------------
Time == 0..MaxTime
Policy == <<concurrency_limit, target_limit, duration_limit>>

ApprovalRow == [job : Job \union {None}, revision : Nat, case : Version \union {None},
                policy : (ConcLimit \union {None}) \X (TargetLimit \union {None})
                            \X (DurationLimit \union {None}),
                expires_at : Nat, issued : Nat, revoked : BOOLEAN]
ContractRow == [approval : Approval \union {None}, ordinal : Nat, consumed : BOOLEAN]
ResultRow == [artifact : Artifact \union {None}, preflight_failed : BOOLEAN,
              outcome : Terminal \union {None}]
Operation == [phase : {"away", "entered", "ready"}, floor : Nat]

Unregistered == [job |-> None, revision |-> 0, case |-> None, policy |-> <<None, None, None>>,
                 expires_at |-> 0, issued |-> 0, revoked |-> FALSE]
NoContract == [approval |-> None, ordinal |-> 0, consumed |-> FALSE]
NoResult == [artifact |-> None, preflight_failed |-> FALSE, outcome |-> None]
Away == [phase |-> "away", floor |-> 0]

ManagedTypeOK ==
    /\ revision \in 0..MaxRevision
    /\ key \in BOOLEAN
    /\ marked \in [Job -> BOOLEAN]
    /\ managed_approval_id \in [Job -> Approval \union {None}]
    /\ approval \in [Approval -> ApprovalRow]
    /\ contract \in [Job -> ContractRow]
    /\ started_at \in [Job -> Nat]
    /\ lease \in [Job -> Nat]
    /\ result \in [Job -> ResultRow]
    /\ stopped \in [Job -> {"cancelled", "failed", None}]
    /\ evidence \in [Job -> Nat]
    /\ wall \in Nat
    /\ observed \in Nat
    /\ session \in [Session -> Operation]

NothingManaged ==
    /\ revision = 0
    /\ key = TRUE
    /\ marked = [j \in Job |-> FALSE]
    /\ managed_approval_id = [j \in Job |-> None]
    /\ approval = [a \in Approval |-> Unregistered]
    /\ contract = [j \in Job |-> NoContract]
    /\ started_at = [j \in Job |-> 0]
    /\ lease = [j \in Job |-> 0]
    /\ result = [j \in Job |-> NoResult]
    /\ stopped = [j \in Job |-> None]
    /\ evidence = [j \in Job |-> 0]
    /\ wall = 0
    /\ observed = 0
    /\ session = [s \in Session |-> Away]

ManagedInit == Init /\ NothingManaged

-------------------------------------------------------------------------------
(* The clock and the operation around every request.                       *)

Later(t, u) == IF t < u THEN u ELSE t
Earlier(t, u) == IF t < u THEN t ELSE u

\* Issuer._now: the wall clock, but never before the anchor plus the time elapsed since
Now(s) == Later(wall, session[s].floor)

\* A second passes on the wall clock and on the monotonic clock.
Tick ==
    /\ wall < MaxTime
    /\ \A s \in Session : session[s].floor < MaxTime
    /\ wall' = wall + 1
    /\ session' = [s \in Session |->
          IF session[s].phase = "away" THEN Away
          ELSE [phase |-> session[s].phase, floor |-> session[s].floor + 1]]
    /\ UNCHANGED <<vars, permitVars, receiptVars, authorityVars, observed>>

\* The wall clock is set, forward or back.
SetClock(t) ==
    /\ wall' = t
    /\ UNCHANGED <<vars, permitVars, receiptVars, authorityVars, observed, session>>

\* operation takes its anchor
Enter(s) ==
    /\ session[s].phase = "away"
    /\ session' = [session EXCEPT ![s] = [phase |-> "entered", floor |-> wall]]
    /\ UNCHANGED <<vars, permitVars, receiptVars, authorityVars, wall, observed>>

\* _observe commits what it saw, or refuses and the operation does not begin
Observe(s) ==
    /\ session[s].phase = "entered"
    /\ IF Now(s) >= observed
       THEN /\ observed' = Now(s)
            /\ session' = [session EXCEPT ![s].phase = "ready"]
       ELSE /\ session' = [session EXCEPT ![s] = Away]
            /\ UNCHANGED observed
    /\ UNCHANGED <<vars, permitVars, receiptVars, authorityVars, wall>>

Return(s) == session' = [session EXCEPT ![s] = Away]

\* The body refused: rollback, and the clock is observed once more.
Refuse(s) ==
    /\ session[s].phase = "ready"
    /\ observed' = Later(observed, Now(s))
    /\ Return(s)
    /\ UNCHANGED <<vars, permitVars, receiptVars, authorityVars, wall>>

\* The server stops before the body commits; review and the inspections, which roll back.
Abandon(s) ==
    /\ session[s].phase = "ready"
    /\ Return(s)
    /\ UNCHANGED <<vars, permitVars, receiptVars, authorityVars, wall, observed>>

\* Mutant of LockedTime: the ledger is written without comparing.
LockedTimeUnchecked(s) ==
    /\ session[s].phase = "ready"
    /\ observed' = Now(s)
    /\ Return(s)
    /\ UNCHANGED wall

\* The last _locked_time of a body, and its commit
LockedTime(s) ==
    /\ session[s].phase = "ready"
    /\ Now(s) >= observed
    /\ observed' = Now(s)
    /\ Return(s)
    /\ UNCHANGED wall

\* A body may have looked at the clock this long before its last _locked_time and after its first.
Looked(s, ago) == ago <= wall /\ observed <= Now(s) - ago

-------------------------------------------------------------------------------
(* Approvals.                                                              *)

\* register, for a receipt signed over the context as it is now and until expires_at
Register(s, j, a, expires_at) ==
    /\ status[j] = "pending"
    /\ j \in GateJob
    /\ key
    /\ ~stop_work
    /\ spec # None
    /\ approval[a].job = None
    /\ Now(s) < expires_at
    /\ approval' = [approval EXCEPT ![a] =
          [job |-> j, revision |-> revision, case |-> spec, policy |-> Policy,
           expires_at |-> expires_at, issued |-> 0, revoked |-> FALSE]]
    /\ managed_approval_id' = [managed_approval_id EXCEPT ![j] = a]
    /\ marked' = [marked EXCEPT ![j] = TRUE]
    /\ LockedTime(s)
    /\ UNCHANGED <<vars, contract, started_at, lease, receiptVars, authorityVars>>

\* register again with the same receipt, which is checked before the ledger is
Reregister(s, j, ago) ==
    /\ Exists(j)
    /\ managed_approval_id[j] # None
    /\ Looked(s, ago)
    /\ LET row == approval[managed_approval_id[j]]
       IN  row.job = j /\ ~row.revoked /\ Now(s) - ago < row.expires_at
    /\ LockedTime(s)
    /\ UNCHANGED <<vars, permitVars, receiptVars, authorityVars>>

\* Mutant of Revoke: the row is dropped where it should be flagged.
RevokeDrops(s, j) ==
    /\ Exists(j)
    /\ managed_approval_id[j] # None
    /\ approval' = [approval EXCEPT ![managed_approval_id[j]] = None]
    /\ LockedTime(s)
    /\ UNCHANGED <<vars, marked, managed_approval_id, contract, started_at, lease, receiptVars,
                   authorityVars>>

Revoke(s, j) ==
    /\ Exists(j)
    /\ managed_approval_id[j] # None
    /\ approval' = [approval EXCEPT ![managed_approval_id[j]].revoked = TRUE]
    /\ LockedTime(s)
    /\ UNCHANGED <<vars, marked, managed_approval_id, contract, started_at, lease, receiptVars,
                   authorityVars>>

\* Mutant of Permitted: the revision is not compared.
PermittedStale(s, j, statuses) ==
    LET row == approval[managed_approval_id[j]] IN
    /\ managed_approval_id[j] # None
    /\ ~row.revoked
    /\ row.job = j
    /\ key
    /\ status[j] \in statuses
    /\ ~stop_work
    /\ spec = row.case
    /\ Policy = row.policy
    /\ Now(s) < row.expires_at

\* Mutant of Permitted: the wall clock is trusted.
PermittedByWall(s, j, statuses) ==
    LET row == approval[managed_approval_id[j]] IN
    /\ managed_approval_id[j] # None
    /\ ~row.revoked
    /\ row.job = j
    /\ key
    /\ revision = row.revision
    /\ status[j] \in statuses
    /\ ~stop_work
    /\ spec = row.case
    /\ Policy = row.policy
    /\ wall < row.expires_at

\* _claim_permission: the approval still holds, for the authority as it is now
Permitted(s, j, statuses) ==
    LET row == approval[managed_approval_id[j]] IN
    /\ managed_approval_id[j] # None
    /\ ~row.revoked
    /\ row.job = j
    /\ key
    /\ revision = row.revision
    /\ status[j] \in statuses
    /\ ~stop_work
    /\ spec = row.case
    /\ Policy = row.policy
    /\ Now(s) < row.expires_at

\* claim: budgets, ownership, ordinal and contract commit together
ClaimManaged(s, j, r, ago) ==
    /\ Permitted(s, j, {"pending"})
    /\ r.budget /\ r.binding # None /\ r.seconds # None
    /\ r.seconds <= MaxSeconds
    /\ contract[j].approval = None
    /\ LET a == managed_approval_id[j] IN
        /\ approval[a].issued + 1 <= MaxExecutions
        /\ approval' = [approval EXCEPT ![a].issued = @ + 1]
        /\ contract' = [contract EXCEPT ![j] =
              [approval |-> a, ordinal |-> approval[a].issued + 1, consumed |-> FALSE]]
    /\ BeforeClaim(r)
    /\ ChargeOk(j, r)
    /\ AllocateOk(r)
    /\ Issue(j, r)
    /\ Looked(s, ago)
    /\ started_at' = [started_at EXCEPT ![j] = Now(s) - ago]
    /\ lease' = [lease EXCEPT ![j] = wall - ago + LeaseSeconds]
    /\ LockedTime(s)
    /\ UNCHANGED <<marked, managed_approval_id, receiptVars, authorityVars>>

-------------------------------------------------------------------------------
(* The runner that owns the contract.                                      *)

\* Mutant of Live: an attempt that was asked to stop counts as live.
LiveUntilEnded(j, instant) == state[j] \in Open /\ instant < lease[j]

\* Mutant of Live: only the wall clock is looked at.
LiveByWall(j, instant) == state[j] = "active" /\ wall < lease[j]

\* The execution is active and its lease is ahead.
Live(j, instant) == state[j] = "active" /\ instant < lease[j]

\* Where the permission ends whatever the lease says.
Ceiling(j) ==
    Earlier(approval[managed_approval_id[j]].expires_at,
            started_at[j] + Earlier(duration_seconds[j], MaxSeconds))

\* control.owned and the contract of the attempt
Owned(j) == state[j] # "none" /\ contract[j].approval # None

\* current: nothing but the clock is written, and the lease is compared with the wall clock
Current(s, j) ==
    /\ Owned(j)
    /\ Permitted(s, j, {"running"})
    /\ Live(j, wall)
    /\ LockedTime(s)
    /\ UNCHANGED <<vars, permitVars, receiptVars, authorityVars>>

\* refresh: the old lease is checked and the new one computed before the last look at the clock,
\* when the new one must still be ahead
Refresh(s, j, ago) ==
    /\ Owned(j)
    /\ Permitted(s, j, {"running"})
    /\ duration_seconds[j] > 0
    /\ Looked(s, ago)
    /\ LET instant == Now(s) - ago
           until == Earlier(instant + LeaseSeconds, Ceiling(j))
       IN  /\ Live(j, instant)
           /\ Now(s) < until
           /\ lease' = [lease EXCEPT ![j] = until]
    /\ LockedTime(s)
    /\ UNCHANGED <<vars, marked, managed_approval_id, approval, contract, started_at, receiptVars,
                   authorityVars>>

\* consume: the launch acknowledgement, once
Consume(s, j) ==
    /\ Owned(j)
    /\ Permitted(s, j, {"running"})
    /\ Live(j, Now(s))
    /\ ~contract[j].consumed
    /\ contract' = [contract EXCEPT ![j].consumed = TRUE]
    /\ LockedTime(s)
    /\ UNCHANGED <<vars, marked, managed_approval_id, approval, started_at, lease, receiptVars,
                   authorityVars>>

-------------------------------------------------------------------------------
(* Results and known stops of a launched attempt, with their retries.      *)

\* Results._owned
Launched(j) == Owned(j) /\ contract[j].consumed /\ managed_approval_id[j] = contract[j].approval

\* A retry is answered from the stored row: nothing is written, not even the clock.
Answer(s) ==
    /\ session[s].phase = "ready"
    /\ Return(s)
    /\ UNCHANGED <<vars, permitVars, receiptVars, authorityVars, wall, observed>>

Retain(s, j, artifact, failed) ==
    /\ result' = [result EXCEPT ![j] =
          [artifact |-> artifact, preflight_failed |-> failed, outcome |-> None]]
    /\ evidence' = [evidence EXCEPT ![j] = @ + 1]
    /\ LockedTime(s)
    /\ UNCHANGED <<vars, permitVars, stopped, authorityVars>>

\* Mutant of Submit: a later artifact replaces the stored one.
SubmitReplaces(s, j, artifact, failed) ==
    /\ Launched(j)
    /\ case_snapshot[j] = approval[managed_approval_id[j]].case
    /\ IF result[j].artifact = None
       THEN Retain(s, j, artifact, failed)
       ELSE /\ result' = [result EXCEPT ![j].artifact = artifact]
            /\ LockedTime(s)
            /\ UNCHANGED <<vars, permitVars, stopped, evidence, authorityVars>>

\* submit: first or identical result of the attempt, whatever its state
Submit(s, j, artifact, failed) ==
    /\ Launched(j)
    /\ case_snapshot[j] = approval[managed_approval_id[j]].case
    /\ IF result[j].artifact = None
       THEN Retain(s, j, artifact, failed)
       ELSE result[j].artifact = artifact /\ Answer(s)

\* Mutant of EndAttempt: the slot is not given back.
EndKeepsCapacity(j, outcome) ==
    /\ state' = [state EXCEPT ![j] = outcome]
    /\ status' = [status EXCEPT ![j] = IF outcome = "completed" THEN "done" ELSE "failed"]
    /\ UNCHANGED <<engagementVars, depends_on, case_snapshot, expired, capacity_reserved,
                   target_charge, duration_seconds, pollVars>>

\* What finish and report write to the execution and its job
EndAttempt(j, outcome) ==
    /\ state' = [state EXCEPT ![j] = outcome]
    /\ capacity_reserved' = [capacity_reserved EXCEPT ![j] = FALSE]
    /\ status' = [status EXCEPT ![j] = IF outcome = "completed" THEN "done" ELSE "failed"]
    /\ UNCHANGED <<engagementVars, depends_on, case_snapshot, expired, target_charge,
                   duration_seconds, pollVars>>

\* finish, "completed": only under a live permission
MayCompleteManaged(s, j) ==
    /\ ~result[j].preflight_failed
    /\ Permitted(s, j, {"running"})
    /\ Live(j, Now(s))
    /\ duration_seconds[j] > 0
    /\ Now(s) < Ceiling(j)

Finish(s, j, outcome) ==
    /\ Launched(j)
    /\ result[j].artifact # None
    /\ result[j].outcome = None
    /\ state[j] \notin Terminal
    /\ capacity_reserved[j]
    /\ outcome = "completed" => MayCompleteManaged(s, j)
    /\ EndAttempt(j, outcome)
    /\ result' = [result EXCEPT ![j].outcome = outcome]
    /\ LockedTime(s)
    /\ UNCHANGED <<permitVars, stopped, evidence, authorityVars>>

FinishAgain(s, j) ==
    /\ Launched(j)
    /\ result[j].outcome # None
    /\ Answer(s)

\* Stops.report: a termination the runner knows of, before any result
Report(s, j, outcome) ==
    /\ Launched(j)
    /\ stopped[j] = None
    /\ result[j].artifact = None
    /\ state[j] \notin Terminal
    /\ capacity_reserved[j]
    /\ EndAttempt(j, outcome)
    /\ stopped' = [stopped EXCEPT ![j] = outcome]
    /\ LockedTime(s)
    /\ UNCHANGED <<permitVars, result, evidence, authorityVars>>

ReportAgain(s, j) ==
    /\ Launched(j)
    /\ stopped[j] # None
    /\ Answer(s)

-------------------------------------------------------------------------------
(* The rest of the system: JobControl's handlers, seen from here.          *)

Reviewed == <<stop_work, Policy, spec>>

\* Every handler of EngagementStep moves the revision if it changes what was reviewed.
Revise ==
    /\ revision' = IF Reviewed' # Reviewed THEN revision + 1 ELSE revision
    /\ revision' <= MaxRevision

ChangeEngagement ==
    /\ EngagementStep
    /\ Revise
    /\ UNCHANGED <<key, permitVars, receiptVars, clockVars>>

\* Scope, authorizations and the ceiling: a commit of Authority that moves the revision.
ChangeAuthority ==
    /\ engagement = "open"
    /\ revision < MaxRevision
    /\ revision' = revision + 1
    /\ UNCHANGED <<vars, key, permitVars, receiptVars, clockVars>>

\* DELETE /auth/apikeys/{id}
RevokeApiKey ==
    /\ key
    /\ key' = FALSE
    /\ UNCHANGED <<vars, revision, permitVars, receiptVars, clockVars>>

\* create_job may require an authorization of a gate job.
CreateMarked(j, parent) ==
    /\ j \in GateJob
    /\ CreateJob(j, parent)
    /\ marked' = [marked EXCEPT ![j] = TRUE]
    /\ UNCHANGED <<managed_approval_id, approval, contract, started_at, lease, receiptVars,
                   authorityVars, clockVars>>

ChangeJob(j) ==
    /\ OperatorStep(j)
    /\ UNCHANGED managedVars

\* Mutant of LegacyRun: the legacy adapter serves marked jobs too.
LegacyRunAny(j) ==
    /\ RunnerStep(j)
    /\ UNCHANGED managedVars

\* claim_job, refresh_execution and finish_execution refuse marked jobs.
LegacyRun(j) ==
    /\ ~marked[j]
    /\ RunnerStep(j)
    /\ UNCHANGED managedVars

Poll(p) ==
    /\ PollStep(p)
    /\ UNCHANGED managedVars

-------------------------------------------------------------------------------
OperatorRequest(s, j) ==
    \/ \E a \in Approval, expires_at \in Time : Register(s, j, a, expires_at)
    \/ \E ago \in Time : Reregister(s, j, ago)
    \/ Revoke(s, j)

RunnerRequest(s, j) ==
    \/ \E r \in Request, ago \in Time : ClaimManaged(s, j, r, ago)
    \/ Current(s, j)
    \/ \E ago \in Time : Refresh(s, j, ago)
    \/ Consume(s, j)
    \/ \E artifact \in Artifact, failed \in BOOLEAN : Submit(s, j, artifact, failed)
    \/ \E outcome \in Terminal : Finish(s, j, outcome)
    \/ FinishAgain(s, j)
    \/ \E outcome \in {"cancelled", "failed"} : Report(s, j, outcome)
    \/ ReportAgain(s, j)

SessionStep(s) ==
    \/ Enter(s)
    \/ Observe(s)
    \/ Refuse(s)
    \/ Abandon(s)
    \/ \E j \in Job : OperatorRequest(s, j) \/ RunnerRequest(s, j)

ClockStep ==
    \/ Tick
    \/ \E t \in Time : SetClock(t)

OtherStep ==
    \/ ChangeEngagement
    \/ ChangeAuthority
    \/ RevokeApiKey
    \/ \E j \in Job, parent \in Job \union {None} : CreateMarked(j, parent)
    \/ \E j \in Job : ChangeJob(j)
    \/ \E j \in Job : LegacyRun(j)
    \/ \E p \in Poller : Poll(p)

ManagedNext ==
    \/ \E s \in Session : SessionStep(s)
    \/ ClockStep
    \/ OtherStep

ManagedSpec == ManagedInit /\ [][ManagedNext]_allVars

-------------------------------------------------------------------------------
(* Properties.                                                             *)

\* managed_clock: however requests overlap, crash, and meet a clock that is set back, the
\* ledger only moves forward.
ClockNeverBack == [][observed' >= observed]_allVars

\* What a step uses the permission for: issuing, launching, completing.
Uses(j) ==
    \/ contract'[j] # contract[j]
    \/ result[j].outcome = None /\ result'[j].outcome = "completed"

\* Once a request has seen an approval's deadline pass, or its revocation committed, nothing is
\* issued, launched, renewed or completed under it, even if the clock is set back afterwards
\* (Issuer._locked_time, _claim_permission, Results.finish).
DeadPermitStaysDead ==
    [][\A j \in Job : Uses(j) \/ (lease'[j] # lease[j]) =>
          LET row == approval[managed_approval_id[j]]
          IN  observed' < row.expires_at /\ ~row.revoked]_allVars

\* A lease some request has seen expire is never renewed, nothing is launched or completed under
\* it, and a renewal neither starts in the past nor outlasts the approval or the allocated duration
\* (Issuer._current, Results.finish).
LeaseNeverRevives ==
    [][\A j \in Job :
          /\ Uses(j) /\ status[j] # "pending" => observed' < lease[j]
          /\ status[j] # "pending" /\ lease'[j] # lease[j] =>
                observed < lease[j] /\ observed' < lease'[j] /\ lease'[j] <= Ceiling(j)]_allVars

\* What is launched or completed is what was reviewed: since the approval was registered neither
\* the case, a budget policy, stop-work nor any other authority has changed, not even there and
\* back (the revision moves with each of them and is still the approval's), and the job carries
\* the reviewed case (managed_authority_revision, Issuer._projection).
RunsAsReviewed ==
    [][/\ Reviewed' # Reviewed => revision' > revision
       /\ \A j \in Job : Uses(j) =>
            LET row == approval[managed_approval_id[j]]
            IN  /\ row.revision = revision
                /\ case_snapshot'[j] = row.case
                /\ Reviewed = <<FALSE, row.policy, row.case>>]_allVars

\* Observations.inspect finds no inconsistent claim: a job has a contract exactly if it has a
\* managed execution, both under the approval it was claimed with, whose allowance counts it.
ClaimsAreConsistent ==
    \A j \in Job :
        /\ contract[j].approval # None =>
              LET row == approval[contract[j].approval]
              IN  /\ managed_approval_id[j] = contract[j].approval
                  /\ row.job = j
                  /\ row.case = case_snapshot[j]
                  /\ contract[j].ordinal = row.issued
                  /\ row.issued <= MaxExecutions
        /\ Exists(j) /\ marked[j] => (contract[j].approval # None <=> state[j] # "none")
        /\ ~marked[j] => contract[j] = NoContract

\* Stored receipts and the execution agree ("retained_completion_inconsistent" and
\* "retained_stop_inconsistent" are never raised): a managed attempt ends by one receipt, never
\* by inference, an attempt that was not launched has none, and evidence is stored once.
ReceiptsAgree ==
    \A j \in Job :
        /\ stopped[j] # None => result[j].outcome = None
        /\ Exists(j) /\ stopped[j] # None => state[j] = stopped[j] /\ ~capacity_reserved[j]
        /\ Exists(j) /\ result[j].outcome # None =>
              state[j] = result[j].outcome /\ ~capacity_reserved[j]
        /\ marked[j] /\ state[j] \in Terminal => stopped[j] # None \/ result[j].outcome # None
        /\ stopped[j] # None \/ result[j].artifact # None => contract[j].consumed
        /\ evidence[j] = IF result[j].artifact = None THEN 0 ELSE 1

\* Approvals, contracts, executions and receipts agree, after any number of claims, launches,
\* retries, deletions and stops (what Observations.inspect relies on).
ManagedRowsAgree == ManagedTypeOK /\ ClaimsAreConsistent /\ ReceiptsAgree

\* Retried requests rewrite nothing: consumption, revocation, results, outcomes and stops are
\* final, also after the job was deleted.
ReceiptsFinal ==
    [][/\ \A a \in Approval : approval[a].revoked => approval'[a].revoked
       /\ \A j \in Job :
            /\ contract[j].consumed => contract'[j] = contract[j]
            /\ result[j].artifact # None => result'[j].artifact = result[j].artifact
            /\ result[j].outcome # None => result'[j] = result[j]
            /\ stopped[j] # None => stopped'[j] = stopped[j]]_allVars

\* Seen without permits and clocks, managed jobs are jobs of JobControl: what JobControl promises
\* of budgets, leases and outcomes holds for them.
ImplementsJobControl == Spec

\* ManagedResult rows outlive their jobs, so that none is ever discarded.  evidence counts what
\* was ever stored; the rows deleted since are GateResults' matter.
Results == INSTANCE ResultStore WITH
    Document <- Artifact,
    stored <- [j \in Job |-> IF result[j].artifact = None THEN <<>> ELSE <<result[j].artifact>>],
    evidence <- [j \in Job |-> 1..evidence[j]],
    closed <- {j \in Job : result[j].artifact # None}

\* submit, finish and report keep managed results as ResultStore does: the artifact and its
\* evidence are stored once and together, whatever is sent again or deleted later.
ImplementsResultStore == Results!Spec

\* Managed jobs implement both: the jobs of JobControl, and a store of results.
ImplementsControlAndStore == ImplementsJobControl /\ ImplementsResultStore
===============================================================================
