----------------------------- MODULE ManagedProofs -----------------------------
(***************************************************************************)
(* Proofs about ManagedControl: managed jobs implement JobControl, their   *)
(* rows agree, and no permission, lease or receipt outlives its end.       *)
(***************************************************************************)
EXTENDS ManagedControl, JobControlProofs

\* What the steps that only move the clock, refuse or answer leave alone.
rowVars == <<vars, permitVars, receiptVars>>

\* Requests that write neither a row of a job nor one of a permission or a receipt.
QuietRequest(s, j) ==
    \/ \E ago \in Time : Reregister(s, j, ago)
    \/ Current(s, j) \/ FinishAgain(s, j) \/ ReportAgain(s, j)

\* The steps that leave all rows alone.
Quiet ==
    \/ ClockStep
    \/ ChangeAuthority
    \/ RevokeApiKey
    \/ \E s \in Session : Enter(s) \/ Observe(s) \/ Refuse(s) \/ Abandon(s) \/ Answer(s)
    \/ \E s \in Session, j \in Job : QuietRequest(s, j)

\* Quiet steps change clocks, sessions, the revision or the API key only.
LEMMA QuietLeavesRows == Quiet => UNCHANGED rowVars
  BY DEF Quiet, ClockStep, Tick, SetClock, ChangeAuthority, RevokeApiKey, Enter, Observe, Refuse,
         Abandon, Answer, QuietRequest, Reregister, Current, FinishAgain, ReportAgain, rowVars

\* The steps that do write rows, one disjunct each.
Writes ==
    \/ \E s \in Session, j \in Job :
          \/ \E a \in Approval, expires_at \in Time : Register(s, j, a, expires_at)
          \/ Revoke(s, j)
          \/ \E r \in Request, ago \in Time : ClaimManaged(s, j, r, ago)
          \/ \E ago \in Time : Refresh(s, j, ago)
          \/ Consume(s, j)
          \/ \E artifact \in Artifact, failed \in BOOLEAN :
                Launched(j) /\ result[j].artifact = None /\ Retain(s, j, artifact, failed)
          \/ \E outcome \in Terminal : Finish(s, j, outcome)
          \/ \E outcome \in {"cancelled", "failed"} : Report(s, j, outcome)
    \/ ChangeEngagement
    \/ \E j \in Job, parent \in Job \union {None} : CreateMarked(j, parent)
    \/ \E j \in Job : ChangeJob(j) \/ LegacyRun(j)
    \/ \E p \in Poller : Poll(p)

\* Every step is quiet or writes rows; a submission does one or the other.
LEMMA StepCases == ManagedNext => Quiet \/ Writes
  <1> SUFFICES ASSUME ManagedNext PROVE Quiet \/ Writes
    OBVIOUS
  <1>1. ASSUME NEW s \in Session, SessionStep(s) PROVE Quiet \/ Writes
    <2>1. CASE Enter(s) \/ Observe(s) \/ Refuse(s) \/ Abandon(s)
      BY <2>1 DEF Quiet
    <2>2. ASSUME NEW j \in Job, OperatorRequest(s, j) PROVE Quiet \/ Writes
      BY <2>2 DEF OperatorRequest, Quiet, QuietRequest, Writes
    <2>3. ASSUME NEW j \in Job, RunnerRequest(s, j) PROVE Quiet \/ Writes
      <3>1. ASSUME NEW artifact \in Artifact, NEW failed \in BOOLEAN,
                   Submit(s, j, artifact, failed)
            PROVE  Quiet \/ Writes
        BY <3>1 DEF Submit, Quiet, Writes
      <3> QED
        BY <2>3, <3>1 DEF RunnerRequest, Quiet, QuietRequest, Writes
    <2> QED
      BY <1>1, <2>1, <2>2, <2>3 DEF SessionStep
  <1>2. CASE ClockStep
    BY <1>2 DEF Quiet
  <1>3. CASE OtherStep
    BY <1>3 DEF OtherStep, Quiet, Writes
  <1> QED
    BY <1>1, <1>2, <1>3 DEF ManagedNext

-------------------------------------------------------------------------------
(* Types.                                                                  *)

\* The rows' part of the type invariant, and the clock's.
RowsTyped ==
    /\ marked \in [Job -> BOOLEAN]
    /\ managed_approval_id \in [Job -> Approval \union {None}]
    /\ approval \in [Approval -> ApprovalRow]
    /\ contract \in [Job -> ContractRow]
    /\ started_at \in [Job -> Nat]
    /\ lease \in [Job -> Nat]
    /\ result \in [Job -> ResultRow]
    /\ stopped \in [Job -> {"cancelled", "failed", None}]
    /\ evidence \in [Job -> Nat]

ClockTyped ==
    /\ wall \in Nat
    /\ observed \in Nat
    /\ session \in [Session -> Operation]

\* The two parts and the authority make up the type invariant.
LEMMA TypeParts ==
    ManagedTypeOK <=> RowsTyped /\ ClockTyped /\ revision \in 0..MaxRevision /\ key \in BOOLEAN
  BY DEF ManagedTypeOK, RowsTyped, ClockTyped

\* The time an operation sees is a number.
LEMMA NowIsNatural ==
    ASSUME ClockTyped, NEW s \in Session
    PROVE  Now(s) \in Nat /\ wall <= Now(s)
  BY DEF ClockTyped, Operation, Now, Later

\* A body's commit leaves the clock well typed and never behind the ledger.
LEMMA LockedTimeTyped ==
    ASSUME ClockTyped, NEW s \in Session, LockedTime(s)
    PROVE  ClockTyped' /\ observed' = Now(s) /\ observed <= observed'
  <1>1. Now(s) \in Nat
    BY NowIsNatural
  <1> QED
    BY <1>1 DEF LockedTime, Return, Away, Operation, ClockTyped

\* Quiet steps keep the types.
LEMMA QuietTyped == ManagedTypeOK /\ Quiet => ManagedTypeOK'
  <1> SUFFICES ASSUME ManagedTypeOK, Quiet PROVE ManagedTypeOK'
    OBVIOUS
  <1>1. RowsTyped /\ ClockTyped /\ revision \in 0..MaxRevision /\ key \in BOOLEAN
    BY TypeParts
  <1>2. RowsTyped'
    BY <1>1, QuietLeavesRows DEF rowVars, permitVars, receiptVars, RowsTyped
  <1> USE DEF ClockTyped, Operation, Away, Return, authorityVars
  <1>3. ASSUME ClockTyped', revision' \in 0..MaxRevision, key' \in BOOLEAN PROVE ManagedTypeOK'
    BY <1>2, <1>3 DEF ManagedTypeOK, RowsTyped
  <1>4. CASE Tick
    <2>1. ClockTyped'
      BY <1>1, <1>4 DEF Tick
    <2> QED
      BY <1>1, <1>3, <1>4, <2>1 DEF Tick
  <1>5. ASSUME NEW t \in Time, SetClock(t) PROVE ManagedTypeOK'
    BY <1>1, <1>3, <1>5, ManagedAssumption DEF SetClock, Time, ManagedAssumption
  <1>6. CASE ChangeAuthority
    BY <1>1, <1>3, <1>6, ManagedAssumption DEF ChangeAuthority, clockVars, ManagedAssumption
  <1>7. CASE RevokeApiKey
    BY <1>1, <1>3, <1>7 DEF RevokeApiKey, clockVars
  <1>8. ASSUME NEW s \in Session, Enter(s) \/ Observe(s) \/ Refuse(s) \/ Abandon(s) \/ Answer(s)
        PROVE  ManagedTypeOK'
    <2>1. Now(s) \in Nat
      BY <1>1, NowIsNatural
    <2>2. CASE Enter(s)
      BY <1>1, <1>3, <2>2 DEF Enter
    <2>3. CASE Observe(s)
      BY <1>1, <1>3, <2>1, <2>3 DEF Observe
    <2>4. CASE Refuse(s)
      BY <1>1, <1>3, <2>1, <2>4 DEF Refuse, Later
    <2>5. CASE Abandon(s) \/ Answer(s)
      BY <1>1, <1>3, <2>5 DEF Abandon, Answer
    <2> QED
      BY <1>8, <2>2, <2>3, <2>4, <2>5
  <1>9. ASSUME NEW s \in Session, NEW j \in Job, QuietRequest(s, j) PROVE ManagedTypeOK'
    <2>1. CASE LockedTime(s) /\ UNCHANGED authorityVars
      BY <1>1, <1>3, <2>1, LockedTimeTyped
    <2>2. CASE Answer(s)
      BY <1>8, <2>2
    <2> QED
      BY <1>9, <2>1, <2>2 DEF QuietRequest, Reregister, Current, FinishAgain, ReportAgain
  <1> QED
    BY <1>4, <1>5, <1>6, <1>7, <1>8, <1>9 DEF Quiet, ClockStep

\* Flags of a row are set within its type.
LEMMA FlagsTyped ==
    /\ \A row \in ApprovalRow : [row EXCEPT !.revoked = TRUE] \in ApprovalRow
    /\ \A row \in ContractRow : [row EXCEPT !.consumed = TRUE] \in ContractRow
  <1>1. \A row \in ApprovalRow : [row EXCEPT !.revoked = TRUE] \in ApprovalRow
    BY Zenon DEF ApprovalRow
  <1>2. \A row \in ContractRow : [row EXCEPT !.consumed = TRUE] \in ContractRow
    BY Zenon DEF ContractRow
  <1> QED
    BY <1>1, <1>2

\* What a request body leaves well typed once its rows are.
LEMMA RequestTyped ==
    ASSUME ManagedTypeOK, RowsTyped', NEW s \in Session, LockedTime(s), UNCHANGED authorityVars
    PROVE  ManagedTypeOK'
  <1>1. ClockTyped'
    BY TypeParts, LockedTimeTyped
  <1>2. revision' \in 0..MaxRevision /\ key' \in BOOLEAN
    BY TypeParts DEF authorityVars
  <1> QED
    BY <1>1, <1>2 DEF ManagedTypeOK, RowsTyped, ClockTyped

\* A renewed lease is a number, between the time of the renewal and the ceiling.
LEMMA RenewedLeaseNatural ==
    ASSUME TypeOK, ManagedTypeOK, NEW s \in Session, NEW j \in Job, NEW ago \in Time,
           Refresh(s, j, ago)
    PROVE  LET until == Earlier(Now(s) - ago + LeaseSeconds, Ceiling(j))
           IN  until \in Nat /\ until <= Ceiling(j) /\ Now(s) < until
  <1>1. Now(s) \in Nat
    BY TypeParts, NowIsNatural
  <1>2. managed_approval_id[j] \in Approval
    BY DEF Refresh, Permitted, ManagedTypeOK
  <1>3. Ceiling(j) \in Nat
    BY <1>2, ManagedAssumption
    DEF Ceiling, Earlier, ApprovalRow, TypeOK, ManagedTypeOK, ManagedAssumption
  <1>4. Now(s) - ago \in Nat
    BY <1>1, ManagedAssumption DEF Refresh, Looked, ManagedTypeOK, Time, ManagedAssumption
  <1>5. Now(s) < Earlier(Now(s) - ago + LeaseSeconds, Ceiling(j))
    BY DEF Refresh
  <1> QED
    BY <1>1, <1>3, <1>4, <1>5, ManagedAssumption DEF Earlier, ManagedAssumption

\* Requests that write rows keep the types.
LEMMA RequestWritesTyped ==
    ASSUME TypeOK, ManagedTypeOK, NEW s \in Session, NEW j \in Job,
           \/ \E a \in Approval, expires_at \in Time : Register(s, j, a, expires_at)
           \/ Revoke(s, j)
           \/ \E r \in Request, ago \in Time : ClaimManaged(s, j, r, ago)
           \/ \E ago \in Time : Refresh(s, j, ago)
           \/ Consume(s, j)
           \/ \E artifact \in Artifact, failed \in BOOLEAN : Retain(s, j, artifact, failed)
           \/ \E outcome \in Terminal : Finish(s, j, outcome)
           \/ \E outcome \in {"cancelled", "failed"} : Report(s, j, outcome)
    PROVE  ManagedTypeOK'
  <1>0. RowsTyped /\ ClockTyped /\ Now(s) \in Nat
    BY TypeParts, NowIsNatural
  <1> USE DEF RowsTyped, permitVars, receiptVars
  <1>1. ASSUME NEW a \in Approval, NEW expires_at \in Time, Register(s, j, a, expires_at)
        PROVE  ManagedTypeOK'
    <2>1. expires_at \in Nat /\ revision \in Nat
      BY ManagedAssumption, TypeParts DEF Time, ManagedAssumption
    <2>2. /\ Policy \in (ConcLimit \union {None}) \X (TargetLimit \union {None})
                         \X (DurationLimit \union {None})
          /\ spec \in Version \union {None}
      BY DEF TypeOK, Policy
    <2>3. [job |-> j, revision |-> revision, case |-> spec, policy |-> Policy,
           expires_at |-> expires_at, issued |-> 0, revoked |-> FALSE] \in ApprovalRow
      BY <2>1, <2>2 DEF ApprovalRow
    <2>4. /\ marked' \in [Job -> BOOLEAN]
          /\ managed_approval_id' \in [Job -> Approval \union {None}]
          /\ approval' \in [Approval -> ApprovalRow]
      BY <1>0, <1>1, <2>3 DEF Register
    <2> QED
      BY <1>0, <1>1, <2>4, RequestTyped DEF Register
  <1>2. CASE Revoke(s, j)
    <2> DEFINE a == managed_approval_id[j]
    <2>1. a \in Approval /\ approval[a] \in ApprovalRow
      BY <1>0, <1>2 DEF Revoke
    <2>2. approval' = [approval EXCEPT ![a] = [approval[a] EXCEPT !.revoked = TRUE]]
      BY <1>2 DEF Revoke
    <2>3. approval' \in [Approval -> ApprovalRow]
      BY <1>0, <2>1, <2>2, FlagsTyped
    <2> QED
      BY <1>0, <1>2, <2>3, RequestTyped DEF Revoke
  <1>3. ASSUME NEW r \in Request, NEW ago \in Time, ClaimManaged(s, j, r, ago) PROVE ManagedTypeOK'
    <2> DEFINE a == managed_approval_id[j]
    <2>1. a \in Approval /\ approval[a] \in ApprovalRow
      BY <1>0, <1>3 DEF ClaimManaged, Permitted
    <2>2. approval[a].issued + 1 \in Nat
      BY <2>1 DEF ApprovalRow
    <2>3. approval' \in [Approval -> ApprovalRow]
      BY <1>0, <1>3, <2>1, <2>2 DEF ClaimManaged, ApprovalRow
    <2>4. contract' \in [Job -> ContractRow]
      BY <1>0, <1>3, <2>1, <2>2 DEF ClaimManaged, ContractRow
    <2>5. Now(s) - ago \in Nat /\ wall - ago + LeaseSeconds \in Nat
      BY <1>0, <1>3, ManagedAssumption DEF ClaimManaged, Looked, ClockTyped, Time, ManagedAssumption
    <2>6. started_at' \in [Job -> Nat] /\ lease' \in [Job -> Nat]
      BY <1>0, <1>3, <2>5 DEF ClaimManaged
    <2> QED
      BY <1>0, <1>3, <2>3, <2>4, <2>6, RequestTyped DEF ClaimManaged
  <1>4. ASSUME NEW ago \in Time, Refresh(s, j, ago) PROVE ManagedTypeOK'
    <2> DEFINE until == Earlier(Now(s) - ago + LeaseSeconds, Ceiling(j))
    <2>1. until \in Nat
      BY <1>4, RenewedLeaseNatural
    <2>2. lease' = [lease EXCEPT ![j] = until]
      BY <1>4 DEF Refresh
    <2> QED
      BY <1>0, <1>4, <2>1, <2>2, RequestTyped DEF Refresh
  <1>5. CASE Consume(s, j)
    <2>1. contract' = [contract EXCEPT ![j] = [contract[j] EXCEPT !.consumed = TRUE]]
      BY <1>5 DEF Consume
    <2>2. contract' \in [Job -> ContractRow]
      BY <1>0, <2>1, FlagsTyped
    <2> QED
      BY <1>0, <1>5, <2>2, RequestTyped DEF Consume
  <1>6. ASSUME NEW artifact \in Artifact, NEW failed \in BOOLEAN, Retain(s, j, artifact, failed)
        PROVE  ManagedTypeOK'
    BY <1>0, <1>6, RequestTyped DEF Retain, ResultRow
  <1>7. ASSUME NEW outcome \in Terminal, Finish(s, j, outcome) PROVE ManagedTypeOK'
    BY <1>0, <1>7, RequestTyped DEF Finish, ResultRow
  <1>8. ASSUME NEW outcome \in {"cancelled", "failed"}, Report(s, j, outcome) PROVE ManagedTypeOK'
    BY <1>0, <1>8, RequestTyped DEF Report
  <1> QED
    BY <1>1, <1>2, <1>3, <1>4, <1>5, <1>6, <1>7, <1>8

\* The handlers of JobControl keep the types of what they do not know.
LEMMA HandlersTyped ==
    ASSUME ManagedTypeOK,
           \/ ChangeEngagement
           \/ \E j \in Job, parent \in Job \union {None} : CreateMarked(j, parent)
           \/ UNCHANGED managedVars
    PROVE  ManagedTypeOK'
  <1> USE DEF ManagedTypeOK, permitVars, receiptVars, authorityVars, clockVars
  <1>1. CASE ChangeEngagement
    <2>1. revision' \in 0..MaxRevision
      BY <1>1, ManagedAssumption DEF ChangeEngagement, Revise, ManagedAssumption
    <2> QED
      BY <1>1, <2>1 DEF ChangeEngagement
  <1>2. ASSUME NEW j \in Job, NEW parent \in Job \union {None}, CreateMarked(j, parent)
        PROVE  ManagedTypeOK'
    BY <1>2 DEF CreateMarked
  <1>3. CASE UNCHANGED managedVars
    BY <1>3 DEF managedVars
  <1> QED
    BY <1>1, <1>2, <1>3

-------------------------------------------------------------------------------
(* The inductive invariant.                                                *)

\* Beyond what the runs check: a job with a contract is past its claim and its legacy lease never
\* ran, nothing is launched without a contract, only marked jobs have an approval, and no outcome
\* is without an artifact.
Linked ==
    \A j \in Job :
        /\ contract[j].approval # None => status[j] \notin {"absent", "pending"} /\ ~expired[j]
        /\ contract[j].approval = None => ~contract[j].consumed
        /\ managed_approval_id[j] # None => marked[j]
        /\ result[j].outcome # None => result[j].artifact # None

ManagedInv ==
    /\ Consistent
    /\ ManagedTypeOK
    /\ ClaimsAreConsistent
    /\ ReceiptsAgree
    /\ Linked

\* A job with an attempt has a row.
LEMMA AttemptHasRow ==
    ASSUME Consistent, NEW j \in Job, state[j] # "none"
    PROVE  Exists(j) /\ status[j] # "pending"
  BY DEF Consistent, TypeOK, ExecutionAgreesWithJob, State, Finished, Exists, Row

-------------------------------------------------------------------------------
(* Managed steps are steps of JobControl.                                  *)

\* A managed claim is a claim of JobControl, by a request that owns its execution.
LEMMA ManagedClaimIsClaim ==
    ASSUME NEW s \in Session, NEW j \in Job, NEW r \in Request, NEW ago \in Time,
           ClaimManaged(s, j, r, ago)
    PROVE  Claim(j, r) /\ r.owned /\ j \in GateJob /\ status[j] = "pending"
  <1>1. r.owned
    BY RequestFields DEF ClaimManaged
  <1>2. target_limit # None /\ j \in GateJob /\ r.binding = spec /\ spec # None
    BY DEF ClaimManaged, ChargeOk
  <1>3. status[j] = "pending" /\ ~stop_work
    BY DEF ClaimManaged, Permitted
  <1> QED
    BY <1>1, <1>2, <1>3 DEF ClaimManaged, Claim

\* What finish and report write is an accepted finish_execution of JobControl.
LEMMA ManagedEndIsFinish ==
    ASSUME ManagedInv, NEW s \in Session, NEW j \in Job, NEW outcome \in Terminal,
           Launched(j), state[j] \notin Terminal, EndAttempt(j, outcome),
           outcome = "completed" => MayCompleteManaged(s, j)
    PROVE  FinishExecution(j, outcome)
  <1>1. state[j] \in Open
    BY DEF Launched, Owned, ManagedInv, Consistent, TypeOK, State
  <1>2. contract[j].approval # None
    BY DEF Launched, Owned
  <1>3. outcome = "completed" => MayComplete(j)
    BY <1>2 DEF MayCompleteManaged, MayComplete, Live, Permitted, ManagedInv, Linked
  <1>4. outcome # "uncertain"
    BY DEF Terminal
  <1> QED
    BY <1>1, <1>3, <1>4 DEF EndAttempt, FinishExecution

\* Every managed step is a step of JobControl or leaves its variables alone.
LEMMA ManagedStepIsStep == ManagedInv /\ [ManagedNext]_allVars => [Next]_vars
  <1> SUFFICES ASSUME ManagedInv, [ManagedNext]_allVars PROVE [Next]_vars
    OBVIOUS
  <1>1. CASE UNCHANGED allVars
    BY <1>1 DEF allVars
  <1>2. CASE Quiet
    BY <1>2, QuietLeavesRows DEF rowVars
  <1>3. CASE Writes
    <2>1. ASSUME NEW s \in Session, NEW j \in Job, NEW r \in Request, NEW ago \in Time,
                 ClaimManaged(s, j, r, ago)
          PROVE  Next
      BY <2>1, ManagedClaimIsClaim DEF Next, JobStep, RunnerStep
    <2>2. ASSUME NEW s \in Session, NEW j \in Job, NEW outcome \in Terminal, Finish(s, j, outcome)
          PROVE  Next
      <3>1. FinishExecution(j, outcome)
        BY <2>2, ManagedEndIsFinish DEF Finish
      <3> QED
        BY <3>1 DEF Next, JobStep, RunnerStep
    <2>3. ASSUME NEW s \in Session, NEW j \in Job, NEW outcome \in {"cancelled", "failed"},
                 Report(s, j, outcome)
          PROVE  Next
      <3>1. outcome \in Terminal /\ outcome # "completed"
        BY DEF Terminal
      <3>2. FinishExecution(j, outcome)
        BY <2>3, <3>1, ManagedEndIsFinish DEF Report
      <3> QED
        BY <3>1, <3>2 DEF Next, JobStep, RunnerStep
    <2>4. ASSUME NEW s \in Session, NEW j \in Job,
                 \/ \E a \in Approval, expires_at \in Time : Register(s, j, a, expires_at)
                 \/ Revoke(s, j)
                 \/ \E ago \in Time : Refresh(s, j, ago)
                 \/ Consume(s, j)
                 \/ \E artifact \in Artifact, failed \in BOOLEAN : Retain(s, j, artifact, failed)
          PROVE  UNCHANGED vars
      BY <2>4 DEF Register, Revoke, Refresh, Consume, Retain
    <2>5. CASE ChangeEngagement
      BY <2>5 DEF ChangeEngagement, Next
    <2>6. CASE \/ \E j \in Job, parent \in Job \union {None} : CreateMarked(j, parent)
               \/ \E j \in Job : ChangeJob(j) \/ LegacyRun(j)
      BY <2>6 DEF CreateMarked, ChangeJob, LegacyRun, Next, JobStep, OperatorStep
    <2>7. CASE \E p \in Poller : Poll(p)
      BY <2>7 DEF Poll, Next
    <2> QED
      BY <1>3, <2>1, <2>2, <2>3, <2>4, <2>5, <2>6, <2>7 DEF Writes
  <1> QED
    BY <1>1, <1>2, <1>3, StepCases

\* The rows of JobControl stay consistent under every managed step.
LEMMA ManagedStepConsistent == ManagedInv /\ [ManagedNext]_allVars => Consistent'
  <1> SUFFICES ASSUME ManagedInv, [ManagedNext]_allVars PROVE Consistent'
    OBVIOUS
  <1>1. [Next]_vars
    BY ManagedStepIsStep
  <1>2. Consistent
    BY DEF ManagedInv
  <1> QED
    BY <1>1, <1>2, StepConsistent

-------------------------------------------------------------------------------
(* What JobControl's own handlers may do to a job that needs an            *)
(* authorization.                                                          *)

Ordinary(k) ==
    /\ state'[k] \in {state[k], "none"} \/ (state[k] = "active" /\ state'[k] = "cancel_requested")
    /\ Exists(k)' => /\ state'[k] = "none" => state[k] = "none"
                     /\ Exists(k) \/ status[k] = "absent"
    /\ capacity_reserved'[k] => capacity_reserved[k]
    /\ expired'[k] => expired[k]
    /\ case_snapshot'[k] = case_snapshot[k]
    /\ status'[k] \in {"absent", "pending"} =>
          status[k] \in {"absent", "pending"} \/ (Exists(k) /\ state[k] = "none")

\* Dropping rows is ordinary for the dropped and for the others.
LEMMA DropIsOrdinary ==
    ASSUME TypeOK, NEW J \in SUBSET Job, DropRows(J), NEW k \in Job
    PROVE  Ordinary(k)
  <1> USE DEF TypeOK, DropRows, Ordinary, Exists, Row, Status
  <1>1. CASE k \in J
    <2>1. ~capacity_reserved'[k] /\ ~expired'[k]
      BY <1>1
    <2> QED
      BY <1>1, <2>1
  <1>2. CASE k \notin J
    <2>1. capacity_reserved'[k] = capacity_reserved[k] /\ expired'[k] = expired[k]
      BY <1>2
    <2> QED
      BY <1>2, <2>1
  <1> QED
    BY <1>1, <1>2

\* The engagement's handlers do ordinary things to every job.
LEMMA EngagementIsOrdinary ==
    ASSUME TypeOK, EngagementStep, NEW k \in Job
    PROVE  Ordinary(k)
  <1> USE DEF TypeOK, engagementVars, policyVars, ledgerVars, jobVars, executionVars, pollVars
  <1>1. CASE DeleteEngagement
    <2>1. DropRows({j \in Job : Exists(j)})
      BY <1>1 DEF DeleteEngagement
    <2> QED
      BY <2>1, DropIsOrdinary
  <1>2. CASE EngageStopWork
    BY <1>2 DEF EngageStopWork, Ordinary, Exists, Row, Status
  <1>3. ASSUME NEW c \in Chains, CreatePipeline(c) PROVE Ordinary(k)
    BY <1>3 DEF CreatePipeline, Queueable, Ordinary, Exists, Row, Status
  <1>4. CASE UNCHANGED <<jobVars, executionVars>>
    BY <1>4 DEF Ordinary, Exists
  <1>5. CASE \/ \E v \in Version : EditCase(v)
             \/ DeleteCase \/ ReleaseStopWork
             \/ \E l \in ConcLimit : ConfigureConcurrency(l)
             \/ \E l \in TargetLimit : ConfigureTargets(l)
             \/ \E l \in DurationLimit : ConfigureDuration(l)
    BY <1>4, <1>5 DEF EditCase, DeleteCase, ReleaseStopWork, ConfigureConcurrency,
                      ConfigureTargets, ConfigureDuration
  <1> QED
    BY <1>1, <1>2, <1>3, <1>5 DEF EngagementStep

\* So do an operator's on one job, to that job and to the others.
LEMMA OperatorIsOrdinary ==
    ASSUME TypeOK, NEW j \in Job, OperatorStep(j), NEW k \in Job
    PROVE  Ordinary(k)
  <1> USE DEF TypeOK, jobVars, executionVars
  <1>1. CASE DeleteJob(j)
    BY <1>1, DropIsOrdinary DEF DeleteJob
  <1>2. ASSUME NEW parent \in Job \union {None}, CreateJob(j, parent) PROVE Ordinary(k)
    BY <1>2 DEF CreateJob, Queueable, Ordinary, Exists, Row, Status
  <1>3. ASSUME NEW new \in Row, UpdateJob(j, new) PROVE Ordinary(k)
    BY <1>3 DEF UpdateJob, Ordinary, Exists, Row, Status
  <1>4. CASE RequestCancel(j)
    BY <1>4 DEF RequestCancel, Ordinary, Exists, Row, Status
  <1> QED
    BY <1>1, <1>2, <1>3, <1>4 DEF OperatorStep

\* The legacy adapter touches no job but its own.
LEMMA RunnerIsOrdinary ==
    ASSUME TypeOK, NEW j \in Job, RunnerStep(j), NEW k \in Job, k # j
    PROVE  Ordinary(k)
  <1> USE DEF TypeOK, jobVars, executionVars, Ordinary, Exists
  <1>1. ASSUME NEW r \in Request, Claim(j, r) PROVE Ordinary(k)
    <2>1. /\ status'[k] = status[k] /\ case_snapshot'[k] = case_snapshot[k]
          /\ state'[k] = state[k]
      BY <1>1 DEF Claim, Issue
    <2>2. expired'[k] = expired[k] /\ capacity_reserved'[k] = capacity_reserved[k]
      BY <1>1 DEF Claim, Issue
    <2> QED
      BY <2>1, <2>2
  <1>2. CASE Expire(j)
    BY <1>2 DEF Expire
  <1>3. CASE RefreshExecution(j)
    BY <1>3 DEF RefreshExecution
  <1>4. CASE RefuseCompletion(j)
    BY <1>4 DEF RefuseCompletion
  <1>5. ASSUME NEW outcome \in Terminal \union {"uncertain"}, FinishExecution(j, outcome)
        PROVE  Ordinary(k)
    BY <1>5 DEF FinishExecution
  <1> QED
    BY <1>1, <1>2, <1>3, <1>4, <1>5 DEF RunnerStep

\* A poll only fails rows that exist.
LEMMA PollIsOrdinary ==
    ASSUME TypeOK, NEW p \in Poller, PollStep(p), NEW k \in Job
    PROVE  Ordinary(k)
  <1> USE DEF TypeOK, jobVars, executionVars, Ordinary, Exists, Row
  <1>1. CASE PollPending(p) \/ PollParents(p) \/ PollAbort(p)
    BY <1>1 DEF PollPending, PollParents, PollAbort
  <1>2. CASE PollFailOrphans(p)
    BY <1>2 DEF PollFailOrphans, FailRows
  <1>3. CASE PollFailCaseless(p)
    BY <1>3 DEF PollFailCaseless, FailRows, CannotFailCaseless, Caseless
  <1> QED
    BY <1>1, <1>2, <1>3 DEF PollStep

\* Ordinary steps keep permissions, receipts and jobs in agreement.
LEMMA OrdinaryKeepsAgreement ==
    ASSUME ManagedInv, UNCHANGED <<permitVars, receiptVars>>,
           \A k \in Job : marked[k] => Ordinary(k)
    PROVE  ClaimsAreConsistent' /\ ReceiptsAgree' /\ Linked'
  <1> USE DEF ManagedInv, permitVars, receiptVars
  <1>1. ASSUME NEW k \in Job, contract[k].approval # None
        PROVE  marked[k] /\ Ordinary(k) /\ status[k] # "absent"
    BY <1>1 DEF ClaimsAreConsistent, NoContract, Linked
  <1>2. Linked'
    <2>1. ASSUME NEW k \in Job, contract[k].approval # None
          PROVE  status'[k] \notin {"absent", "pending"} /\ ~expired'[k]
      <3>1. Exists(k) => state[k] # "none"
        BY <1>1, <2>1 DEF ClaimsAreConsistent
      <3> QED
        BY <1>1, <2>1, <3>1 DEF Linked, Ordinary
    <2> QED
      BY <2>1 DEF Linked
  <1>3. ClaimsAreConsistent'
    <2>1. ASSUME NEW k \in Job, contract[k].approval # None
          PROVE  case_snapshot'[k] = case_snapshot[k]
      BY <1>1, <2>1 DEF Ordinary
    <2>2. ASSUME NEW k \in Job, Exists(k)', marked[k]
          PROVE  contract[k].approval # None <=> state'[k] # "none"
      <3>1. CASE contract[k].approval # None
        BY <1>1, <2>2, <3>1 DEF Ordinary, ClaimsAreConsistent
      <3>2. CASE contract[k].approval = None
        <4>1. state[k] = "none"
          BY <2>2, <3>2, AttemptHasRow DEF ClaimsAreConsistent
        <4> QED
          BY <2>2, <3>2, <4>1 DEF Ordinary
      <3> QED
        BY <3>1, <3>2
    <2> QED
      BY <2>1, <2>2 DEF ClaimsAreConsistent, Exists
  <1>4. ReceiptsAgree'
    <2>1. ASSUME NEW k \in Job, stopped[k] # None \/ result[k].outcome # None, Exists(k)'
          PROVE  Exists(k) /\ state'[k] = state[k] /\ (capacity_reserved'[k] => capacity_reserved[k])
      <3>1. contract[k].approval # None
        BY <2>1 DEF ReceiptsAgree, Linked
      <3>2. Exists(k) /\ state[k] # "none"
        BY <1>1, <2>1, <3>1 DEF Ordinary, ClaimsAreConsistent
      <3>3. state[k] \in Terminal
        BY <2>1, <3>2 DEF ReceiptsAgree, ManagedTypeOK, ResultRow, Terminal
      <3> QED
        BY <1>1, <2>1, <3>1, <3>2, <3>3 DEF Ordinary, Terminal
    <2>2. ASSUME NEW k \in Job, marked[k], state'[k] \in Terminal
          PROVE  state[k] \in Terminal
      BY <2>2 DEF Ordinary, Terminal
    <2> QED
      BY <2>1, <2>2 DEF ReceiptsAgree, Exists
  <1> QED
    BY <1>2, <1>3, <1>4

-------------------------------------------------------------------------------
(* Every step keeps the invariant.                                         *)

Agreement == ClaimsAreConsistent /\ ReceiptsAgree /\ Linked

\* Steps that change no row keep the agreement.
LEMMA FrameKeepsAgreement == Agreement /\ UNCHANGED rowVars => Agreement'
  BY DEF Agreement, ClaimsAreConsistent, ReceiptsAgree, Linked, Exists, rowVars, permitVars,
         receiptVars, vars, jobVars, executionVars

\* Registering and revoking: the job is pending, or only a flag of its approval changes.
LEMMA ApprovalRequestAgrees ==
    ASSUME ManagedInv, NEW s \in Session, NEW j \in Job,
           \/ \E a \in Approval, expires_at \in Time : Register(s, j, a, expires_at)
           \/ Revoke(s, j)
    PROVE  Agreement'
  <1> USE DEF ManagedInv, Agreement, ManagedTypeOK, receiptVars, vars, jobVars, executionVars
  <1>1. ASSUME NEW a \in Approval, NEW expires_at \in Time, Register(s, j, a, expires_at)
        PROVE  Agreement'
    <2>1. contract[j].approval = None /\ status[j] = "pending" /\ state[j] = "none"
      BY <1>1, AttemptHasRow DEF Register, Linked
    <2>2. \A k \in Job : contract[k].approval # a
      BY <1>1, JobAssumption, ManagedAssumption
      DEF Register, ClaimsAreConsistent, JobAssumption, ManagedAssumption
    <2>3. \A k \in Job : contract[k].approval # None =>
              /\ k # j
              /\ approval'[contract[k].approval] = approval[contract[k].approval]
              /\ managed_approval_id'[k] = managed_approval_id[k]
      BY <1>1, <2>1, <2>2 DEF Register, ContractRow
    <2>4. \A k \in Job : k # j => marked'[k] = marked[k]
      BY <1>1 DEF Register
    <2>5. marked'[j]
      BY <1>1 DEF Register
    <2>6. UNCHANGED <<status, state, case_snapshot, expired, capacity_reserved, contract,
                      result, stopped, evidence>>
      BY <1>1 DEF Register
    <2>7. ClaimsAreConsistent'
      BY <2>1, <2>3, <2>4, <2>5, <2>6 DEF ClaimsAreConsistent, Exists
    <2>8. ReceiptsAgree'
      <3>1. \A k \in Job : marked'[k] /\ state'[k] \in Terminal => marked[k] /\ state[k] \in Terminal
        BY <2>1, <2>4, <2>6 DEF Terminal
      <3> QED
        BY <2>6, <3>1 DEF ReceiptsAgree, Exists
    <2>9. Linked'
      BY <1>1, <2>4, <2>5, <2>6 DEF Linked, Register
    <2> QED
      BY <2>7, <2>8, <2>9
  <1>2. CASE Revoke(s, j)
    <2>1. \A a \in Approval : /\ approval'[a].job = approval[a].job
                               /\ approval'[a].case = approval[a].case
                               /\ approval'[a].issued = approval[a].issued
      BY <1>2 DEF Revoke, ApprovalRow
    <2>2. UNCHANGED <<status, state, case_snapshot, expired, capacity_reserved, contract,
                      marked, managed_approval_id, result, stopped, evidence>>
      BY <1>2 DEF Revoke
    <2>3. \A k \in Job : contract[k].approval # None => contract[k].approval \in Approval
      BY DEF ContractRow
    <2> QED
      BY <2>1, <2>2, <2>3 DEF ClaimsAreConsistent, ReceiptsAgree, Linked, Exists
  <1> QED
    BY <1>1, <1>2

\* A managed claim ties job, approval and contract together; it meets no older receipt.
LEMMA ClaimManagedAgrees ==
    ASSUME ManagedInv, NEW s \in Session, NEW j \in Job, NEW r \in Request, NEW ago \in Time,
           ClaimManaged(s, j, r, ago)
    PROVE  Agreement'
  <1> USE DEF ManagedInv, Agreement, ManagedTypeOK, receiptVars, Consistent, TypeOK
  <1> DEFINE a == managed_approval_id[j]
  <1>1. /\ a \in Approval /\ approval[a].job = j /\ approval[a].case = spec
        /\ contract[j].approval = None /\ approval[a].issued + 1 <= MaxExecutions
    BY DEF ClaimManaged, Permitted
  <1>2. r.owned /\ j \in GateJob /\ status[j] = "pending"
    BY ManagedClaimIsClaim
  <1>3. /\ status' = [status EXCEPT ![j] = "running"]
        /\ state' = [state EXCEPT ![j] = "active"]
        /\ case_snapshot' = [case_snapshot EXCEPT ![j] = spec]
    BY <1>2 DEF ClaimManaged, Issue
  <1>4. ~expired'[j] /\ \A k \in Job : k # j => expired'[k] = expired[k]
    BY <1>2 DEF ClaimManaged, Issue
  <1>5. \A k \in Job : k # j => capacity_reserved'[k] = capacity_reserved[k]
    BY <1>2 DEF ClaimManaged, Issue
  <1>6. contract' = [contract EXCEPT ![j] =
            [approval |-> a, ordinal |-> approval[a].issued + 1, consumed |-> FALSE]]
    BY DEF ClaimManaged
  <1>7. /\ approval'[a].job = j /\ approval'[a].case = spec
        /\ approval'[a].issued = approval[a].issued + 1
        /\ \A b \in Approval : b # a => approval'[b] = approval[b]
    BY <1>1 DEF ClaimManaged, ApprovalRow
  <1>8. \A k \in Job : contract[k].approval # None => contract[k].approval # a
                                                      /\ contract[k].approval \in Approval
    BY <1>1 DEF ClaimsAreConsistent, ContractRow
  <1>9. UNCHANGED <<marked, managed_approval_id, result, stopped, evidence>>
    BY DEF ClaimManaged
  <1>10. marked[j]
    BY DEF ClaimManaged, Permitted, Linked
  <1>11. ClaimsAreConsistent'
    <2>1. ASSUME NEW k \in Job, k # j
          PROVE  /\ contract'[k] = contract[k] /\ status'[k] = status[k]
                 /\ state'[k] = state[k] /\ case_snapshot'[k] = case_snapshot[k]
      BY <1>3, <1>6, <2>1
    <2>2. contract'[j].approval = a /\ contract'[j].ordinal = approval[a].issued + 1
      BY <1>6
    <2>3. state'[j] = "active" /\ case_snapshot'[j] = spec
      BY <1>3
    <2>4. \A k \in Job : k # j /\ contract[k].approval # None =>
            approval'[contract[k].approval] = approval[contract[k].approval]
      BY <1>7, <1>8
    <2>5. a # None
      BY DEF ClaimManaged, Permitted
    <2> DEFINE Claimed(k) ==
          /\ contract[k].approval # None =>
                LET row == approval[contract[k].approval]
                IN  /\ managed_approval_id[k] = contract[k].approval
                    /\ row.job = k
                    /\ row.case = case_snapshot[k]
                    /\ contract[k].ordinal = row.issued
                    /\ row.issued <= MaxExecutions
          /\ Exists(k) /\ marked[k] => (contract[k].approval # None <=> state[k] # "none")
          /\ ~marked[k] => contract[k] = NoContract
    <2>6. Claimed(j)'
      BY <1>1, <1>7, <1>9, <1>10, <2>2, <2>3, <2>5
    <2>7. ASSUME NEW k \in Job, k # j PROVE Claimed(k)'
      BY <1>9, <2>1, <2>4, <2>7 DEF ClaimsAreConsistent, Exists
    <2> QED
      BY <2>6, <2>7 DEF ClaimsAreConsistent
  <1>12. ReceiptsAgree'
    <2>1. ~contract[j].consumed /\ stopped[j] = None /\ result[j].artifact = None
          /\ result[j].outcome = None
      BY <1>1 DEF Linked, ReceiptsAgree
    <2>2. state'[j] \notin Terminal
      BY <1>3 DEF Terminal
    <2>3. \A k \in Job : k # j => contract'[k] = contract[k] /\ status'[k] = status[k]
                                  /\ state'[k] = state[k]
      BY <1>3, <1>6
    <2> QED
      BY <1>5, <1>9, <2>1, <2>2, <2>3 DEF ReceiptsAgree, Exists
  <1>13. Linked'
    <2>1. contract'[j].approval = a /\ status'[j] = "running" /\ a # None
      BY <1>3, <1>6 DEF ClaimManaged, Permitted
    <2>2. \A k \in Job : k # j => contract'[k] = contract[k] /\ status'[k] = status[k]
      BY <1>3, <1>6
    <2> QED
      BY <1>4, <1>9, <2>1, <2>2 DEF Linked
  <1> QED
    BY <1>11, <1>12, <1>13

\* Renewing, launching and storing a result leave jobs and executions alone.
LEMMA OwnerRequestAgrees ==
    ASSUME ManagedInv, NEW s \in Session, NEW j \in Job,
           \/ \E ago \in Time : Refresh(s, j, ago)
           \/ Consume(s, j)
           \/ \E artifact \in Artifact, failed \in BOOLEAN :
                 Launched(j) /\ result[j].artifact = None /\ Retain(s, j, artifact, failed)
    PROVE  Agreement'
  <1> USE DEF ManagedInv, Agreement, ManagedTypeOK, receiptVars, permitVars, vars, jobVars,
              executionVars
  <1>1. ASSUME NEW ago \in Time, Refresh(s, j, ago) PROVE Agreement'
    BY <1>1 DEF Refresh, ClaimsAreConsistent, ReceiptsAgree, Linked, Exists
  <1>2. CASE Consume(s, j)
    <2>1. /\ contract[j].approval # None
          /\ contract'[j].approval = contract[j].approval
          /\ contract'[j].ordinal = contract[j].ordinal
      BY <1>2 DEF Consume, Owned, ContractRow
    <2>2. contract'[j].consumed
      BY <1>2 DEF Consume, ContractRow
    <2>3. \A k \in Job : k # j => contract'[k] = contract[k]
      BY <1>2 DEF Consume
    <2>4. UNCHANGED <<status, state, case_snapshot, expired, capacity_reserved, marked,
                      managed_approval_id, approval, result, stopped, evidence>>
      BY <1>2 DEF Consume
    <2>5. ClaimsAreConsistent'
      <3>1. marked[j]
        BY <2>1 DEF ClaimsAreConsistent, NoContract
      <3> QED
        BY <2>1, <2>3, <2>4, <3>1 DEF ClaimsAreConsistent, Exists
    <2>6. ReceiptsAgree' /\ Linked'
      BY <2>1, <2>2, <2>3, <2>4 DEF ReceiptsAgree, Linked, Exists
    <2> QED
      BY <2>5, <2>6
  <1>3. ASSUME NEW artifact \in Artifact, NEW failed \in BOOLEAN,
               Launched(j), result[j].artifact = None, Retain(s, j, artifact, failed)
        PROVE  Agreement'
    <2>1. result[j].outcome = None /\ evidence[j] = 0 /\ contract[j].consumed
      BY <1>3 DEF Launched, ReceiptsAgree, Linked
    <2>2. artifact # None
      BY ManagedAssumption DEF ManagedAssumption
    <2>3. result'[j].artifact = artifact /\ result'[j].outcome = None /\ evidence'[j] = 1
      BY <1>3, <2>1 DEF Retain
    <2>4. \A k \in Job : k # j => result'[k] = result[k] /\ evidence'[k] = evidence[k]
      BY <1>3 DEF Retain
    <2>5. UNCHANGED <<status, state, case_snapshot, expired, capacity_reserved, marked,
                      managed_approval_id, approval, contract, stopped>>
      BY <1>3 DEF Retain
    <2>6. ClaimsAreConsistent'
      BY <2>5 DEF ClaimsAreConsistent, Exists
    <2>7. ReceiptsAgree' /\ Linked'
      BY <2>1, <2>2, <2>3, <2>4, <2>5 DEF ReceiptsAgree, Linked, Exists
    <2> QED
      BY <2>6, <2>7
  <1> QED
    BY <1>1, <1>2, <1>3

\* Ending an attempt: its one receipt is stored with the outcome.
LEMMA EndRequestAgrees ==
    ASSUME ManagedInv, NEW s \in Session, NEW j \in Job,
           \/ \E outcome \in Terminal : Finish(s, j, outcome)
           \/ \E outcome \in {"cancelled", "failed"} : Report(s, j, outcome)
    PROVE  Agreement'
  <1> USE DEF ManagedInv, Agreement, ManagedTypeOK, Consistent, TypeOK
  <1>1. /\ contract[j].approval # None /\ contract[j].consumed
        /\ state[j] # "none" /\ state[j] \notin Terminal
    BY DEF Finish, Report, Launched, Owned
  <1>2. Exists(j) /\ marked[j]
    BY <1>1, AttemptHasRow DEF ClaimsAreConsistent, NoContract
  <1>3. stopped[j] = None /\ result[j].outcome = None
    BY <1>1, <1>2 DEF ReceiptsAgree, ResultRow, Terminal
  <1>4. PICK outcome \in Terminal :
            /\ EndAttempt(j, outcome)
            /\ \/ /\ result[j].artifact # None
                  /\ result' = [result EXCEPT ![j].outcome = outcome]
                  /\ stopped' = stopped
               \/ /\ result' = result
                  /\ stopped' = [stopped EXCEPT ![j] = outcome]
    BY DEF Finish, Report, Terminal, receiptVars
  <1>5. outcome # None /\ outcome # "none"
    BY ManagedAssumption DEF ManagedAssumption, Terminal
  <1>6. UNCHANGED <<case_snapshot, expired, marked, managed_approval_id, approval, contract, evidence>>
    BY DEF Finish, Report, EndAttempt, permitVars
  <1>7. /\ state'[j] = outcome /\ ~capacity_reserved'[j] /\ status'[j] \in {"done", "failed"}
    BY <1>4 DEF EndAttempt
  <1>8. \A k \in Job : k # j => state'[k] = state[k] /\ status'[k] = status[k]
    BY <1>4 DEF EndAttempt
  <1>9. \A k \in Job : k # j => capacity_reserved'[k] = capacity_reserved[k]
    BY <1>4 DEF EndAttempt
  <1>10. \A k \in Job : k # j => result'[k] = result[k] /\ stopped'[k] = stopped[k]
    BY <1>4
  <1>11. /\ result'[j].artifact = result[j].artifact
         /\ \/ result'[j].outcome = outcome /\ stopped'[j] = None /\ result[j].artifact # None
            \/ result'[j].outcome = None /\ stopped'[j] = outcome
    BY <1>3, <1>4 DEF ResultRow
  <1>12. ClaimsAreConsistent'
    BY <1>1, <1>5, <1>6, <1>7, <1>8 DEF ClaimsAreConsistent, Exists
  <1>13. ReceiptsAgree'
    BY <1>1, <1>5, <1>6, <1>7, <1>8, <1>9, <1>10, <1>11 DEF ReceiptsAgree, Exists
  <1>14. Linked'
    BY <1>1, <1>6, <1>7, <1>8, <1>10, <1>11 DEF Linked
  <1> QED
    BY <1>12, <1>13, <1>14

\* JobControl's handlers keep the agreement; a job is marked before it has an attempt.
LEMMA HandlersAgree ==
    ASSUME ManagedInv,
           \/ ChangeEngagement
           \/ \E j \in Job, parent \in Job \union {None} : CreateMarked(j, parent)
           \/ \E j \in Job : ChangeJob(j) \/ LegacyRun(j)
           \/ \E p \in Poller : Poll(p)
    PROVE  Agreement'
  <1>0. TypeOK
    BY DEF ManagedInv, Consistent
  <1>1. CASE ChangeEngagement
    BY <1>0, <1>1, EngagementIsOrdinary, OrdinaryKeepsAgreement DEF ChangeEngagement, Agreement
  <1>2. ASSUME NEW j \in Job, ChangeJob(j) PROVE Agreement'
    BY <1>0, <1>2, OperatorIsOrdinary, OrdinaryKeepsAgreement DEF ChangeJob, managedVars, Agreement
  <1>3. ASSUME NEW j \in Job, LegacyRun(j) PROVE Agreement'
    BY <1>0, <1>3, RunnerIsOrdinary, OrdinaryKeepsAgreement DEF LegacyRun, managedVars, Agreement
  <1>4. ASSUME NEW p \in Poller, Poll(p) PROVE Agreement'
    BY <1>0, <1>4, PollIsOrdinary, OrdinaryKeepsAgreement DEF Poll, managedVars, Agreement
  <1>5. ASSUME NEW j \in Job, NEW parent \in Job \union {None}, CreateMarked(j, parent)
        PROVE  Agreement'
    <2> USE DEF ManagedInv, Agreement, ManagedTypeOK, receiptVars, executionVars
    <2>1. status[j] = "absent" /\ state[j] = "none" /\ contract[j].approval = None
      BY <1>5, AttemptHasRow DEF CreateMarked, CreateJob, Queueable, Linked, Exists, Row
    <2>2. UNCHANGED <<state, case_snapshot, expired, capacity_reserved, managed_approval_id,
                      approval, contract, result, stopped, evidence>>
      BY <1>5 DEF CreateMarked, CreateJob
    <2>3. \A k \in Job : k # j => status'[k] = status[k] /\ marked'[k] = marked[k]
      BY <1>0, <1>5 DEF CreateMarked, CreateJob, TypeOK
    <2>4. marked'[j] /\ state'[j] \notin Terminal
      BY <1>5, <2>1, <2>2 DEF CreateMarked, Terminal
    <2>5. stopped[j] = None /\ result[j].artifact = None /\ result[j].outcome = None
      BY <2>1 DEF Linked, ReceiptsAgree
    <2>6. ClaimsAreConsistent'
      BY <2>1, <2>2, <2>3, <2>4 DEF ClaimsAreConsistent, Exists
    <2>7. ReceiptsAgree'
      BY <2>2, <2>3, <2>4, <2>5 DEF ReceiptsAgree, Exists
    <2>8. Linked'
      BY <2>1, <2>2, <2>3, <2>4 DEF Linked
    <2> QED
      BY <2>6, <2>7, <2>8
  <1> QED
    BY <1>1, <1>2, <1>3, <1>4, <1>5

\* The invariant is inductive.
LEMMA ManagedInductive == ManagedInv /\ [ManagedNext]_allVars => ManagedInv'
  <1> SUFFICES ASSUME ManagedInv, [ManagedNext]_allVars PROVE ManagedInv'
    OBVIOUS
  <1>1. Consistent'
    BY ManagedStepConsistent
  <1>2. ManagedTypeOK /\ TypeOK /\ Agreement
    BY DEF ManagedInv, Consistent, Agreement
  <1>3. CASE UNCHANGED allVars
    <2>1. UNCHANGED managedVars /\ UNCHANGED rowVars
      BY <1>3 DEF allVars, managedVars, rowVars
    <2> QED
      BY <1>1, <1>2, <2>1, HandlersTyped, FrameKeepsAgreement DEF ManagedInv, Agreement
  <1>4. CASE Quiet
    BY <1>1, <1>2, <1>4, QuietTyped, QuietLeavesRows, FrameKeepsAgreement DEF ManagedInv, Agreement
  <1>5. CASE Writes
    <2>1. ManagedTypeOK'
      BY <1>2, <1>5, RequestWritesTyped, HandlersTyped DEF Writes, ChangeJob, LegacyRun, Poll
    <2>2. Agreement'
      BY <1>5, ApprovalRequestAgrees, ClaimManagedAgrees, OwnerRequestAgrees, EndRequestAgrees,
         HandlersAgree DEF Writes
    <2> QED
      BY <1>1, <2>1, <2>2 DEF ManagedInv, Agreement
  <1> QED
    BY <1>3, <1>4, <1>5, StepCases

\* It holds before anything is managed.
LEMMA ManagedInitInv == ManagedInit => ManagedInv
  <1> SUFFICES ASSUME ManagedInit PROVE ManagedInv
    OBVIOUS
  <1>1. Consistent
    BY InitConsistent DEF ManagedInit
  <1> USE DEF ManagedInit, NothingManaged, NoContract, NoResult, Unregistered, Away
  <1>2. revision \in 0..MaxRevision /\ key \in BOOLEAN
    BY ManagedAssumption DEF ManagedAssumption
  <1>3. /\ marked \in [Job -> BOOLEAN]
        /\ managed_approval_id \in [Job -> Approval \union {None}]
    OBVIOUS
  <1>4. Unregistered \in ApprovalRow
    BY DEF ApprovalRow
  <1>5. NoContract \in ContractRow /\ NoResult \in ResultRow
    BY DEF ContractRow, ResultRow
  <1>6. /\ approval \in [Approval -> ApprovalRow]
        /\ contract \in [Job -> ContractRow]
        /\ result \in [Job -> ResultRow]
    BY <1>4, <1>5
  <1>7. /\ started_at \in [Job -> Nat] /\ lease \in [Job -> Nat] /\ evidence \in [Job -> Nat]
        /\ stopped \in [Job -> {"cancelled", "failed", None}]
        /\ wall \in Nat /\ observed \in Nat
        /\ session \in [Session -> Operation]
    BY DEF Operation
  <1>8. ManagedTypeOK
    BY <1>2, <1>3, <1>6, <1>7 DEF ManagedTypeOK
  <1>9. \A j \in Job : state[j] = "none" /\ ~expired[j]
    BY DEF Init, NewEngagement
  <1>10. ClaimsAreConsistent /\ ReceiptsAgree /\ Linked
    BY <1>9 DEF ClaimsAreConsistent, ReceiptsAgree, Linked, Terminal
  <1> QED
    BY <1>1, <1>8, <1>10 DEF ManagedInv

\* Types, the consistency of claims and the agreement of receipts, in every reachable state.
THEOREM ManagedSafety == ManagedSpec => []ManagedRowsAgree
  <1>1. ManagedInv => ManagedRowsAgree
    BY DEF ManagedInv, ManagedRowsAgree
  <1> QED
    BY <1>1, ManagedInitInv, ManagedInductive, PTL DEF ManagedSpec

\* A result, its receipt and the job's terminal state agree, however a lost answer, a retry and
\* an operator's stop interleave (managed_results.py and managed_stops.py).
THEOREM ReceiptsTheorem == ManagedSpec => []ReceiptsAgree
  <1>1. ManagedInv => ReceiptsAgree
    BY DEF ManagedInv
  <1> QED
    BY <1>1, ManagedInitInv, ManagedInductive, PTL DEF ManagedSpec

\* Refinement: with permits, clocks and receipts hidden, managed jobs are jobs of JobControl.
THEOREM ManagedRefinement == ManagedSpec => ImplementsJobControl
  <1>1. ManagedInit => Init
    BY DEF ManagedInit
  <1> QED
    BY <1>1, ManagedInitInv, ManagedInductive, ManagedStepIsStep, PTL
    DEF ManagedSpec, ImplementsJobControl, Spec

\* So budgets, stop-work and the agreement of jobs and executions hold for managed jobs too.
THEOREM ManagedBudgets == ManagedSpec => []RowsAgree
  BY ManagedRefinement, Safety, PTL DEF ImplementsJobControl

\* And so does the accounting: no charge of a managed attempt is counted twice or refunded.
THEOREM ManagedCharges == ManagedSpec => []ChargesSumWithinAccount
  BY ManagedRefinement, ChargesTheorem, PTL DEF ImplementsJobControl

-------------------------------------------------------------------------------
(* What a step may never do.                                               *)

\* No step moves the clock ledger back.
LEMMA LedgerForward == ManagedInv /\ [ManagedNext]_allVars => observed' >= observed
  <1> SUFFICES ASSUME ManagedInv, [ManagedNext]_allVars PROVE observed' >= observed
    OBVIOUS
  <1>0. ClockTyped /\ observed \in Nat
    BY TypeParts DEF ManagedInv, ClockTyped
  <1>1. ASSUME NEW s \in Session, LockedTime(s) PROVE observed' >= observed
    BY <1>0, <1>1, LockedTimeTyped, NowIsNatural
  <1>2. CASE UNCHANGED observed
    BY <1>0, <1>2
  <1>3. CASE Quiet
    <2>1. ASSUME NEW s \in Session, Observe(s) PROVE observed' >= observed
      BY <1>0, <2>1, NowIsNatural DEF Observe
    <2>2. ASSUME NEW s \in Session, Refuse(s) PROVE observed' >= observed
      BY <1>0, <2>2, NowIsNatural DEF Refuse, Later
    <2>3. CASE \/ ClockStep \/ ChangeAuthority \/ RevokeApiKey
               \/ \E s \in Session : Enter(s) \/ Abandon(s) \/ Answer(s)
      BY <1>2, <2>3 DEF ClockStep, Tick, SetClock, ChangeAuthority, RevokeApiKey, Enter, Abandon,
                        Answer, clockVars
    <2>4. ASSUME NEW s \in Session, NEW j \in Job, QuietRequest(s, j) PROVE observed' >= observed
      BY <1>1, <1>2, <2>4 DEF QuietRequest, Reregister, Current, FinishAgain, ReportAgain, Answer
    <2> QED
      BY <1>3, <2>1, <2>2, <2>3, <2>4 DEF Quiet
  <1>4. CASE Writes
    <2>1. CASE \/ ChangeEngagement
               \/ \E j \in Job, parent \in Job \union {None} : CreateMarked(j, parent)
               \/ \E j \in Job : ChangeJob(j) \/ LegacyRun(j)
               \/ \E p \in Poller : Poll(p)
      BY <1>2, <2>1 DEF ChangeEngagement, CreateMarked, ChangeJob, LegacyRun, Poll, managedVars,
                        clockVars
    <2>2. ASSUME NEW s \in Session, NEW j \in Job,
                 \/ \E a \in Approval, expires_at \in Time : Register(s, j, a, expires_at)
                 \/ Revoke(s, j)
                 \/ \E r \in Request, ago \in Time : ClaimManaged(s, j, r, ago)
                 \/ \E ago \in Time : Refresh(s, j, ago)
                 \/ Consume(s, j)
                 \/ \E artifact \in Artifact, failed \in BOOLEAN : Retain(s, j, artifact, failed)
                 \/ \E outcome \in Terminal : Finish(s, j, outcome)
                 \/ \E outcome \in {"cancelled", "failed"} : Report(s, j, outcome)
          PROVE  LockedTime(s)
      BY <2>2 DEF Register, Revoke, ClaimManaged, Refresh, Consume, Retain, Finish, Report
    <2> QED
      BY <1>1, <1>4, <2>1, <2>2 DEF Writes
  <1>5. CASE UNCHANGED allVars
    BY <1>2, <1>5 DEF allVars, managedVars, clockVars
  <1> QED
    BY <1>3, <1>4, <1>5, StepCases

\* The requests a permission or a lease is used by.
UsedBy(s, k) ==
    \/ \E r \in Request, ago \in Time : ClaimManaged(s, k, r, ago)
    \/ \E ago \in Time : Refresh(s, k, ago)
    \/ Consume(s, k)
    \/ Finish(s, k, "completed")

\* A permission is used, or a lease moved, by such a request of the same job only.
LEMMA UseCases ==
    ASSUME ManagedInv, [ManagedNext]_allVars, NEW k \in Job,
           Uses(k) \/ lease'[k] # lease[k]
    PROVE  \E s \in Session : UsedBy(s, k)
  <1> USE DEF ManagedInv, ManagedTypeOK, permitVars, receiptVars
  <1>9. None # "completed"
    BY ManagedAssumption DEF ManagedAssumption, Terminal
  <1>0. CASE UNCHANGED <<contract, result, lease>>
    BY <1>0, <1>9 DEF Uses
  <1>1. CASE Quiet
    BY <1>0, <1>1, QuietLeavesRows DEF rowVars
  <1>2. CASE UNCHANGED allVars
    BY <1>0, <1>2 DEF allVars, managedVars
  <1>3. CASE Writes
    <2>1. CASE \/ ChangeEngagement
               \/ \E j \in Job, parent \in Job \union {None} : CreateMarked(j, parent)
               \/ \E j \in Job : ChangeJob(j) \/ LegacyRun(j)
               \/ \E p \in Poller : Poll(p)
      BY <1>0, <2>1 DEF ChangeEngagement, CreateMarked, ChangeJob, LegacyRun, Poll, managedVars
    <2>2. ASSUME NEW s \in Session, NEW j \in Job,
                 \/ \E a \in Approval, expires_at \in Time : Register(s, j, a, expires_at)
                 \/ Revoke(s, j)
                 \/ \E outcome \in {"cancelled", "failed"} : Report(s, j, outcome)
          PROVE  \E q \in Session : UsedBy(q, k)
      BY <1>0, <2>2 DEF Register, Revoke, Report
    <2>3. ASSUME NEW s \in Session, NEW j \in Job, NEW r \in Request, NEW ago \in Time,
                 ClaimManaged(s, j, r, ago)
          PROVE  \E q \in Session : UsedBy(q, k)
      <3>1. k # j => UNCHANGED <<contract[k], result[k], lease[k]>>
        BY <2>3 DEF ClaimManaged
      <3> QED
        BY <1>9, <2>3, <3>1 DEF Uses, UsedBy
    <2>4. ASSUME NEW s \in Session, NEW j \in Job,
                 (\E ago \in Time : Refresh(s, j, ago)) \/ Consume(s, j)
          PROVE  \E q \in Session : UsedBy(q, k)
      <3>1. k # j => UNCHANGED <<contract[k], result[k], lease[k]>>
        BY <2>4 DEF Refresh, Consume
      <3> QED
        BY <1>9, <2>4, <3>1 DEF Uses, UsedBy
    <2>5. ASSUME NEW s \in Session, NEW j \in Job, NEW artifact \in Artifact, NEW failed \in BOOLEAN,
                 Retain(s, j, artifact, failed)
          PROVE  FALSE
      <3>1. contract'[k] = contract[k] /\ lease'[k] = lease[k]
        BY <2>5 DEF Retain
      <3>2. result'[k].outcome \in {result[k].outcome, None}
        BY <2>5 DEF Retain, ResultRow
      <3> QED
        BY <1>9, <3>1, <3>2 DEF Uses
    <2>6. ASSUME NEW s \in Session, NEW j \in Job, NEW outcome \in Terminal, Finish(s, j, outcome)
          PROVE  UsedBy(s, k)
      <3>1. contract'[k] = contract[k] /\ lease'[k] = lease[k]
        BY <2>6 DEF Finish
      <3>2. k # j => result'[k] = result[k]
        BY <2>6 DEF Finish
      <3>3. result'[j].outcome = outcome
        BY <2>6 DEF Finish, ResultRow
      <3> QED
        BY <1>9, <2>6, <3>1, <3>2, <3>3 DEF Uses, UsedBy
    <2> QED
      BY <1>3, <2>1, <2>2, <2>3, <2>4, <2>5, <2>6 DEF Writes
  <1> QED
    BY <1>1, <1>2, <1>3, StepCases

\* A use has looked at the approval, for the authority as it is, at the time it commits.
LEMMA UseIsPermitted ==
    ASSUME ManagedInv, NEW s \in Session, NEW k \in Job, UsedBy(s, k)
    PROVE  /\ Permitted(s, k, IF status[k] = "pending" THEN {"pending"} ELSE {"running"})
           /\ observed' = Now(s) /\ Now(s) \in Nat
  <1>1. Now(s) \in Nat
    BY TypeParts, NowIsNatural DEF ManagedInv
  <1>2. observed' = Now(s)
    BY DEF UsedBy, ClaimManaged, Refresh, Consume, Finish, LockedTime
  <1>3. CASE \E r \in Request, ago \in Time : ClaimManaged(s, k, r, ago)
    BY <1>1, <1>2, <1>3 DEF ClaimManaged, Permitted
  <1>4. CASE Permitted(s, k, {"running"})
    BY <1>1, <1>2, <1>4 DEF Permitted
  <1> QED
    BY <1>3, <1>4 DEF UsedBy, Refresh, Consume, Finish, MayCompleteManaged

\* Past the claim, a launch or completion commits before the lease ends, and a renewal looked at
\* the old lease no earlier than any request before it looked at the clock.
LEMMA LeaseHeld ==
    ASSUME ManagedInv, NEW s \in Session, NEW k \in Job, UsedBy(s, k), status[k] # "pending"
    PROVE  /\ Uses(k) => observed' < lease[k]
           /\ lease'[k] # lease[k] =>
                 observed < lease[k] /\ observed' < lease'[k] /\ lease'[k] <= Ceiling(k)
  <1> USE DEF ManagedInv, ManagedTypeOK
  <1>0. observed' = Now(s) /\ Now(s) \in Nat
    BY UseIsPermitted
  <1>1. CASE Consume(s, k) \/ Finish(s, k, "completed")
    BY <1>0, <1>1 DEF Consume, Finish, MayCompleteManaged, Live, permitVars
  <1>2. ASSUME NEW ago \in Time, Refresh(s, k, ago)
        PROVE  /\ ~Uses(k)
               /\ observed < lease[k] /\ observed' < lease'[k] /\ lease'[k] <= Ceiling(k)
    <2> DEFINE until == Earlier(Now(s) - ago + LeaseSeconds, Ceiling(k))
    <2>1. until \in Nat /\ until <= Ceiling(k) /\ Now(s) < until
      BY <1>2, RenewedLeaseNatural DEF Consistent
    <2>2. lease'[k] = until
      BY <1>2 DEF Refresh
    <2>3. observed < lease[k]
      <3>1. observed <= Now(s) - ago /\ Now(s) - ago < lease[k]
        BY <1>2 DEF Refresh, Looked, Live
      <3>2. ago \in Int
        BY ManagedAssumption DEF Time, ManagedAssumption
      <3> QED
        BY <1>0, <3>1, <3>2
    <2>4. ~Uses(k)
      BY <1>2, ManagedAssumption DEF Refresh, Uses, receiptVars, ManagedAssumption, Terminal
    <2> QED
      BY <1>0, <2>1, <2>2, <2>3, <2>4
  <1>3. ~\E r \in Request, ago \in Time : ClaimManaged(s, k, r, ago)
    BY DEF ClaimManaged, Permitted
  <1> QED
    BY <1>1, <1>2, <1>3 DEF UsedBy

\* The clock ledger only moves forward.
THEOREM LedgerTheorem == ManagedSpec => ClockNeverBack
  BY ManagedInitInv, ManagedInductive, LedgerForward, PTL DEF ManagedSpec, ClockNeverBack

\* Nothing happens under an approval whose deadline some request saw pass, or that was revoked.
THEOREM PermitTheorem == ManagedSpec => DeadPermitStaysDead
  <1> DEFINE Step ==
        \A j \in Job : Uses(j) \/ (lease'[j] # lease[j]) =>
            LET row == approval[managed_approval_id[j]]
            IN  observed' < row.expires_at /\ ~row.revoked
  <1>1. ManagedInv /\ [ManagedNext]_allVars => Step
    BY UseCases, UseIsPermitted DEF Permitted
  <1> QED
    BY <1>1, ManagedInitInv, ManagedInductive, PTL DEF ManagedSpec, DeadPermitStaysDead

\* No lease that some request saw expire is renewed or used.
THEOREM LeaseTheorem == ManagedSpec => LeaseNeverRevives
  <1> DEFINE Step ==
        \A j \in Job :
            /\ Uses(j) /\ status[j] # "pending" => observed' < lease[j]
            /\ status[j] # "pending" /\ lease'[j] # lease[j] =>
                  observed < lease[j] /\ observed' < lease'[j] /\ lease'[j] <= Ceiling(j)
  <1>1. ManagedInv /\ [ManagedNext]_allVars => Step
    BY UseCases, LeaseHeld
  <1> QED
    BY <1>1, ManagedInitInv, ManagedInductive, PTL DEF ManagedSpec, LeaseNeverRevives

\* Whatever a step changes of what was reviewed, it moves the revision.
LEMMA ReviewMovesRevision ==
    ManagedInv /\ [ManagedNext]_allVars => (Reviewed' # Reviewed => revision' > revision)
  <1> SUFFICES ASSUME ManagedInv, [ManagedNext]_allVars, Reviewed' # Reviewed
               PROVE  revision' > revision
    OBVIOUS
  <1> USE DEF engagementVars, policyVars
  <1>1. ~UNCHANGED <<stop_work, policyVars, spec>>
    BY DEF Reviewed, Policy
  <1>2. ~UNCHANGED vars
    BY <1>1 DEF vars
  <1>3. ASSUME NEW j \in Job PROVE ~JobStep(j)
    BY <1>1 DEF JobStep, OperatorStep, CreateJob, DeleteJob, UpdateJob, RequestCancel, RunnerStep,
                Claim, Issue, Expire, RefreshExecution, RefuseCompletion, FinishExecution
  <1>4. ASSUME NEW p \in Poller PROVE ~PollStep(p)
    BY <1>1 DEF PollStep, PollPending, PollParents, PollFailOrphans, PollFailCaseless, PollAbort
  <1>5. Writes
    BY <1>2, StepCases, QuietLeavesRows DEF rowVars, allVars
  <1>6. ASSUME NEW s \in Session, NEW j \in Job
        PROVE  /\ \A a \in Approval, expires_at \in Time : ~Register(s, j, a, expires_at)
               /\ ~Revoke(s, j)
               /\ \A ago \in Time : ~Refresh(s, j, ago)
               /\ ~Consume(s, j)
               /\ \A artifact \in Artifact, failed \in BOOLEAN : ~Retain(s, j, artifact, failed)
    BY <1>2 DEF Register, Revoke, Refresh, Consume, Retain
  <1>7. ASSUME NEW s \in Session, NEW j \in Job
        PROVE  /\ \A r \in Request, ago \in Time : ~ClaimManaged(s, j, r, ago)
               /\ \A outcome \in Terminal : ~Finish(s, j, outcome)
               /\ \A outcome \in {"cancelled", "failed"} : ~Report(s, j, outcome)
    BY <1>1 DEF ClaimManaged, Issue, Finish, Report, EndAttempt
  <1>8. ChangeEngagement
    BY <1>3, <1>4, <1>5, <1>6, <1>7
    DEF Writes, CreateMarked, ChangeJob, LegacyRun, Poll, JobStep, OperatorStep
  <1>9. revision \in Nat
    BY ManagedAssumption DEF ManagedInv, ManagedTypeOK, ManagedAssumption
  <1> QED
    BY <1>8, <1>9 DEF ChangeEngagement, Revise

\* A use runs the job with the case the approval names.
LEMMA UseRunsReviewedCase ==
    ASSUME ManagedInv, NEW s \in Session, NEW k \in Job, UsedBy(s, k)
    PROVE  case_snapshot'[k] = approval[managed_approval_id[k]].case
  <1>1. ASSUME NEW r \in Request, NEW ago \in Time, ClaimManaged(s, k, r, ago)
        PROVE  case_snapshot'[k] = approval[managed_approval_id[k]].case
    <2>1. case_snapshot'[k] = spec
      BY <1>1, ManagedClaimIsClaim DEF ClaimManaged, Issue, ManagedInv, Consistent, TypeOK
    <2> QED
      BY <1>1, <2>1 DEF ClaimManaged, Permitted
  <1>2. CASE Owned(k) /\ UNCHANGED case_snapshot
    BY <1>2 DEF Owned, ManagedInv, ClaimsAreConsistent
  <1> QED
    BY <1>1, <1>2 DEF UsedBy, Refresh, Consume, Finish, EndAttempt, Launched, vars, jobVars

\* What is launched or completed is what was reviewed, under the authority it was reviewed under.
THEOREM ReviewTheorem == ManagedSpec => RunsAsReviewed
  <1> DEFINE Step ==
        /\ Reviewed' # Reviewed => revision' > revision
        /\ \A j \in Job : Uses(j) =>
              LET row == approval[managed_approval_id[j]]
              IN  /\ row.revision = revision
                  /\ case_snapshot'[j] = row.case
                  /\ Reviewed = <<FALSE, row.policy, row.case>>
  <1>1. ManagedInv /\ [ManagedNext]_allVars => Step
    <2> SUFFICES ASSUME ManagedInv, [ManagedNext]_allVars PROVE Step
      OBVIOUS
    <2>1. Reviewed' # Reviewed => revision' > revision
      BY ReviewMovesRevision
    <2>2. ASSUME NEW j \in Job, Uses(j)
          PROVE  LET row == approval[managed_approval_id[j]]
                 IN  /\ row.revision = revision
                     /\ case_snapshot'[j] = row.case
                     /\ Reviewed = <<FALSE, row.policy, row.case>>
      <3>1. PICK s \in Session : UsedBy(s, j)
        BY <2>2, UseCases
      <3>2. /\ revision = approval[managed_approval_id[j]].revision
            /\ ~stop_work
            /\ spec = approval[managed_approval_id[j]].case
            /\ Policy = approval[managed_approval_id[j]].policy
        BY <3>1, UseIsPermitted DEF Permitted
      <3>3. stop_work = FALSE
        BY <3>2 DEF ManagedInv, Consistent, TypeOK
      <3> QED
        BY <3>1, <3>2, <3>3, UseRunsReviewedCase DEF Reviewed
    <2> QED
      BY <2>1, <2>2
  <1> QED
    BY <1>1, ManagedInitInv, ManagedInductive, PTL DEF ManagedSpec, RunsAsReviewed

-------------------------------------------------------------------------------
(* Receipts are final.                                                     *)

\* Jobs refer to registered approvals, and only those are ever revoked.
Registered ==
    /\ \A j \in Job : managed_approval_id[j] # None => approval[managed_approval_id[j]].job # None
    /\ \A a \in Approval : approval[a].revoked => approval[a].job # None

\* Only three requests write approvals.
LEMMA ApprovalWriters ==
    ASSUME [ManagedNext]_allVars, ~UNCHANGED <<approval, managed_approval_id>>
    PROVE  \E s \in Session, j \in Job :
              \/ \E a \in Approval, expires_at \in Time : Register(s, j, a, expires_at)
              \/ Revoke(s, j)
              \/ \E r \in Request, ago \in Time : ClaimManaged(s, j, r, ago)
  <1> USE DEF permitVars
  <1>1. ~Quiet /\ ~UNCHANGED allVars
    BY QuietLeavesRows DEF rowVars, allVars, managedVars
  <1>2. Writes
    BY <1>1, StepCases
  <1>3. ~ChangeEngagement /\ \A p \in Poller : ~Poll(p)
    BY DEF ChangeEngagement, Poll, managedVars
  <1>4. \A j \in Job : /\ ~ChangeJob(j) /\ ~LegacyRun(j)
                       /\ \A parent \in Job \union {None} : ~CreateMarked(j, parent)
    BY DEF ChangeJob, LegacyRun, CreateMarked, managedVars
  <1>5. ASSUME NEW s \in Session, NEW j \in Job
        PROVE  /\ \A ago \in Time : ~Refresh(s, j, ago)
               /\ ~Consume(s, j)
               /\ \A artifact \in Artifact, failed \in BOOLEAN : ~Retain(s, j, artifact, failed)
               /\ \A outcome \in Terminal : ~Finish(s, j, outcome)
               /\ \A outcome \in {"cancelled", "failed"} : ~Report(s, j, outcome)
    BY DEF Refresh, Consume, Retain, Finish, Report
  <1> QED
    BY <1>2, <1>3, <1>4, <1>5 DEF Writes

\* Revocation is final, and approvals stay registered.
LEMMA ApprovalsFinal ==
    ASSUME ManagedInv, Registered, [ManagedNext]_allVars
    PROVE  Registered' /\ \A a \in Approval : approval[a].revoked => approval'[a].revoked
  <1> USE DEF ManagedInv, ManagedTypeOK, Registered
  <1>1. CASE UNCHANGED <<approval, managed_approval_id>>
    BY <1>1
  <1>2. ASSUME NEW s \in Session, NEW j \in Job, NEW a \in Approval, NEW expires_at \in Time,
               Register(s, j, a, expires_at)
        PROVE  Registered' /\ \A b \in Approval : approval[b].revoked => approval'[b].revoked
    <2>1. approval'[a].job = j /\ approval[a].job = None /\ j # None
      BY <1>2, JobAssumption DEF Register, JobAssumption
    <2>2. \A b \in Approval : b # a => approval'[b] = approval[b]
      BY <1>2 DEF Register
    <2>3. \A k \in Job : managed_approval_id'[k] \in {managed_approval_id[k], a}
      BY <1>2 DEF Register
    <2>4. \A k \in Job : managed_approval_id[k] # None => managed_approval_id[k] \in Approval
      OBVIOUS
    <2> QED
      BY <2>1, <2>2, <2>3, <2>4
  <1>3. ASSUME NEW s \in Session, NEW j \in Job, Revoke(s, j)
        PROVE  Registered' /\ \A b \in Approval : approval[b].revoked => approval'[b].revoked
    <2>1. managed_approval_id' = managed_approval_id /\ managed_approval_id[j] \in Approval
          /\ managed_approval_id[j] # None
      BY <1>3 DEF Revoke
    <2>2. \A b \in Approval : approval'[b].job = approval[b].job
      BY <1>3 DEF Revoke, ApprovalRow
    <2>3. \A b \in Approval : b # managed_approval_id[j] => approval'[b] = approval[b]
      BY <1>3 DEF Revoke
    <2>4. approval'[managed_approval_id[j]].revoked
      BY <1>3, <2>1 DEF Revoke, ApprovalRow
    <2> QED
      BY <2>1, <2>2, <2>3, <2>4
  <1>4. ASSUME NEW s \in Session, NEW j \in Job, NEW r \in Request, NEW ago \in Time,
               ClaimManaged(s, j, r, ago)
        PROVE  Registered' /\ \A b \in Approval : approval[b].revoked => approval'[b].revoked
    <2>1. managed_approval_id' = managed_approval_id /\ managed_approval_id[j] \in Approval
      BY <1>4 DEF ClaimManaged, Permitted
    <2>2. \A b \in Approval : approval'[b].job = approval[b].job
                               /\ approval'[b].revoked = approval[b].revoked
      BY <1>4, <2>1 DEF ClaimManaged, ApprovalRow
    <2> QED
      BY <2>1, <2>2
  <1> QED
    BY <1>1, <1>2, <1>3, <1>4, ApprovalWriters

\* What a step may do to the launch, result and stop of one job.
ReceiptKept(k) ==
    /\ contract[k].consumed => contract'[k] = contract[k]
    /\ result[k].artifact # None => result'[k].artifact = result[k].artifact
    /\ result[k].outcome # None => result'[k] = result[k]
    /\ stopped[k] # None => stopped'[k] = stopped[k]

\* Requests write what was not written before.
LEMMA ReceiptsKept ==
    ASSUME ManagedInv, [ManagedNext]_allVars, NEW k \in Job
    PROVE  ReceiptKept(k)
  <1> USE DEF ManagedInv, ManagedTypeOK, permitVars, receiptVars, ReceiptKept
  <1>0. CASE UNCHANGED <<contract, result, stopped>>
    BY <1>0
  <1>1. CASE Quiet
    BY <1>0, <1>1, QuietLeavesRows DEF rowVars
  <1>2. CASE UNCHANGED allVars
    BY <1>0, <1>2 DEF allVars, managedVars
  <1>3. CASE \/ ChangeEngagement
             \/ \E j \in Job, parent \in Job \union {None} : CreateMarked(j, parent)
             \/ \E j \in Job : ChangeJob(j) \/ LegacyRun(j)
             \/ \E p \in Poller : Poll(p)
    BY <1>0, <1>3 DEF ChangeEngagement, CreateMarked, ChangeJob, LegacyRun, Poll, managedVars
  <1>4. ASSUME NEW s \in Session, NEW j \in Job,
               \/ \E a \in Approval, expires_at \in Time : Register(s, j, a, expires_at)
               \/ Revoke(s, j)
               \/ \E ago \in Time : Refresh(s, j, ago)
        PROVE  ReceiptKept(k)
    BY <1>0, <1>4 DEF Register, Revoke, Refresh
  <1>5. ASSUME NEW s \in Session, NEW j \in Job, NEW r \in Request, NEW ago \in Time,
               ClaimManaged(s, j, r, ago)
        PROVE  ReceiptKept(k)
    <2>1. ~contract[j].consumed /\ (k # j => contract'[k] = contract[k])
      BY <1>5 DEF ClaimManaged, Linked
    <2> QED
      BY <1>5, <2>1 DEF ClaimManaged
  <1>6. ASSUME NEW s \in Session, NEW j \in Job, Consume(s, j) PROVE ReceiptKept(k)
    <2>1. ~contract[j].consumed /\ (k # j => contract'[k] = contract[k])
      BY <1>6 DEF Consume
    <2> QED
      BY <1>6, <2>1 DEF Consume
  <1>7. ASSUME NEW s \in Session, NEW j \in Job, NEW artifact \in Artifact, NEW failed \in BOOLEAN,
               result[j].artifact = None, Retain(s, j, artifact, failed)
        PROVE  ReceiptKept(k)
    BY <1>7 DEF Retain, Linked
  <1>8. ASSUME NEW s \in Session, NEW j \in Job, NEW outcome \in Terminal, Finish(s, j, outcome)
        PROVE  ReceiptKept(k)
    <2>1. result[j].outcome = None /\ (k # j => result'[k] = result[k])
      BY <1>8 DEF Finish
    <2>2. result'[j].artifact = result[j].artifact
      BY <1>8 DEF Finish, ResultRow
    <2>3. UNCHANGED <<contract, stopped>>
      BY <1>8 DEF Finish
    <2> QED
      BY <2>1, <2>2, <2>3
  <1>9. ASSUME NEW s \in Session, NEW j \in Job, NEW outcome \in {"cancelled", "failed"},
               Report(s, j, outcome)
        PROVE  ReceiptKept(k)
    BY <1>9 DEF Report
  <1> QED
    BY <1>1, <1>2, <1>3, <1>4, <1>5, <1>6, <1>7, <1>8, <1>9, StepCases DEF Writes

\* Retried requests rewrite nothing.
THEOREM ReceiptTheorem == ManagedSpec => ReceiptsFinal
  <1> DEFINE Step ==
        /\ \A a \in Approval : approval[a].revoked => approval'[a].revoked
        /\ \A j \in Job :
             /\ contract[j].consumed => contract'[j] = contract[j]
             /\ result[j].artifact # None => result'[j].artifact = result[j].artifact
             /\ result[j].outcome # None => result'[j] = result[j]
             /\ stopped[j] # None => stopped'[j] = stopped[j]
  <1>1. ManagedInit => Registered
    BY DEF ManagedInit, NothingManaged, Registered, Unregistered
  <1>2. ManagedInv /\ Registered /\ [ManagedNext]_allVars => Registered' /\ Step
    BY ApprovalsFinal, ReceiptsKept DEF ReceiptKept
  <1> QED
    BY <1>1, <1>2, ManagedInitInv, ManagedInductive, PTL DEF ManagedSpec, ReceiptsFinal

-------------------------------------------------------------------------------
(* Managed results implement ResultStore.                                  *)

\* The mapped state of ResultStore.
StoredOf == [j \in Job |-> IF result[j].artifact = None THEN <<>> ELSE <<result[j].artifact>>]
EvidenceKept == [j \in Job |-> 1..evidence[j]]
ClosedOf == {j \in Job : result[j].artifact # None}

\* Only the first submit of a job (Retain) touches a stored artifact or its evidence.
LEMMA StoreWriters ==
    ASSUME ManagedInv, [ManagedNext]_allVars
    PROVE  \/ /\ evidence' = evidence
              /\ \A k \in Job : result'[k].artifact = result[k].artifact
           \/ \E s \in Session, j \in Job, artifact \in Artifact, failed \in BOOLEAN :
                 result[j].artifact = None /\ Retain(s, j, artifact, failed)
  <1> USE DEF ManagedInv, ManagedTypeOK, permitVars, receiptVars
  <1> DEFINE Same == evidence' = evidence /\ \A k \in Job : result'[k].artifact = result[k].artifact
  <1>0. CASE UNCHANGED <<result, evidence>>
    BY <1>0
  <1>1. CASE Quiet
    BY <1>0, <1>1, QuietLeavesRows DEF rowVars
  <1>2. CASE UNCHANGED allVars
    BY <1>0, <1>2 DEF allVars, managedVars
  <1>3. CASE \/ ChangeEngagement
             \/ \E j \in Job, parent \in Job \union {None} : CreateMarked(j, parent)
             \/ \E j \in Job : ChangeJob(j) \/ LegacyRun(j)
             \/ \E p \in Poller : Poll(p)
    BY <1>0, <1>3 DEF ChangeEngagement, CreateMarked, ChangeJob, LegacyRun, Poll, managedVars
  <1>4. ASSUME NEW s \in Session, NEW j \in Job,
               \/ \E a \in Approval, expires_at \in Time : Register(s, j, a, expires_at)
               \/ Revoke(s, j)
               \/ \E ago \in Time : Refresh(s, j, ago)
               \/ \E r \in Request, ago \in Time : ClaimManaged(s, j, r, ago)
               \/ Consume(s, j)
               \/ \E outcome \in {"cancelled", "failed"} : Report(s, j, outcome)
        PROVE  Same
    BY <1>0, <1>4 DEF Register, Revoke, Refresh, ClaimManaged, Consume, Report
  <1>5. ASSUME NEW s \in Session, NEW j \in Job, NEW outcome \in Terminal, Finish(s, j, outcome)
        PROVE  Same
    <2>1. \A k \in Job : k # j => result'[k] = result[k]
      BY <1>5 DEF Finish
    <2>2. result'[j].artifact = result[j].artifact
      BY <1>5 DEF Finish, ResultRow
    <2>3. evidence' = evidence
      BY <1>5 DEF Finish
    <2> QED
      BY <2>1, <2>2, <2>3
  <1> QED
    BY <1>1, <1>2, <1>3, <1>4, <1>5, StepCases DEF Writes

\* Every managed step is a step of ResultStore or leaves it alone.
LEMMA ManagedStoreStep ==
    ASSUME ManagedInv, [ManagedNext]_allVars
    PROVE  [Results!Next]_(Results!storeVars)
  <1>1. CASE evidence' = evidence /\ \A k \in Job : result'[k].artifact = result[k].artifact
    <2>1. StoredOf' = StoredOf /\ ClosedOf' = ClosedOf /\ EvidenceKept' = EvidenceKept
      BY <1>1 DEF StoredOf, ClosedOf, EvidenceKept
    <2> QED
      BY <2>1 DEF Results!storeVars, StoredOf, ClosedOf, EvidenceKept
  <1>2. ASSUME NEW s \in Session, NEW j \in Job, NEW artifact \in Artifact, NEW failed \in BOOLEAN,
               result[j].artifact = None, Retain(s, j, artifact, failed)
        PROVE  Results!Next
    <2>1. /\ \A k \in Job : result'[k].artifact = IF k = j THEN artifact ELSE result[k].artifact
          /\ evidence \in [Job -> Nat] /\ evidence' = [evidence EXCEPT ![j] = evidence[j] + 1]
      BY <1>2 DEF Retain, ManagedInv, ManagedTypeOK
    <2>2. artifact # None
      BY ManagedAssumption DEF ManagedAssumption
    <2>3. StoredOf' = [StoredOf EXCEPT ![j] = <<artifact>>]
      BY <2>1, <2>2 DEF StoredOf
    <2>4. ClosedOf' = ClosedOf \union {j} /\ j \notin ClosedOf
      BY <1>2, <2>1, <2>2 DEF ClosedOf
    <2>5. EvidenceKept' = [EvidenceKept EXCEPT ![j] = EvidenceKept'[j]]
      <3>1. \A k \in Job \ {j} : EvidenceKept'[k] = EvidenceKept[k]
        BY <2>1 DEF EvidenceKept
      <3>2. /\ EvidenceKept = [k \in Job |-> EvidenceKept[k]]
            /\ EvidenceKept' = [k \in Job |-> EvidenceKept'[k]]
        BY DEF EvidenceKept
      <3> HIDE DEF EvidenceKept
      <3> QED
        BY <3>1, <3>2
    <2>6. Results!Store(j)
      BY <2>3, <2>4, <2>5 DEF Results!Store, StoredOf, ClosedOf, EvidenceKept
    <2> QED
      BY <2>6 DEF Results!Next
  <1> QED
    BY <1>1, <1>2, StoreWriters

\* Refinement: a managed job's artifact and its evidence are stored once and together, for any
\* number of jobs, requests, retries and documents (managed_results.py, submit).
THEOREM ManagedStoreRefinement == ManagedSpec => ImplementsResultStore
  <1>1. ManagedInit => Results!Init
    <2> SUFFICES ASSUME ManagedInit PROVE Results!Init
      OBVIOUS
    <2>1. \A j \in Job : result[j].artifact = None
      BY DEF ManagedInit, NothingManaged, NoResult
    <2>2. StoredOf = [j \in Job |-> <<>>] /\ ClosedOf = {}
      BY <2>1 DEF StoredOf, ClosedOf
    <2>3. EvidenceKept = [j \in Job |-> {}]
      <3>1. \A j \in Job : evidence[j] = 0
        BY DEF ManagedInit, NothingManaged
      <3> QED
        BY <3>1 DEF EvidenceKept
    <2> QED
      BY <2>2, <2>3 DEF Results!Init, StoredOf, ClosedOf, EvidenceKept
  <1>2. ManagedInv /\ [ManagedNext]_allVars => [Results!Next]_(Results!storeVars)
    BY ManagedStoreStep
  <1> QED
    BY <1>1, <1>2, ManagedInitInv, ManagedInductive, PTL
    DEF ManagedSpec, ImplementsResultStore, Results!Spec

\* Both refinements: managed jobs are jobs of JobControl, and keep results as ResultStore does.
THEOREM ManagedRefinements == ManagedSpec => ImplementsControlAndStore
  BY ManagedRefinement, ManagedStoreRefinement DEF ImplementsControlAndStore
===============================================================================
