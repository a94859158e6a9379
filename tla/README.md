# VardrMap: a verification project

VardrMap is a FastAPI backend over one relational database (PostgreSQL in
production, SQLite for local use), a web frontend, and clients that poll it:
runners that execute scan jobs, agents that propose changes, and a managed
runner that works under signed, single-use permissions. Request handlers run
concurrently and meet only in the database. What is hard about the program is
therefore in its transactions: which rows a handler reads before it holds the
engagement row lock, which it reads after, what it writes by primary key without
looking, and what a client may do with an answer that has become stale.

This directory models that part in TLA+, checks it with TLC on small instances
and proves the main results with TLAPS for instances of any size. Paths below
are relative to the repository; `backend/` is `src/backend/` in `PROJECT.json`.

## 1. Inventory

| Component | State | Operations | Hard behaviour | What makes it correct |
|---|---|---|---|---|
| Job queue (`routers/jobs.py`) | `ScanJob.status`, `depends_on`, `case_snapshot` | create, pipeline, poll, claim, PATCH, delete | GET /jobs/pending reads without a lock and writes rows by primary key in two commits | outcomes are final; no stage waits forever for a parent that cannot finish |
| Owned execution (`routers/jobs.py`, `execution_control.py`) | `JobExecution.state`, `expires_at`, `capacity_reserved`, charges | opt-in claim, refresh, finish | stop-work, its release, lease expiry and the owner's acknowledgement in any order | a stopped or expired attempt never becomes active or completed again |
| Budgets (`concurrency_budget.py`, `target_budget.py`, `duration_budget.py`) | limits and running accounts on `Engagement` | admission and charging inside the claim, policy PUT | admission, release, job deletion and policy change meet at the limit | never overrun, never refunded, never erased |
| Engagements (`routers/engagements.py`) | stop-work, policies, authority fields | update, stop-work, policies, delete | stop-work must reach attempts that are already running | no active attempt while work is stopped |
| Authority (`managed_authority.py`, `routers/scope.py`, `routers/authorizations.py`) | scope rows, authorization rows, ceilings, `managed_authority_revision` | add, delete, import, create, amend | lost increments; an import that decides on a stale read | one revision stands for one state of authority |
| Agent proposals (`routers/proposals.py`) | `AgentProposal.status` | create (count, insert), approve, reject | approve locks, reject and create do not | a change is applied at most once, and only by an approval |
| Managed issuance (`managed_issuance.py`, `managed_wire.py`, `nm1_authorization.py`) | enrollment, contracts, approvals, clock ledger | register, revoke, claim, renew, consume | crash between commits, clock going back, authority changing while a permission is held | a permission is consumed once, under the revision it was issued for |
| Managed results, stops, observations (`managed_results.py`, `managed_stops.py`, `managed_observations.py`) | receipts, stop records | upload, acknowledge, retry | retries of an answer that was lost | a retry changes nothing and gets the stored answer |
| Gate results (`routers/jobs.py`, `assessments.py`, `assessment_evidence.py`, `routers/evidence.py`) | receipts, assessments, candidates, evidence | upload, retry, triage, delete evidence | an upload sent twice, also after its evidence was deleted; a release, an edit and a second claim after it | one result per job; a verdict is backed by what was reported |
| Coverage and boundaries (`authorization_coverage.py`, `authorization_relationships.py`) | none: views over cases, jobs, items and exchanges | read | rows written under an older definition of the case | a view never claims more than a stored result shows |
| Policy engine (`policy.py`, `enforcement.py`) | none | decide | carve-outs, wildcards, listeners, paths, several authorizations | what is clear was stated, not excluded, and is authorized now |
| Local authentication (`local_auth.py`, `local_accounts.py`, `auth_methods.py`) | account, sessions, lockout counters | bootstrap, login, logout, change, reset | failures around the lock and the quiet window; a touch of a session revoked since it was read | guesses are bounded; a revoked session stays revoked |
| Access control (`deps.py`, `security.py`, `routers/members.py`, `routers/apikeys.py`) | memberships, organizations, key rows | invite, remove, create and revoke keys, first request of a user | unlocked counts; two personal organizations; a key revoked in mid-request | access follows grants; tenants stay apart |
| Live events (`sse.py`, `routers/runner.py`) | subscriber queues | subscribe, notify, prune, stream | worker threads and the event loop share a queue without a lock | what is queued is delivered; a reader that missed an event is cut off |
| Findings, evidence, deliverables (`routers/findings.py`, `routers/finding_activity.py`, `finding_history.py`, `routers/evidence.py`, `routers/deliverables.py`) | findings, history entries, evidence links, revisions | create, edit, annotate, retest, link, delete, revise | a finding deleted or edited between a check and a commit; a report assembled by several queries | history is complete; evidence does not move; no revision overwrites unread work |
| Imports, assets, services, API surface (`routers/imports.py`, `provenance.py`, `assets.py`, `routers/services.py`, `routers/api_surface.py`) | rows, links, nodes, edges, counters | import, post, promote, delete | duplicate inserts without a constraint; counts written back | a report is stored once and its observation kept |
| Reporting, notifications, parsing, frontend | none of their own | | | not modelled |

The components meet in the engagement row. `execution_control.lock_job`,
`managed_authority.lock` and the claim all take `SELECT ... FOR UPDATE` on it, so
the handlers that use them are serialised; the ones that do not are the ones the
models split into several steps. `PROJECT.json` lists every hazard at its line
with the properties that would catch it.

## 2. Modules

| Module | Models | Role |
|---|---|---|
| `JobControl` | job queue, claim, owned execution, stop-work, the three budgets | core component |
| `CapacityPool` | what the concurrency budget promises | abstract specification |
| `BudgetLedger` | what the target and duration budgets promise | abstract specification, instantiated twice |
| `MCJobControl` | instances of `JobControl` for TLC | |
| `JobControlProofs` | theorems about `JobControl` | |
| `Authority` | scope, authorizations, rate ceiling, revision, agent proposals | component |
| `MCAuthority`, `AuthorityProofs` | its instances (extended by `MCDecisions`) and its theorems | |
| `ManagedControl` | managed issuance, results and stops, on top of `JobControl` | composition: extends `JobControl` and refines it |
| `MCManagedControl`, `ManagedProofs` | its instances and its theorems | |
| `Policy` | scope, window, authorization and stop-work decisions | pure operators |
| `Assessment` | what a gate upload is taken to show | pure operators |
| `Coverage`, `Boundaries` | the coverage view; the boundary view and its drafts | pure operators over stored rows |
| `Decisions` | questions to `Policy`, `Assessment` and `Boundaries`, the reference definitions and the properties | component |
| `MCDecisions`, `AssessmentProofs`, `DecisionsProofs` | bounded questions, side by side with `Authority` and `GateResults`, for TLC; lemmas on the passes of `Assessment`; the theorems | |
| `GateResults` | cases, gate jobs, uploads, triage, deletion of evidence; composes `Assessment`, `Coverage` and `Boundaries` | component |
| `MCGateResults`, `GateProofs` | its instances (extended by `MCDecisions`) and its theorems | |
| `ResultStore` | what storing a result promises, for uploads and for managed results | abstract specification, implemented by `GateResults` and by `ManagedControl` |
| `LocalAuth` | accounts, lockout, sessions | component |
| `ApiKeys` | keys and how a request is identified by one | component |
| `Access` | memberships, personal organizations, clients, access decisions | component |
| `Inventory` | imports, assets, services, provenance | component |
| `MCInventory` | what tools report and hosts listen on in the instances; extended by `MCServices` | |
| `ApiSurface` | operations and promoted exchanges | component |
| `FindingRecords` | findings, history, evidence links, report revisions | component |
| `MCServices`, `ServicesProofs` | the six components above side by side, for TLC and for the prover | |
| `LiveEvents`, `LiveEventsProofs` | the event broker and its streams, and their theorem | component |
| `MCQueue` | `JobControl` with pollers, and `LiveEvents`, under fairness | |

### JobControl

One engagement and its jobs. A variable is a column: `status`, `depends_on` and
`case_snapshot` of `ScanJob`; `state`, `capacity_reserved`, `target_charge` and
`duration_seconds` of `JobExecution`; the limits and accounts of `Engagement`;
`spec` is the content of the test case the gate jobs refer to. `pc`, `seen` and
`doomed` are the local state of a GET /jobs/pending request between two
statements.

* A handler that runs under the engagement lock is one action: `Claim`,
  `UpdateJob` / `RequestCancel` (PATCH), `RefreshExecution`, `FinishExecution`
  and `RefuseCompletion` (the two ends of `finish_execution`), `DeleteJob`, the
  `Configure...` handlers, `EngageStopWork`, `ReleaseStopWork`,
  `DeleteEngagement`, `EditCase`, `DeleteCase`.
* The claim's guard is the one its conditional `UPDATE` re-establishes at commit;
  the unlocked read before it can only make the code refuse more often. The
  claim does not look at `depends_on`, and neither does the model.
* GET /jobs/pending is five actions, `PollPending`, `PollParents`,
  `PollFailOrphans`, `PollFailCaseless` and `PollAbort`, split at every statement
  another transaction may commit before. Its writes are by primary key, so
  `FailRows` overwrites whatever the row says by then; a row that vanished aborts
  the request, after its first commit is durable.
* `create_job` checks stop-work before it inserts. The window between the two adds no
  behaviour the model lacks: `create_pipeline` inserts under stop-work anyway, and
  so does `CreatePipeline`.
* Time is the one bit `expired`: `expires_at` is only ever compared with the
  present, and a lease that was once expired is never extended.
* Access checks, the ownership token of an attempt (a wrong one is a refused request
  that changes nothing) and job events are left out. Managed jobs are the
  subject of `ManagedControl`, the revision of `Authority`.

### Authority

A session is an operator's request. Handlers that take the engagement lock are two
steps, because requests without the lock can commit in between: `Lock` (wait for
the row, read, compute the rows to write, kept in `txn`) and `Commit` (write
them). `reject_proposal` and `create_proposal` take no lock and are two steps
each, a read and a write by primary key. Out-of-scope and in-scope rows are
entries `<<type, value>>`; `scope` counts the rows of an entry, since only the import
looks for a row that is already there. `max_request_rate` stands for the fields
of an engagement that carry authority. `applied` counts how often a proposal's change was committed
and is the model's only history variable.

`MaxRows` and `MaxRevision` bound the model and are not limits of the program;
`MaxPending` is `_MAX_PENDING`. Engagement deletion is left out of this module: a
proposal row refers to its engagement without a cascade, so on PostgreSQL an
engagement with proposals is not deleted.

### ManagedControl

A managed job runs under an approval: a receipt signed outside the program over
the case, the policies and the authority revision, with an expiry and a number of
executions. `managed_issuance.Issuer` registers and revokes approvals, and on a
claim issues a contract, which the runner renews (`Refresh`), launches (`Consume`,
once) and ends through `managed_results.Results` or `managed_stops.Stops`.
The module extends `JobControl`: the managed claim and the managed ends are
written with its `Issue`, `BeforeClaim`, `ChargeOk` and `AllocateOk`, and
`ImplementsJobControl` says that they are nothing new to it. Seen through their results alone, both
`ManagedControl` and `GateResults` are a `ResultStore` (`ImplementsResultStore`).

* State. `approval`, `contract`, `result` and `stopped` are the rows of
  `ManagedApproval`, `ManagedContract`, `ManagedResult` and `ManagedStop`, which
  survive the deletion of their job; `observed` is the clock ledger
  (`ManagedClock`), `evidence` counts what `store_gate_result` stored for the job
  and is the module's only history variable.
* Requests. A session is an operation between `Issuer.operation`'s first observation
  of the clock, which commits on its own (`Enter`, `Observe`), and its end. The
  body runs under the engagement lock and is one step, at its last write of the
  clock ledger; it may be refused (`Refuse`: rollback, and the clock is observed
  once more) or vanish (`Abandon`: a crash before the commit; also the review and the
  inspections, which roll back). Retries that find the stored row write
  nothing, not even the clock (`Answer`).
* Time is a number of seconds. `Now(s)` is `_now`: the wall clock, but never less
  than the request's anchor plus the time elapsed on the monotonic clock. `SetClock`
  sets the wall clock to any value between the steps of a request (not inside
  a body). A body that stamps a row, or checks one that it then overwrites,
  before its last write of the ledger does so `ago` seconds earlier.
* The lease of a managed attempt is the time `lease[j]`; `JobControl`'s bit `expired` is about
  attempts of the legacy adapter, which refuses managed jobs (`LegacyRun`).
  `Current` compares the lease with the wall clock alone, as the code does.
* The expiry of an approval stands for the earliest of its expiry, the end of its
  testing window and its credential grants; `ChangeAuthority` is any commit of
  `Authority` that advances the revision, for which `RevisionNamesAuthority` is the justification.
* Left out: signatures and digests (a mismatch is a refusal), authentication
  and membership (a refusal), `not_before`, revoking an enrollment (no
  operation does), and the refusal of a result receipt stored by someone else.

### Policy, Assessment, Coverage, Boundaries

These parts of the program keep no state, so they are operators: each pass or
predicate of the code is one operator under the code's name. `Policy` reads a
scope rule as a record; a host is the sequence of its labels from the top down, so that "is a
subdomain of" is a prefix, and a path a sequence of segments. How a URL becomes these is
left out. `Assessment` keeps the code's order of passes over the items, since each
overrides the one before; an empty or missing string of the code (a host that cannot be
classified, an undeclared role, owner or tenant) is `"none"`. `Coverage` and `Boundaries` take the tables as one
record `db`; the hash of a spec is the spec, two specs never sharing one. `Decisions`
puts one question to them and compares the answer with
definitions that say what is meant and not how it is computed: `CarvedOut` for exclusions, the
newest authorization by position, how often an identity was reported. For an assessment a second
step repeats a row of the upload. The sets of questions are constants; `MCDecisions` bounds them.

### GateResults

One case and its jobs. The case is edited, moved to another operation or deleted;
jobs are queued, claimed (which freezes the snapshot), released, finished and
deleted; `Upload` is `upload_job_result` with `store_gate_result`, retries
included; `Triage` gives a candidate its status. The views are evaluated in the
invariants, on the rows as they stand. A job's evidence rows are deleted one by one
(`delete_evidence`) or with the finding they were linked to (`delete_finding`, by the cascade of
`Evidence.finding_id`), while receipt, report and job stay. Which rows a finding has is not kept here: any set of
rows may have been linked to one by the time it is deleted, and nothing in this module reads the link, whose own
rules are in `FindingRecords`. `removed` is a history variable, the rows deleted while their job is kept, and
`reclaimed` another: the jobs that were claimed again
after their result was stored (see section 4). The lease protocol and managed jobs, whose results
reach the same function through `ManagedControl`'s `Retain`, are left out. `ManagedControl`'s `evidence` counts
what was ever stored for a job, so that deletions leave it alone.

The specification lets any number of cases exist; `GateInit` starts with one, since creating a
case is no action of the module, and every job is of that case. What several cases of one operation add up to
in the views is not exercised by the runs.

### LocalAuth, ApiKeys, Access, Inventory, ApiSurface, FindingRecords

Each splits its handlers where another transaction can commit. Login, password change and
reset hold the credential row and are one step; a request resolves its session, touches it in a
second commit and then acts, three steps. A key is read, then stamped. Invitations, client links and
personal organizations are checked in one step and written in another. An import
awaits only the upload and then keeps the event loop to its commit, which is
one step. A service post runs in a worker thread and is a step for each of its queries, for the service, the node
of its host, the node of its port and their edge, and one for its commit; a post of several services does the same
for each in one transaction, and the model posts one. A service is a host, a port and a protocol, a node
knows no protocol. What a tool says of a host or a service beyond its key is left out. A promotion
creates its operation in a savepoint and counts in SQL, a deletion writes back the count it read. A finding's
edit holds its row lock; evidence is linked and a report assembled without it.
Passwords, texts and fields are version numbers; hashing, cookies and formats are left out.

`MCServices` runs one of them per behaviour (`focus`), because they write disjoint
variables and share no transaction: interleaving them would multiply states and add no behaviour. One table
is shared in the program and not in the models: a finding that is created or edited is linked to its asset
(`findings._link_asset`), which inserts the node when it is unknown and fails the request when another transaction
inserted it meanwhile. `FindingRecords` leaves the link out. To `Inventory` such a finding looks like any upload
or post that inserts the node of its host; to `FindingRecords` the failed request is one that was not made.

### LiveEvents

`notify` runs in a worker thread and puts into every registered queue without a
lock, the stream looks at its queue in the event loop and then waits for a wake-up or its
keepalive. A put between the look and the wait wakes nobody; the model has this step. A
full queue is remembered as dead and unregistered when the notify ends. `asyncio.Queue` is external.

## 3. Runs

| Run | Instance | Shows |
|---|---|---|
| `budgets` | two gate jobs, no poll, every policy, every kind of claim | rows, budgets and outcomes under every order of handlers; the three refinements |
| `queue` | a gate job, a plain job and one poller; or one stream and two notifying threads | rows agree although the poll takes no lock; no hopeless job stays queued; no event is lost or left undelivered |
| `poll_rewrites` | violation | a poll overwrites an outcome recorded since it read the row |
| `resolution` | violation | a rejection overwrites an approval |
| `permit_clock` | one managed job, two overlapping requests, times 0 to 3, lease of 2 | the ledger never moves back; an approval or lease it has seen expire is dead, even if the clock is set back |
| `permit_review` | two approvals, two versions of the case, two changes of authority | what runs is what was reviewed; contracts, executions, approvals and receipts agree |
| `receipts` | one managed job from a new engagement on, two artifacts, a poller | receipts are final and agree with the execution they ended; managed jobs are jobs of `JobControl` and keep results as `ResultStore` does |
| `decisions` | two sessions, two agents and one proposal of each kind; or a policy, assessment or draft question and its answer; or one case moved between two operations and two specs, two jobs, six uploads | revision, single application, import, queue bound; clear checks, conclusive verdicts and drafts are justified; coverage and boundary views are backed by what ran, and a flag stays until somebody acts on it |
| `results` | two jobs, three uploads, every set of evidence rows deleted | results count once, deleted evidence does not come back, and results are kept as `ResultStore` does |
| `coverage_stale` | violation | a result passes for a run of a definition it did not run |
| `service_twice` | violation | two overlapping posts store one service twice |
| `services` | two overlapping requests against each of six components | references, limits, access, inventory, history, revocation, races |

Several of the properties are conjunctions of named parts, each with a comment of
its own; `ReferencesHold` or `InventoryIsExact` in `MCServices` say in common what
`Access`, `Inventory`, `FindingRecords` and the others promise for their own rows.

Bounds. Two jobs are enough for one attempt to hold what another asks for, and a limit
of 1 makes every second claim meet it; the target limits 2 and 3 with contents of 1
and 2 origins give charges that land below, on and above the limit; a duration
limit of 2 with requests of 1 and 2 does the same. In `queue`, two jobs make a parent and
a child, in either role; the poll fails a lost child by looking at its parent alone, so that in a
longer chain each poll does the same one stage further. One poller suffices for the
unlocked write, since a second only repeats it. Two sessions are the least that
overlap; two agents and `MaxPending = 2` the least that overshoot. One stream
suffices, since streams share nothing; a queue of 2 and four events fill it, prune it and leave
events behind, two threads let one prune while the other puts.

For managed jobs, one job suffices for what relates an approval, a contract and
an attempt, since each belongs to one job; what several jobs compete for is the
budgets, which `ImplementsJobControl` and the theorem `ManagedBudgets` bring back to
`JobControl`. In `permit_clock`, times up to 3 with a lease of 2 and a duration of 3
let a lease end before, with and after the approval, and leave room to set the clock back
past each. The other two ask nothing about durations and have two points in
time, which still let a request meet an expired approval or lease. `permit_clock`
and `permit_review` start from an engagement whose owner has put all three
policies in force (`Configured`), as a managed claim needs; `receipts` starts from a
new one, as the refinement must, with the revisions needed to configure it;
stop-work and changes of authority under a managed attempt are in `permit_review`.

`decisions` runs `Authority`, one question or `GateResults` in each behaviour (`focus`), as they share no state in the model;
615,368 of its 984,645 states are questions and answers. Its two jobs give a newer and an older run of one case, the edit moves
the case to another operation and adds a caller; the uploads are clean, incomplete, a violation candidate, unbound to the claim,
or judged by the runner. No view reads evidence, so none is deleted there (`MaxRemoved = 0`); in `results` all four rows of two
jobs may be, and the uploads are one of two executions, one of an execution, a preflight and a candidate, and one unbound to the
claim. In `services`, two requests meet at limits of 1
(keys, members; 10 and 20 in the code); failures lock at 2 (5 in the code) with a window of
2, a session lives 3 and idles 2 units of time up to 3, so that a lock ends, a session idles out and one
is renewed; the shared organization has an owner, a viewer and an outsider; uploads name one page
twice, a row without url, a bare host and a port; a host listens on one port over tcp and udp; three exchanges over two
operations; two findings, one from before history was kept. `MaxTime`, `MaxRevision`, `MaxRows`, `MaxTokens`,
`MaxPassword`, `MaxEntries`, `MaxRevisions`, `MaxRemoved` and `MaxEvents` bound the model and are not limits of the program.

Symmetry: of the two sessions in `permit_clock`, of the jobs in `decisions`, `results` and `coverage_stale`, of requests and
of ids still to be drawn in `services`. Nothing tells their members apart, and these runs check no
liveness.

Deadlock is checked of `Authority` in `decisions`, where the other two may end (`Ended`), and in the managed runs, `poll_rewrites`
and `resolution`. Elsewhere a behaviour may rightly end: the engagement is deleted (`budgets`, `queue`), the last event was
published (`queue`), or a bound is used up (`results`, `coverage_stale`, `service_twice`, `services`).

Fairness. Only `queue` assumes any: weak fairness of each poller's steps, of each stream's
steps (its keepalive timer among them) and of each notify once it has started. Runners poll in a
loop for as long as they run, the event loop runs every task that is ready and fires its timers, and a
request the server has accepted runs to its end. Nothing is assumed of operators, of owners of an attempt, of
clients that connect or disconnect, or of the passing of time otherwise.

Every property of a passing run is paired with a mutant, a plausible bug in the
code it is about (an operator marked `Mutant of` next to the definition it
alters), that makes TLC report that property; where a property is a conjunction, each of its
parts is paired with one of its own.

## 4. Disagreements between the code and its documentation

Four violation runs; `PROJECT.json` quotes the lines.

1. `poll_rewrites`. GET /jobs/pending writes `failed` by primary key to rows it read as pending without a lock
   (`routers/jobs.py`, lines 720 and 763), so a recorded outcome is
   rewritten, against "A finished job never reopens". The same write fails a job that was
   claimed under a lease without its owner. `RowsAgree`, checked with the poll in `queue`, says
   how far the damage goes: such a job is never pending again, so it is not
   claimed twice, and its slot is still released by its owner. The theorem
   `OutcomesKeptWithoutPolls` shows that the poll is the only cause.
2. `resolution`. `reject_proposal` takes no lock. It can commit after an approval, whose change is then
   in force while the proposal reads rejected, and between an approval's refresh and its
   commit, which then overwrites it. The second needs PostgreSQL: SQLite's `BEGIN IMMEDIATE` excludes it.
   The theorem `ResolutionFinalWhenApart` shows that such an overlap is the only cause.
3. `coverage_stale`. A job that is released after its result was stored and claimed again gets the
   case's present spec as its snapshot; the stored result then counts as current coverage of a
   definition it did not run. `CoverageIsOfWhatRanOnce` is what holds of jobs that are not claimed again.
   The theorem `CoverageOfFrozenSnapshots` shows that replacing the snapshot is the only cause.
4. `service_twice`. `bulk_create_services` looks for the service first and for its nodes and edge in later statements, and
   no constraint makes a service unique. A post that finds no service, and then the nodes and the edge another
   post has stored since, conflicts with nothing and stores the service again, against "updates
   service metadata if the combination already exists rather than creating duplicates". Where the nodes are known beforehand, from
   another protocol of the port or a service deleted since, two overlapping first posts are both stored in any order.
   `ServiceStoredOnce` is what holds: only posts that overlapped before either had stored the service store it
   twice. The theorem `UpsertedWhenApart` shows that this overlap is the only cause.

Where the code promises less than a reader may expect, the property states the qualified fact:

* Limits counted without a lock (pending proposals, API keys, members) are passed by overlapping requests,
  by less than the number of requests: `OvershootBounded`, `LimitsOvershootByOverlap`.
* The receipt of a gate result counts the evidence that was stored; rows deleted since are still counted
  (`ResultCountedOnce`).
* Deleting an exchange writes back the count it read, so a promotion in
  between is not counted (`CountExactUntilOverlap`).
* A run of a case that reviews nothing is listed as history with the reason `case_modified`
  although nothing was modified (`HistoryReasonIsTrue`).

## 5. Proofs

All theorems hold for every value of the constants that satisfies the named
assumptions of the modules. They say that limits, windows and sizes are numbers (positive where the code's
are), that sets whose members are counted are finite, that `None`, `Absent`, `Nothing` and `Unlinked` are not
rows, that a request body has the fields the schema gives it, that a case is not the empty spec of a job
without snapshot, and that an address in a scope rule carries no wildcard. TLC evaluates
the assumptions on every run. `MaxTime`, `MaxTokens` and the other bounds of section 3 are arbitrary numbers
there, so nothing rests on their values.

`JobControlProofs`:

* `TypeCorrect`: by cases over the actions.
* `AlwaysConsistent`: the inductive invariant `Consistent`. The invariants are not inductive alone: that
  finishing a job releases its slot needs to know that a
  reserved slot belongs to an unacknowledged attempt, that in turn
  that a pending job has no execution row, and the poll must not lead back to
  pending.
* `CapacityRefinement`, `TargetRefinement`, `DurationRefinement`: every step of `JobControl` is a step of the
  abstract pool or account or leaves it unchanged. `Safety` follows: the
  capacity and coverage invariants are proved of the abstract steps, and with `Consistent` they are
  `RowsAgree`. `BudgetRefinement` states the three together.
* `NoRevival`, `ChargesAreFinal`: the action properties, from `Consistent`.
* `ChargesTheorem`: `ChargesSumWithinAccount`. A step writes at most one row's charge, and adds to the account what it
  adds to the row (`StepAccounted`); the sum over the rows then grows by no more (`TotalGrows`).
  `MapThenSumSet` sums by a recursive function that takes one job at a time out of the set; that such a function
  exists, and what it gives, is shown for sets of every size from a least counterexample (`SumsExist`,
  `LeastNatural`), since the induction theorems of the library cannot be instantiated.
* `OutcomesKeptWithoutPolls`: with no pollers, `OutcomesKept` (`FinishedNeverReopens` and
  `ControlledJobStaysRunning`) holds.

`AuthorityProofs`:

* `AlwaysOwned`: the inductive invariant `Ownership`, which adds to the types and to
  `AppliedExactlyOnce` that only the lock holder has a write prepared, and
  that what it prepared still fits what it read: its revision and ceiling are
  current, inserted rows are as counted, its proposal has not been applied.
  Without it, `Commit` could lose an increment.
* `RevisionTracksAuthority`, `ProposalsAppliedOnce`, `ImportsAddOnlyNew`, `AuthorityTyped`: from `Ownership`.
* `OvershootAlwaysBounded`: its own induction over the cardinality of the pending set.
* `ResolutionFinalWhenApart`: the violated `ResolutionIsFinal` holds in every run in which `ResolutionsApart` does, that is, no
  rejection is under way together with an approval or another rejection of its proposal, which taking the
  engagement lock in `reject_proposal` would ensure. Under the hypothesis, whoever is about to write a proposal
  has read it as it still is (`ReadsPending`).

`ManagedProofs`, under the assumptions of `ManagedControl` (positive lease, duration and
number of executions; `None` is no approval, artifact or outcome):

* The inductive invariant is `ManagedInv`: `JobControl`'s `Consistent`, the types,
  `ClaimsAreConsistent`, `ReceiptsAgree`, and `Linked`, which says that a contract
  belongs to a job that is past pending and whose attempt the legacy adapter never saw expire,
  that only an issued contract is consumed, that a job with an approval is marked, and that a
  completion has its result. `ReceiptsAgree` needs
  `ClaimsAreConsistent` (an attempt that ends has a contract, so its job is marked and the
  legacy adapter cannot end it), and both need `Consistent` (a pending job has no
  attempt). The preservation proof treats the managed requests one by one and
  everything `JobControl` does on its own through one abstraction of its effect on
  the rows shared with `ManagedControl`.
* `ManagedSafety`: `ManagedRowsAgree`, that is types, `ClaimsAreConsistent`, `ReceiptsAgree`.
* `ManagedRefinement`: every step is a step of `JobControl` or leaves its variables unchanged; a
  managed claim is a `Claim`, a managed end a `FinishExecution`. `ManagedBudgets`
  transports `JobControlProofs`' `Safety` to managed jobs, `ManagedCharges` its `ChargesTheorem`.
* `ManagedStoreRefinement`: only the first submit of a job touches its artifact or its evidence
  (`StoreWriters`), and that is `Store` of `ResultStore`; nothing is ever discarded. `ManagedRefinements` states
  this and the refinement of `JobControl` together.
* `LedgerTheorem`, `PermitTheorem`, `LeaseTheorem`, `ReviewTheorem`, `ReceiptTheorem`: the action
  properties. A use of a permission is one of three requests, each of which re-checks the approval
  at the moment it last writes the ledger; that is the argument for the
  permit and lease theorems. `ReviewTheorem` adds that no step changes what was reviewed without
  moving the revision, `ReceiptTheorem` (with the side invariant `Registered`: an
  approval a job refers to is never registered again) that rows survive the deletion of their job.
* `ReceiptsTheorem`: `ReceiptsAgree` alone, as the run `receipts` checks it.

`LiveEventsProofs`: `StreamsTheorem`, `StreamsLoseNothing` for any number of connections and threads and
any queue size. `MissedOnlyWhenCut` is not inductive alone: `NewIsUnknown` adds
that a connection which has not subscribed is in nobody's list of queues, so it misses nothing.

`ServicesProofs`. The components write disjoint variables, so a step of
`MCServices` is a step or a stutter of each of them (`StepsOfServices`); each has an inductive invariant of its own:

* `AuthInv`, for `GuessesTheorem`, `SessionsTheorem` and a part of `RevocationTheorem`. `GuessesBounded`
  speaks of all guesses, while the row keeps one count and two times. `CountIsRun` says what the count
  stands for: the length of the current run of guesses, which began a whole window after every guess before it;
  `LockCovers` that a full count has locked the account for a window after the last failure.
* `KeysInv` and `AccessInv`, for `LimitsTheorem`, `AccessTheorem`, `RevocationTheorem`: rows plus requests that have
  counted and not yet inserted stay below the limit plus the number of requests. `TenantsOwnTheirs` ties a row to
  the personal organization of its owner, also while a request holds the organization it has found.
* `InventoryInv`, for `InventoryTheorem`: an import holds the event loop from its read to its commit, so what it
  read is what is stored (`HandlersSound`); if a service is there although a post found none, the place is one where
  posts have raced (`BesideSound`), which makes a second row one of those `ServiceStoredOnce` allows for.
  `UpsertedWhenApart`: where no two such posts are under way together, none has raced.
* `ApiInv`, for `InventoryTheorem` and `RacesTheorem`: a deletion in flight holds the operation its exchange is of.
* `RecordsInv`, for `ReferencesTheorem`, `HistoryTheorem`, `RacesTheorem`, `RevisionsTheorem`: what a report
  has read so far is sound (`CallsSound`), it was assembled on the latest revision, and only one is being assembled.

`AssessmentProofs`: what each pass of `assess` keeps. A later pass only demotes an item, except that
the semantic pass may settle one that was reported once; so nobody is evaluated without
a single execution of their own, and a conclusive report evaluates everyone (`AssessFacts`).

`GateProofs`, from the inductive invariant `GateInv`:

* `Shaped` gives the types, `Counted` numbers a job's candidates without a gap up to the count its receipt keeps
  and equates the evidence ever stored for it with what the stored payload brings under the stored report,
  and `Reported` says that a stored report is one `assess` made of the stored
  payload, under the snapshot the job still has unless it was claimed again.
* `ResultsTheorem` follows from the first two, `ViewsTheorem` from the third: each cell of
  the views is traced back to a receipt, through the lemmas on `LatestRun`, `is_current_for` and the
  boundary questions. `FlagsTheorem` is the action property: the flag of an operation is
  computed from candidates and snapshots, and only the three listed events change those.
* `GateStoreRefinement`: an upload that is stored is `Store`, the deletion of a job `Discard`, that of evidence `Prune`, everything else leaves
  the store alone. The refinement closes a job when its receipt is stored or the job deleted; that ids are not
  reused keeps it closed.
* `CoverageOfFrozenSnapshots`: the violated `CoverageIsOfWhatRan` holds in every run in which a claim leaves the snapshot of
  a job that stored a result as it is. It needs that stored results and reports are never rewritten
  (`ResultsStay`) and that only a job with a result counts as claimed again (`ReclaimedStored`).

`DecisionsProofs`. The invariant `Posed` is that the question is one that can be asked and the answer none or
the code's; everything else is about the operators:

* `ClearTheorem`: the code's exclusion test accepts all of `CarvedOut` (`CarvedOutMatches`) and its inclusion test
  only what is stated (`MatchIsStated`); the gates, the targets and the worst outcome are followed from `check` down.
* `VerdictTheorem`: a conclusive report has one execution for each identity and none
  besides, hence as many rows as identities (`UploadCount`, a bijection); preflights likewise; an evaluated protected
  identity has one semantic row that the code matched with the case.
* `DraftTheorem`: an identity on which two cases disagree is left out of a draft
  (`MergeFacts`), and the caller chosen for a boundary is classified into it again (`DraftFacts`).
* `ExtraReportsTheorem`: `FinalFacts` says exactly when an identity ends up evaluated. A repeated row turns
  "reported once" false for one identity and changes nothing for the others, so the set of
  evaluated identities only shrinks; the rank of the verdict follows it.

Only model-checked: `QueueNeverHangs` and `QueuedIsDelivered` (liveness under fairness is outside the
prover's reach). The violation runs are counterexamples and need no proof; for each of them a theorem states the
hypothesis under which the violated property holds (`OutcomesKeptWithoutPolls`,
`ResolutionFinalWhenApart`, `CoverageOfFrozenSnapshots`, `UpsertedWhenApart`).

## 6. Plan

Built, in this order: `JobControl` with its abstract specifications, `Authority`,
`ManagedControl`; then the deciders (`Policy`, `Assessment`, `Coverage`, `Boundaries`), `GateResults`, `LiveEvents`,
and the services (`LocalAuth`, `ApiKeys`, `Access`, `Inventory`, `ApiSurface`, `FindingRecords`); then the proofs of
every safety invariant and action property of the passing runs, and `ResultStore` with its two refinements.

Left: liveness, which stays with TLC, and the components listed below.

Not modelled:

* Job events, append-only progress rows that no decision reads.
* The validation of a test case's fields and its YAML form; the formats of tools and imports; URL parsing, redaction,
  serialization and reports' wording: text in, text out, without control state.
* Signatures, digests, password hashing, browser tokens and the sanitisers of `security.py`: a
  mismatch is a refusal, which changes nothing.
* The runner heartbeat (one upserted row), notifications and readiness: output only.
* Manual tests, scan profiles, settings, playbooks: single rows without interaction.
* Migrations and the frontend, which is a client of the API.
