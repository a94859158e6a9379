------------------------------- MODULE GateResults ------------------------------
(* Gate results: cases are edited, jobs queued, claimed, released, finished and   *)
(* deleted, results uploaded (jobs.py, upload_job_result and store_gate_result),  *)
(* candidates triaged, evidence rows removed by hand or with a finding, and the   *)
(* coverage and boundary views read all of it.                                    *)
(* Composes Assessment (what an upload shows) with Coverage and Boundaries (what  *)
(* the stored rows show).                                                         *)
EXTENDS Assessment, Boundaries

CONSTANTS
    Job,
    CaseSpec,     \* the specs a case may be given
    Endpoint,     \* the inventory's operations
    Exchange,     \* captured traffic, as Coverage reads it
    Body,         \* the uploads a runner may send
    TriageStatus, \* the statuses a candidate may be given
    MaxRemoved    \* bound: evidence rows removed while their job is kept

VARIABLES
    cases,        \* case number -> spec, for the cases that exist
    jobs,         \* job -> row, for the jobs that exist
    receipts,     \* job -> JobResultReceipt with the payload its hash is taken of
    items,        \* ScanItem rows: [job, status]
    evidence,     \* Evidence rows of a job: [job, identity_id, expected, observed]
    removed,      \* evidence rows deleted while their job is kept
    used,         \* jobs ever created; ids are never reused
    reclaimed,    \* jobs claimed again after their result was stored
    clock         \* orders completed_at and created_at

gateVars == <<cases, jobs, receipts, items, evidence, removed, used, reclaimed, clock>>

ASSUME BodyAssumption ==
    \A b \in Body : /\ {"case_hash", "test_case_id", "executions", "findings",
                         "preflight", "semantic"} = DOMAIN b
                    /\ b.findings \in Nat

\* A case has identities to review and a request to send.
ASSUME CaseAssumption == NoSpec \notin CaseSpec

Db == [cases |-> cases, jobs |-> jobs, items |-> items, exchanges |-> Exchange]

GateInit ==
    /\ cases \in [{1} -> CaseSpec]
    /\ jobs = <<>> /\ receipts = <<>>
    /\ items = {} /\ evidence = {} /\ removed = {}
    /\ used = {} /\ reclaimed = {}
    /\ clock = 0

Put(f, k, v) == [x \in DOMAIN f \cup {k} |-> IF x = k THEN v ELSE f[x]]
Drop(f, k) == [x \in DOMAIN f \ {k} |-> f[x]]

---------------------------------------------------------------------------------
(* Cases and jobs. *)

EditTestCase(c, spec) ==
    /\ c \in DOMAIN cases /\ cases[c] # spec
    /\ cases' = [cases EXCEPT ![c] = spec]
    /\ UNCHANGED <<jobs, receipts, items, evidence, removed, used, reclaimed, clock>>

DeleteTestCase(c) ==
    /\ c \in DOMAIN cases
    /\ cases' = Drop(cases, c)
    /\ UNCHANGED <<jobs, receipts, items, evidence, removed, used, reclaimed, clock>>

QueueGateJob(j, c) ==
    /\ j \notin used /\ c \in DOMAIN cases
    /\ used' = used \cup {j}
    /\ clock' = clock + 1
    /\ jobs' = Put(jobs, j, [case_id |-> c, status |-> "pending", snapshot |-> <<>>,
                             assessment |-> <<>>, at |-> clock'])
    /\ UNCHANGED <<cases, receipts, items, evidence, removed, reclaimed>>

\* The claim freezes the case's present spec, whatever the job stored before.
ClaimGateJob(j) ==
    /\ j \in DOMAIN jobs /\ jobs[j].status = "pending"
    /\ jobs[j].case_id \in DOMAIN cases
    /\ jobs' = [jobs EXCEPT ![j].status = "running",
                            ![j].snapshot = <<cases[jobs[j].case_id]>>]
    /\ reclaimed' = IF j \in DOMAIN receipts THEN reclaimed \cup {j} ELSE reclaimed
    /\ UNCHANGED <<cases, receipts, items, evidence, removed, used, clock>>

\* PATCH: release a running job, or end a pending or running one.
PatchGateJob(j, status) ==
    /\ j \in DOMAIN jobs
    /\ \/ jobs[j].status = "running" /\ status \in {"pending", "done", "failed"}
       \/ jobs[j].status = "pending" /\ status \in {"done", "failed"}
    /\ clock' = IF status = "pending" THEN clock ELSE clock + 1
    /\ jobs' = [jobs EXCEPT ![j].status = status,
                            ![j].at = IF status = "pending" THEN @ ELSE clock']
    /\ UNCHANGED <<cases, receipts, items, evidence, removed, used, reclaimed>>

\* The receipt goes with the job; candidates keep a job id that names nothing, and
\* evidence loses its.
DeleteGateJob(j) ==
    /\ j \in DOMAIN jobs
    /\ jobs' = Drop(jobs, j)
    /\ receipts' = Drop(receipts, j)
    /\ evidence' = {e \in evidence : e.job # j}
    /\ removed' = {e \in removed : e.job # j}
    /\ UNCHANGED <<cases, items, used, reclaimed, clock>>

---------------------------------------------------------------------------------
(* Uploads. *)

\* Semantic rows are hashed as they are kept.
Canonical(b) == [b EXCEPT !.semantic = [i \in DOMAIN b.semantic |-> safe_semantic_row(b.semantic[i])]]

\* The stored hash is that of this payload, or of it without its semantic rows.
SamePayload(j, b) ==
    LET stored == receipts[j].payload
    IN  stored \in {Canonical(b), [Canonical(b) EXCEPT !.semantic = <<>>]}

\* The id must be that of the claimed snapshot, or of the case when nothing was claimed.
IdAgrees(j, b) ==
    LET c == jobs[j].case_id
        authoritative == IF jobs[j].snapshot # <<>> THEN jobs[j].snapshot
                         ELSE IF c \in DOMAIN cases THEN <<cases[c]>> ELSE <<>>
    IN  authoritative # <<>> /\ b.test_case_id # "" => b.test_case_id = authoritative[1].id

HashAgrees(j, b) ==
    jobs[j].snapshot # <<>> /\ b.case_hash # <<>> => b.case_hash = jobs[j].snapshot

EvidenceOf(j, b, report, verified) ==
    {[job |-> j, row |-> i, identity_id |-> b.executions[i].identity_id,
      expected |-> IF verified /\ b.executions[i].identity_id \in DOMAIN report.identities
                   THEN report.identities[b.executions[i].identity_id].expected_decision
                   ELSE "unknown",
      observed |-> b.executions[i].observed_outcome] : i \in DOMAIN b.executions}
    \cup {[job |-> j, row |-> Len(b.executions) + i, identity_id |-> b.preflight[i].identity_id,
           expected |-> "unknown", observed |-> "unknown"] : i \in DOMAIN b.preflight}

\* Mutant of store_gate_result: a result without a hash passes for the claimed case's.
StoreUnbound(j, b) ==
    LET verified == jobs[j].snapshot # <<>>
        spec == IF jobs[j].snapshot # <<>> THEN jobs[j].snapshot[1] ELSE NoSpec
        report == assess(spec, b.executions, verified, b.preflight, b.semantic)
        kept == EvidenceOf(j, b, report, verified)
    IN  /\ items' = items \cup {[job |-> j, row |-> i, status |-> "new"] : i \in 1..b.findings}
        /\ evidence' = evidence \cup kept
        /\ jobs' = [jobs EXCEPT ![j].assessment = <<report>>]
        /\ receipts' = Put(receipts, j, [payload |-> Canonical(b),
                                         scan_items_created |-> b.findings,
                                         evidence_created |-> Cardinality(kept)])

store_gate_result(j, b) ==
    LET verified == jobs[j].snapshot # <<>> /\ b.case_hash = jobs[j].snapshot
        spec == IF jobs[j].snapshot # <<>> THEN jobs[j].snapshot[1] ELSE NoSpec
        report == assess(spec, b.executions, verified, b.preflight, b.semantic)
        kept == EvidenceOf(j, b, report, verified)
    IN  /\ items' = items \cup {[job |-> j, row |-> i, status |-> "new"] : i \in 1..b.findings}
        /\ evidence' = evidence \cup kept
        /\ jobs' = [jobs EXCEPT ![j].assessment = <<report>>]
        /\ receipts' = Put(receipts, j, [payload |-> Canonical(b),
                                         scan_items_created |-> b.findings,
                                         evidence_created |-> Cardinality(kept)])

\* Mutant of Upload: the receipt is not looked for.
UploadReplaces(j, b) ==
    /\ j \in DOMAIN jobs
    /\ HashAgrees(j, b) /\ IdAgrees(j, b)
    /\ store_gate_result(j, b)
    /\ UNCHANGED <<cases, removed, used, reclaimed, clock>>

\* A first upload is stored in any status of the job; a repeated one changes nothing
\* and a different one is refused.
Upload(j, b) ==
    /\ j \in DOMAIN jobs
    /\ j \notin DOMAIN receipts
    /\ HashAgrees(j, b) /\ IdAgrees(j, b)
    /\ store_gate_result(j, b)
    /\ UNCHANGED <<cases, removed, used, reclaimed, clock>>

\* Mutant of UploadAgain: a retry stores the evidence of the payload again.
RetryRestores(j, b) ==
    /\ j \in DOMAIN jobs /\ j \in DOMAIN receipts
    /\ SamePayload(j, b)
    /\ LET report == jobs[j].assessment[1]
       IN  evidence' = evidence \cup EvidenceOf(j, b, report, report.case_snapshot_verified)
    /\ UNCHANGED <<cases, jobs, receipts, items, removed, used, reclaimed, clock>>

UploadAgain(j, b) ==
    /\ j \in DOMAIN jobs /\ j \in DOMAIN receipts
    /\ SamePayload(j, b)
    /\ UNCHANGED gateVars

\* PATCH of one candidate; the bulk form is several of these.
Triage(i, status) ==
    /\ i \in items
    /\ items' = (items \ {i}) \cup {[i EXCEPT !.status = status]}
    /\ UNCHANGED <<cases, jobs, receipts, evidence, removed, used, reclaimed, clock>>

---------------------------------------------------------------------------------
(* Evidence is a row of its own, which anybody who may write deletes; the receipt *)
(* and the report stay as they are.                                               *)

delete_evidence(e) ==
    /\ e \in evidence /\ Cardinality(removed \cup {e}) <= MaxRemoved
    /\ evidence' = evidence \ {e}
    /\ removed' = removed \cup {e}
    /\ UNCHANGED <<cases, jobs, receipts, items, used, reclaimed, clock>>

\* A deleted finding takes along the rows linked to it.  link_evidence may have linked any rows
\* to it that exist, of one job or of several; no handler of this module reads the link.
delete_finding(linked) ==
    /\ linked \subseteq evidence /\ linked # {}
    /\ Cardinality(removed \cup linked) <= MaxRemoved
    /\ evidence' = evidence \ linked
    /\ removed' = removed \cup linked
    /\ UNCHANGED <<cases, jobs, receipts, items, used, reclaimed, clock>>

GateNext ==
    \/ \E c \in DOMAIN cases : DeleteTestCase(c) \/ \E s \in CaseSpec : EditTestCase(c, s)
    \/ \E j \in Job, c \in DOMAIN cases : QueueGateJob(j, c)
    \/ \E j \in Job : \/ ClaimGateJob(j)
                      \/ \E s \in {"pending", "done", "failed"} : PatchGateJob(j, s)
                      \/ DeleteGateJob(j)
                      \/ \E b \in Body : Upload(j, b) \/ UploadAgain(j, b)
    \/ \E i \in items, s \in TriageStatus : Triage(i, s)
    \/ \E e \in evidence : delete_evidence(e)
    \/ \E linked \in SUBSET evidence : delete_finding(linked)

GateSpec == GateInit /\ [][GateNext]_gateVars

---------------------------------------------------------------------------------
(* Properties. *)

GateTypeOK ==
    /\ DOMAIN jobs \subseteq used /\ used \subseteq Job
    /\ DOMAIN receipts \subseteq DOMAIN jobs
    /\ \A j \in DOMAIN jobs :
           /\ jobs[j].status \in {"pending", "running", "done", "failed"}
           /\ jobs[j].snapshot \in {<<>>} \cup {<<s>> : s \in CaseSpec}
           /\ jobs[j].at \in 0..clock
    /\ \A c \in DOMAIN cases : cases[c] \in CaseSpec
    /\ \A i \in items : i.job \in used

\* The evidence stored for a job, the rows deleted since included.
EverStored(j) == {e \in evidence \cup removed : e.job = j}

\* One result per job, whatever is sent and sent again: a job has an assessment exactly
\* when it has a receipt, and its candidates are those the receipt counts.  Its evidence is
\* what the first upload brought, as the receipt counts it, less the rows deleted since: no
\* retry brings a deleted row back, and no later upload adds one (jobs.store_gate_result,
\* evidence.delete_evidence, findings.delete_finding).
ResultCountedOnce ==
    /\ evidence \cap removed = {}
    /\ \A j \in DOMAIN jobs :
           /\ (jobs[j].assessment # <<>>) = (j \in DOMAIN receipts)
           /\ j \in DOMAIN receipts =>
                  /\ Cardinality({i \in items : i.job = j}) = receipts[j].scan_items_created
                  /\ Cardinality(EverStored(j)) = receipts[j].evidence_created
                  /\ LET report == jobs[j].assessment[1]
                     IN  EverStored(j) = EvidenceOf(j, receipts[j].payload, report,
                                                    report.case_snapshot_verified)

\* The run behind current coverage ran today's definition: its result names the hash of
\* the case's present spec (authorization_coverage._Run.is_current_for).
CoverageIsOfWhatRan ==
    \A j \in Runs(Db), c \in DOMAIN cases :
        is_current_for(Db, j, c) => receipts[j].payload.case_hash = <<cases[c]>>

\* The same, for every job that is not claimed again after its result was stored.
CoverageIsOfWhatRanOnce ==
    \A j \in Runs(Db) \ reclaimed, c \in DOMAIN cases :
        is_current_for(Db, j, c) => receipts[j].payload.case_hash = <<cases[c]>>

\* A candidate keeps its operation flagged: an operation leaves violation_candidate only
\* when a candidate is triaged, its job deleted, or the job claimed again; editing or
\* deleting the case, releasing or finishing jobs and new results do not clear it
\* (authorization_coverage._operation).
FlaggedUntilTriaged ==
    [][\A e \in Endpoint :
           /\ operation_state(Db, e) = "violation_candidate"
           /\ operation_state(Db, e)' # "violation_candidate"
           => \/ items' # items
              \/ DOMAIN jobs' # DOMAIN jobs
              \/ \E j \in DOMAIN receipts : jobs'[j].snapshot # jobs[j].snapshot]_gateVars

\* History gives the true reason a run no longer counts: its case is gone; or its result
\* named no hash, or came before the claim it was to be compared with; or the case's
\* present spec is another (authorization_coverage._historical_reason).  A run of a case
\* that reviews nothing is listed as modified all the same.
HistoryReasonIsTrue ==
    \A e \in Endpoint : \A j \in History(Db, e) :
        LET c == jobs[j].case_id
            reason == historical_reason(Db, j)
        IN  /\ reason = "case_deleted" => c \notin DOMAIN cases
            /\ reason = "snapshot_unverified" =>
                   receipts[j].payload.case_hash = <<>> \/ j \in reclaimed
            /\ reason = "case_modified" /\ Reviewed(cases[c]) =>
                   jobs[j].snapshot # <<cases[c]>>

\* Conclusive means everyone: an operation shown conclusive has every identity of every
\* reviewed case for it evaluated by a run of that case's present spec.
ConclusiveMeansEvaluated ==
    \A e \in Endpoint :
        operation_state(Db, e) = "conclusive" /\ reclaimed = {} =>
            \A c \in Matched(Db, e) : \A id \in cases[c].identities :
                identity_state(Db, e, id) = "evaluated"

\* A boundary question is withheld only when somebody asked it: an askable class of a
\* prioritised operation that has no hypothesis was put to the target by a caller whom
\* the case's own declarations place in that class, in exactly one execution of the
\* result of a run of today's spec (authorization_relationships.build_relationships).
WithheldOnlyIfRun ==
    reclaimed = {} =>
        \A e \in {x \in Endpoint : priority_reasons(Db, x) # {}} :
            \A k \in askable(Db) \ {h.boundary : h \in hypotheses(Db, e)} :
                \E c \in Matched(Db, e), j \in DOMAIN receipts :
                    /\ receipts[j].payload.case_hash = <<cases[c]>>
                    /\ \E id \in cases[c].identities :
                           /\ k \in CaseClasses(cases[c], id)
                           /\ ReportedOnce(receipts[j].payload.executions, id)

\* What the coverage and boundary views say is backed by a stored result of the definition they
\* show, however cases were edited and jobs released since (build_coverage, build_relationships).
ViewsAreBacked ==
    /\ CoverageIsOfWhatRanOnce
    /\ HistoryReasonIsTrue
    /\ ConclusiveMeansEvaluated
    /\ WithheldOnlyIfRun

\* Jobs, receipts, candidates and evidence agree after every upload, retry and deletion.
ResultsAgree == GateTypeOK /\ ResultCountedOnce

---------------------------------------------------------------------------------
(* Results implement their abstract specification. *)

\* A deleted job and one with a receipt store nothing more.
Results == INSTANCE ResultStore WITH
    Document <- {Canonical(b) : b \in Body},
    stored <- [j \in Job |-> IF j \in DOMAIN receipts THEN <<receipts[j].payload>> ELSE <<>>],
    evidence <- [j \in Job |-> {e \in evidence : e.job = j}],
    closed <- DOMAIN receipts \cup (used \ DOMAIN jobs)

\* upload_job_result and delete_job keep results as ResultStore does: one result per job,
\* written with its evidence in one step, never rewritten by a retry, a later upload or a
\* second claim, and dropped with the job for good.  Evidence only shrinks after that.
ImplementsResultStore == Results!Spec
===============================================================================
