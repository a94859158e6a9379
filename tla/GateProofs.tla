------------------------------- MODULE GateProofs -------------------------------
(* Gate results for every set of jobs, specs, operations and uploads: what is     *)
(* stored agrees with itself, the views are backed by it, a flag stays until      *)
(* somebody acts on it, results are kept as ResultStore keeps them, and what it   *)
(* takes for coverage to be of something else than what ran.                      *)
EXTENDS GateResults, AssessmentProofs, NaturalsInduction, WellFoundedInduction

JobFields == {"case_id", "status", "snapshot", "assessment", "at"}
Snapshots == {<<>>} \cup {<<s>> : s \in CaseSpec}

\* The rows as the handlers write them.
Shaped ==
    /\ clock \in Nat
    /\ DOMAIN jobs \subseteq used /\ used \subseteq Job
    /\ \A c \in DOMAIN cases : cases[c] \in CaseSpec
    /\ \A j \in DOMAIN jobs :
           /\ DOMAIN jobs[j] = JobFields
           /\ jobs[j].status \in {"pending", "running", "done", "failed"}
           /\ jobs[j].snapshot \in Snapshots
           /\ jobs[j].at \in 0..clock

ItemsOf(j) == {i \in items : i.job = j}

\* The evidence a stored payload brought, under the report made of it.
Brought(j, payload, report) == EvidenceOf(j, payload, report, report.case_snapshot_verified)

\* A job's candidates are numbered without gap or repetition up to the count its receipt
\* keeps, and the evidence kept and deleted since is what its payload brought; a job without a
\* receipt has no candidates, no evidence and no assessment.
Counted ==
    /\ DOMAIN receipts \subseteq DOMAIN jobs
    /\ \A i \in items :
           /\ DOMAIN i = {"job", "row", "status"}
           /\ i.job \in used
           /\ i.job \in DOMAIN jobs => i.job \in DOMAIN receipts
    /\ \A i, k \in items : i.job = k.job /\ i.row = k.row => i = k
    /\ evidence \cap removed = {}
    /\ \A e \in evidence \cup removed : e.job \in DOMAIN receipts
    /\ \A j \in DOMAIN jobs : (jobs[j].assessment # <<>>) = (j \in DOMAIN receipts)
    /\ \A j \in DOMAIN receipts :
           /\ receipts[j].scan_items_created \in Nat
           /\ {i.row : i \in ItemsOf(j)} = 1..receipts[j].scan_items_created
           /\ Cardinality(EverStored(j)) = receipts[j].evidence_created
           /\ EverStored(j) = Brought(j, receipts[j].payload, jobs[j].assessment[1])

\* What a stored report and its payload say of the snapshot the job had at upload.
Kept(report, payload, snapshot) ==
    /\ report.case_snapshot_verified => /\ snapshot # <<>>
                                        /\ payload.case_hash = snapshot
                                        /\ DOMAIN report.identities = snapshot[1].identities
    /\ ~report.case_snapshot_verified => snapshot = <<>> \/ payload.case_hash = <<>>

\* Every stored report is one assess() made of the stored payload: nobody is evaluated
\* without a single execution of their own, a conclusive report evaluates everyone, and
\* until the job is claimed again its snapshot is the one the report was made under.
Reported ==
    \A j \in DOMAIN receipts :
        LET report == jobs[j].assessment[1]
            payload == receipts[j].payload
        IN  /\ report.status = "conclusive" =>
                   \A id \in DOMAIN report.identities : report.identities[id].state = "evaluated"
            /\ \A id \in DOMAIN report.identities :
                   report.identities[id].state = "evaluated" => ReportedOnce(payload.executions, id)
            /\ j \notin reclaimed => Kept(report, payload, jobs[j].snapshot)

GateInv == Shaped /\ Counted /\ Reported

---------------------------------------------------------------------------------
(* What each handler does to the rows. *)

\* A step that leaves the set of jobs and all results alone keeps Counted.
LEMMA CountedKept ==
    ASSUME Counted, DOMAIN jobs' = DOMAIN jobs, UNCHANGED <<receipts, items, evidence, removed, used>>,
           \A j \in DOMAIN jobs : jobs'[j].assessment = jobs[j].assessment
    PROVE  Counted'
  <1>1. \A j : ItemsOf(j)' = ItemsOf(j) /\ EverStored(j)' = EverStored(j)
    BY DEF ItemsOf, EverStored
  <1> QED
    BY <1>1 DEF Counted

\* A step that keeps the reports and, unless the job is claimed again, its snapshot
\* keeps Reported.
LEMMA ReportedKept ==
    ASSUME Reported, DOMAIN receipts \subseteq DOMAIN jobs, DOMAIN receipts' \subseteq DOMAIN receipts,
           \A j \in DOMAIN receipts' : /\ receipts'[j] = receipts[j]
                                       /\ jobs'[j].assessment = jobs[j].assessment
                                       /\ j \notin reclaimed' => /\ j \notin reclaimed
                                                                 /\ jobs'[j].snapshot = jobs[j].snapshot
    PROVE  Reported'
  BY DEF Reported

\* Dropping one row of a function leaves the others.
LEMMA DropFacts ==
    ASSUME NEW f, NEW k
    PROVE  /\ DOMAIN Drop(f, k) = DOMAIN f \ {k}
           /\ \A x \in DOMAIN f \ {k} : Drop(f, k)[x] = f[x]
  BY DEF Drop

\* Nothing is stored at first.
LEMMA GateInitInv ==
    ASSUME GateInit
    PROVE  GateInv
  <1>1. /\ DOMAIN jobs = {} /\ DOMAIN receipts = {}
        /\ \A c \in DOMAIN cases : cases[c] \in CaseSpec
    BY DEF GateInit
  <1> QED
    BY <1>1 DEF GateInit, GateInv, Shaped, Counted, Reported, ItemsOf, EverStored

\* Editing or deleting a case touches no job and no result.
LEMMA CasesSound ==
    ASSUME GateInv, NEW c,
           DeleteTestCase(c) \/ \E s \in CaseSpec : EditTestCase(c, s)
    PROVE  GateInv'
  <1>1. UNCHANGED <<jobs, receipts, items, evidence, removed, used, reclaimed, clock>>
    BY DEF DeleteTestCase, EditTestCase
  <1>2. \A x \in DOMAIN cases' : cases'[x] \in CaseSpec
    <2>1. CASE DeleteTestCase(c)
      <3>1. cases' = Drop(cases, c)
        BY <2>1 DEF DeleteTestCase
      <3>2. DOMAIN cases' = DOMAIN cases \ {c} /\ \A x \in DOMAIN cases \ {c} : cases'[x] = cases[x]
        BY <3>1, DropFacts
      <3> QED
        BY <3>2 DEF GateInv, Shaped
    <2>2. ASSUME NEW s \in CaseSpec, EditTestCase(c, s)
          PROVE  \A x \in DOMAIN cases' : cases'[x] \in CaseSpec
      BY <2>2 DEF EditTestCase, GateInv, Shaped
    <2> QED
      BY <2>1, <2>2
  <1>3. Shaped'
    BY <1>1, <1>2 DEF GateInv, Shaped
  <1>4. Counted'
    BY <1>1 DEF GateInv, Counted, ItemsOf, EverStored
  <1>5. Reported'
    BY <1>1 DEF GateInv, Reported
  <1> QED
    BY <1>3, <1>4, <1>5 DEF GateInv

\* A new job has no snapshot and no result.
LEMMA QueueSound ==
    ASSUME GateInv, NEW j \in Job, NEW c, QueueGateJob(j, c)
    PROVE  GateInv'
  <1> DEFINE row == [case_id |-> c, status |-> "pending", snapshot |-> <<>>,
                     assessment |-> <<>>, at |-> clock']
  <1>1. /\ DOMAIN jobs' = DOMAIN jobs \cup {j}
        /\ jobs'[j] = row
        /\ \A x \in DOMAIN jobs \ {j} : jobs'[x] = jobs[x]
    <2>1. jobs' = Put(jobs, j, row)
      BY DEF QueueGateJob
    <2> HIDE DEF row
    <2> QED
      BY <2>1 DEF Put
  <1>2. /\ j \notin used /\ used' = used \cup {j} /\ clock' = clock + 1
        /\ UNCHANGED <<cases, receipts, items, evidence, removed, reclaimed>>
    BY DEF QueueGateJob
  <1>3. /\ DOMAIN row = JobFields /\ row.status = "pending" /\ row.snapshot = <<>>
        /\ row.assessment = <<>> /\ row.at = clock'
    BY DEF JobFields
  <1> HIDE DEF row
  <1>4. j \notin DOMAIN jobs /\ j \notin DOMAIN receipts
    BY <1>2 DEF GateInv, Shaped, Counted
  <1>5. Shaped'
    BY <1>1, <1>2, <1>3 DEF GateInv, Shaped, Snapshots
  <1>6. Counted'
    <2>1. \A x \in DOMAIN jobs' : (jobs'[x].assessment # <<>>) = (x \in DOMAIN receipts')
      BY <1>1, <1>2, <1>3, <1>4 DEF GateInv, Counted
    <2>2. \A i \in items : i.job # j
      BY <1>2 DEF GateInv, Counted
    <2>3. \A x : ItemsOf(x)' = ItemsOf(x) /\ EverStored(x)' = EverStored(x)
      BY <1>2 DEF ItemsOf, EverStored
    <2>4. \A x \in DOMAIN receipts : receipts'[x] = receipts[x] /\ jobs'[x] = jobs[x]
      BY <1>1, <1>2, <1>4 DEF GateInv, Counted
    <2> QED
      BY <1>1, <1>2, <2>1, <2>2, <2>3, <2>4 DEF GateInv, Counted
  <1>7. Reported'
    <2>1. \A x \in DOMAIN receipts' : jobs'[x] = jobs[x]
      BY <1>1, <1>2, <1>4 DEF GateInv, Counted
    <2> QED
      BY <1>2, <2>1, ReportedKept DEF GateInv, Counted
  <1> QED
    BY <1>5, <1>6, <1>7 DEF GateInv

\* A claim freezes a spec; where a result is stored already the job counts as reclaimed.
LEMMA ClaimSound ==
    ASSUME GateInv, NEW j, ClaimGateJob(j)
    PROVE  GateInv'
  <1> DEFINE old == jobs[j]
             snap == <<cases[jobs[j].case_id]>>
             row == [old EXCEPT !.status = "running", !.snapshot = snap]
  <1>1. /\ j \in DOMAIN jobs /\ jobs[j].case_id \in DOMAIN cases
        /\ jobs' = [jobs EXCEPT ![j] = row]
        /\ reclaimed' = IF j \in DOMAIN receipts THEN reclaimed \cup {j} ELSE reclaimed
        /\ UNCHANGED <<cases, receipts, items, evidence, removed, used, clock>>
    BY DEF ClaimGateJob
  <1>2. snap \in Snapshots
    BY <1>1 DEF GateInv, Shaped, Snapshots
  <1>3. DOMAIN old = JobFields
    BY <1>1 DEF GateInv, Shaped
  <1> HIDE DEF old, snap
  <1>4. /\ DOMAIN row = JobFields /\ row.status = "running" /\ row.snapshot = snap
        /\ row.assessment = old.assessment /\ row.at = old.at
    BY <1>3 DEF JobFields
  <1> HIDE DEF row
  <1>5. /\ DOMAIN jobs' = DOMAIN jobs /\ jobs'[j] = row
        /\ \A x \in DOMAIN jobs \ {j} : jobs'[x] = jobs[x]
    BY <1>1
  <1>6. \A x \in DOMAIN jobs : jobs'[x].assessment = jobs[x].assessment
    BY <1>4, <1>5 DEF old
  <1>7. Shaped'
    <2>1. row.at \in 0..clock
      BY <1>1, <1>4 DEF old, GateInv, Shaped
    <2> QED
      BY <1>1, <1>2, <1>4, <1>5, <2>1 DEF GateInv, Shaped
  <1>8. Counted'
    BY <1>1, <1>5, <1>6, CountedKept DEF GateInv
  <1>9. Reported'
    <2>1. ASSUME NEW x \in DOMAIN receipts', x \notin reclaimed'
          PROVE  x \notin reclaimed /\ jobs'[x].snapshot = jobs[x].snapshot
      <3>1. x # j /\ x \notin reclaimed
        BY <1>1, <2>1
      <3> QED
        BY <1>1, <1>5, <3>1 DEF GateInv, Counted
    <2> QED
      BY <1>1, <1>6, <2>1, ReportedKept DEF GateInv, Counted
  <1> QED
    BY <1>7, <1>8, <1>9 DEF GateInv

\* Releasing or ending a job keeps its snapshot and its assessment.
LEMMA PatchSound ==
    ASSUME GateInv, NEW j, NEW s \in {"pending", "done", "failed"}, PatchGateJob(j, s)
    PROVE  GateInv'
  <1> DEFINE old == jobs[j]
             at == IF s = "pending" THEN old.at ELSE clock'
             row == [old EXCEPT !.status = s, !.at = at]
  <1>1. /\ j \in DOMAIN jobs
        /\ jobs' = [jobs EXCEPT ![j] = row]
        /\ clock' = IF s = "pending" THEN clock ELSE clock + 1
        /\ UNCHANGED <<cases, receipts, items, evidence, removed, used, reclaimed>>
    BY DEF PatchGateJob
  <1>2. DOMAIN old = JobFields /\ old.at \in 0..clock /\ clock \in Nat
    BY <1>1 DEF GateInv, Shaped
  <1>3. at \in 0..clock' /\ clock' \in Nat /\ clock <= clock'
    <2> HIDE DEF old
    <2> QED
      BY <1>1, <1>2
  <1> HIDE DEF old, at
  <1>4. /\ DOMAIN row = JobFields /\ row.status = s /\ row.snapshot = old.snapshot
        /\ row.assessment = old.assessment /\ row.at = at
    BY <1>2 DEF JobFields
  <1> HIDE DEF row
  <1>5. /\ DOMAIN jobs' = DOMAIN jobs /\ jobs'[j] = row
        /\ \A x \in DOMAIN jobs \ {j} : jobs'[x] = jobs[x]
    BY <1>1
  <1>6. \A x \in DOMAIN jobs : /\ jobs'[x].assessment = jobs[x].assessment
                               /\ jobs'[x].snapshot = jobs[x].snapshot
    BY <1>4, <1>5 DEF old
  <1>7. Shaped'
    <2>1. \A x \in DOMAIN jobs' : /\ DOMAIN jobs'[x] = JobFields
                                  /\ jobs'[x].status \in {"pending", "running", "done", "failed"}
                                  /\ jobs'[x].snapshot \in Snapshots
      BY <1>4, <1>5, <1>6 DEF GateInv, Shaped
    <2>2. \A x \in DOMAIN jobs' : jobs'[x].at \in 0..clock'
      BY <1>2, <1>3, <1>4, <1>5 DEF GateInv, Shaped
    <2> QED
      BY <1>1, <1>3, <1>5, <2>1, <2>2 DEF GateInv, Shaped
  <1>8. Counted'
    BY <1>1, <1>5, <1>6, CountedKept DEF GateInv
  <1>9. Reported'
    BY <1>1, <1>6, ReportedKept DEF GateInv, Counted
  <1> QED
    BY <1>7, <1>8, <1>9 DEF GateInv

\* A deleted job takes its receipt and its evidence along; its candidates stay behind.
LEMMA DeleteSound ==
    ASSUME GateInv, NEW j, DeleteGateJob(j)
    PROVE  GateInv'
  <1>1. /\ DOMAIN jobs' = DOMAIN jobs \ {j}
        /\ \A x \in DOMAIN jobs \ {j} : jobs'[x] = jobs[x]
        /\ DOMAIN receipts' = DOMAIN receipts \ {j}
        /\ \A x \in DOMAIN receipts \ {j} : receipts'[x] = receipts[x]
        /\ evidence' = {e \in evidence : e.job # j}
        /\ removed' = {e \in removed : e.job # j}
        /\ UNCHANGED <<cases, items, used, reclaimed, clock>>
    BY DEF DeleteGateJob, Drop
  <1>2. Shaped'
    BY <1>1 DEF GateInv, Shaped
  <1>3. Counted'
    <2>1. ASSUME NEW x \in DOMAIN receipts'
          PROVE  /\ receipts'[x].scan_items_created \in Nat
                 /\ {i.row : i \in ItemsOf(x)'} = 1..receipts'[x].scan_items_created
                 /\ Cardinality(EverStored(x)') = receipts'[x].evidence_created
                 /\ EverStored(x)' = Brought(x, receipts'[x].payload, jobs'[x].assessment[1])
      <3>1. x \in DOMAIN receipts /\ x # j /\ receipts'[x] = receipts[x] /\ jobs'[x] = jobs[x]
        BY <1>1 DEF GateInv, Counted
      <3>2. ItemsOf(x)' = ItemsOf(x) /\ EverStored(x)' = EverStored(x)
        BY <1>1, <3>1 DEF ItemsOf, EverStored
      <3> QED
        BY <3>1, <3>2 DEF GateInv, Counted
    <2>2. \A x \in DOMAIN jobs' : (jobs'[x].assessment # <<>>) = (x \in DOMAIN receipts')
      BY <1>1 DEF GateInv, Counted
    <2>3. /\ DOMAIN receipts' \subseteq DOMAIN jobs'
          /\ \A i \in items' : /\ DOMAIN i = {"job", "row", "status"}
                               /\ i.job \in used'
                               /\ i.job \in DOMAIN jobs' => i.job \in DOMAIN receipts'
          /\ evidence' \cap removed' = {}
          /\ \A e \in evidence' \cup removed' : e.job \in DOMAIN receipts'
      BY <1>1 DEF GateInv, Counted
    <2>4. \A i, k \in items' : i.job = k.job /\ i.row = k.row => i = k
      BY <1>1 DEF GateInv, Counted
    <2> QED
      BY <2>1, <2>2, <2>3, <2>4 DEF Counted
  <1>4. Reported'
    <2>1. \A x \in DOMAIN receipts' : x \in DOMAIN receipts /\ x \in DOMAIN jobs \ {j}
      BY <1>1 DEF GateInv, Counted
    <2> QED
      BY <1>1, <2>1, ReportedKept DEF GateInv, Counted
  <1> QED
    BY <1>2, <1>3, <1>4 DEF GateInv

\* Triage rewrites one candidate's status in place.
LEMMA TriageSound ==
    ASSUME GateInv, NEW i \in items, NEW s, Triage(i, s)
    PROVE  GateInv'
  <1> DEFINE new == [i EXCEPT !.status = s]
  <1>1. /\ items' = (items \ {i}) \cup {new}
        /\ UNCHANGED <<cases, jobs, receipts, evidence, removed, used, reclaimed, clock>>
    BY DEF Triage
  <1>2. DOMAIN i = {"job", "row", "status"}
    BY DEF GateInv, Counted
  <1>3. DOMAIN new = {"job", "row", "status"} /\ new.job = i.job /\ new.row = i.row
    BY <1>2
  <1> HIDE DEF new
  <1>4. Shaped' /\ Reported'
    BY <1>1 DEF GateInv, Shaped, Reported
  <1>5. \A j : {k.row : k \in ItemsOf(j)'} = {k.row : k \in ItemsOf(j)}
    <2> SUFFICES ASSUME NEW j
                 PROVE  {k.row : k \in ItemsOf(j)'} = {k.row : k \in ItemsOf(j)}
      OBVIOUS
    <2>1. ASSUME NEW k \in ItemsOf(j)'
          PROVE  \E l \in ItemsOf(j) : l.row = k.row
      BY <1>1, <1>3 DEF ItemsOf
    <2>2. ASSUME NEW k \in ItemsOf(j)
          PROVE  \E l \in ItemsOf(j)' : l.row = k.row
      BY <1>1, <1>3 DEF ItemsOf
    <2> QED
      BY <2>1, <2>2
  <1>6. Counted'
    <2>1. \A k \in items' : /\ DOMAIN k = {"job", "row", "status"}
                            /\ k.job \in used'
                            /\ k.job \in DOMAIN jobs' => k.job \in DOMAIN receipts'
      BY <1>1, <1>3 DEF GateInv, Counted
    <2>2. \A k, l \in items' : k.job = l.job /\ k.row = l.row => k = l
      BY <1>1, <1>3 DEF GateInv, Counted
    <2>3. \A j : EverStored(j)' = EverStored(j)
      BY <1>1 DEF EverStored
    <2> QED
      BY <1>1, <1>5, <2>1, <2>2, <2>3 DEF GateInv, Counted
  <1> QED
    BY <1>4, <1>6 DEF GateInv

\* Deleting evidence moves rows among those that were stored; nothing else changes.
LEMMA RemoveSound ==
    ASSUME GateInv, NEW gone \in SUBSET evidence,
           evidence' = evidence \ gone, removed' = removed \cup gone,
           UNCHANGED <<cases, jobs, receipts, items, used, reclaimed, clock>>
    PROVE  GateInv'
  <1>1. evidence' \cup removed' = evidence \cup removed
    OBVIOUS
  <1>2. \A j : ItemsOf(j)' = ItemsOf(j) /\ EverStored(j)' = EverStored(j)
    BY <1>1 DEF ItemsOf, EverStored
  <1>3. evidence' \cap removed' = {}
    BY DEF GateInv, Counted
  <1>4. Counted'
    BY <1>1, <1>2, <1>3 DEF GateInv, Counted
  <1>5. Shaped' /\ Reported'
    BY DEF GateInv, Shaped, Reported
  <1> QED
    BY <1>4, <1>5 DEF GateInv

\* A stored payload is what was uploaded, its semantic rows reduced.
LEMMA CanonicalFacts ==
    ASSUME NEW b \in Body
    PROVE  /\ Canonical(b).executions = b.executions /\ Canonical(b).preflight = b.preflight
           /\ Canonical(b).case_hash = b.case_hash
  <1> DEFINE safe == [i \in DOMAIN b.semantic |-> safe_semantic_row(b.semantic[i])]
  <1>1. DOMAIN b = {"case_hash", "test_case_id", "executions", "findings", "preflight", "semantic"}
    BY BodyAssumption
  <1>2. Canonical(b) = [b EXCEPT !.semantic = safe]
    BY DEF Canonical
  <1> HIDE DEF safe
  <1> QED
    BY <1>1, <1>2

\* The evidence of an upload names its job.
LEMMA EvidenceFacts ==
    ASSUME NEW j, NEW b, NEW report, NEW verified
    PROVE  \A e \in EvidenceOf(j, b, report, verified) : e.job = j
  <1> DEFINE Said(i) == IF verified /\ b.executions[i].identity_id \in DOMAIN report.identities
                        THEN report.identities[b.executions[i].identity_id].expected_decision
                        ELSE "unknown"
             Ran(i) == [job |-> j, row |-> i, identity_id |-> b.executions[i].identity_id,
                        expected |-> Said(i), observed |-> b.executions[i].observed_outcome]
             Flown(i) == [job |-> j, row |-> Len(b.executions) + i,
                          identity_id |-> b.preflight[i].identity_id,
                          expected |-> "unknown", observed |-> "unknown"]
  <1>1. EvidenceOf(j, b, report, verified) =
            {Ran(i) : i \in DOMAIN b.executions} \cup {Flown(i) : i \in DOMAIN b.preflight}
    BY DEF EvidenceOf
  <1> HIDE DEF Said
  <1>2. \A i : Ran(i).job = j /\ Flown(i).job = j
    OBVIOUS
  <1> HIDE DEF Ran, Flown
  <1> QED
    BY <1>1, <1>2

\* A backed identity was executed exactly once.
LEMMA BackedIsReported ==
    ASSUME NEW spec, NEW executions, NEW semantic, NEW id, NEW verified,
           Backed(spec, executions, semantic, id, verified)
    PROVE  ReportedOnce(executions, id)
  BY DEF Backed, StatusBacked, SemanticBacked

\* The first upload stores one receipt, its candidates, its evidence and its report.
LEMMA UploadSound ==
    ASSUME GateInv, NEW j, NEW b \in Body, Upload(j, b)
    PROVE  GateInv'
  <1> DEFINE old == jobs[j]
             snap == old.snapshot
             verified == snap # <<>> /\ b.case_hash = snap
             spec == IF snap # <<>> THEN snap[1] ELSE NoSpec
             report == assess(spec, b.executions, verified, b.preflight, b.semantic)
             kept == EvidenceOf(j, b, report, verified)
             New(i) == [job |-> j, row |-> i, status |-> "new"]
             fresh == {New(i) : i \in 1..b.findings}
             row == [old EXCEPT !.assessment = <<report>>]
             receipt == [payload |-> Canonical(b), scan_items_created |-> b.findings,
                         evidence_created |-> Cardinality(kept)]
  <1>1. /\ j \in DOMAIN jobs /\ j \notin DOMAIN receipts
        /\ HashAgrees(j, b)
        /\ items' = items \cup fresh
        /\ evidence' = evidence \cup kept
        /\ jobs' = [jobs EXCEPT ![j] = row]
        /\ receipts' = Put(receipts, j, receipt)
        /\ UNCHANGED <<cases, removed, used, reclaimed, clock>>
    <2>1. j \in DOMAIN jobs /\ j \notin DOMAIN receipts /\ HashAgrees(j, b)
          /\ UNCHANGED <<cases, removed, used, reclaimed, clock>>
      BY DEF Upload
    <2>2. store_gate_result(j, b)
      BY DEF Upload
    <2>3. items' = items \cup fresh
      BY <2>2 DEF store_gate_result
    <2>4. evidence' = evidence \cup kept
      BY <2>2 DEF store_gate_result
    <2>5. jobs' = [jobs EXCEPT ![j] = row]
      BY <2>2 DEF store_gate_result
    <2>6. receipts' = Put(receipts, j, receipt)
      BY <2>2 DEF store_gate_result
    <2> QED
      BY <2>1, <2>3, <2>4, <2>5, <2>6
  <1>2. \A e \in kept : e.job = j
    BY EvidenceFacts
  <1>3. /\ receipt.payload = Canonical(b)
        /\ receipt.scan_items_created = b.findings
        /\ receipt.evidence_created = Cardinality(kept)
    OBVIOUS
  <1>4. ReportSound(spec, b.executions, verified, b.preflight, b.semantic, report)
    BY AssessFacts
  <1>5. DOMAIN old = JobFields /\ snap \in Snapshots
    BY <1>1 DEF GateInv, Shaped
  <1>6. b.findings \in Nat
    BY BodyAssumption
  <1> HIDE DEF report, kept, receipt, old
  <1>7. /\ DOMAIN row = JobFields /\ row.assessment = <<report>>
        /\ row.status = old.status /\ row.snapshot = snap /\ row.at = old.at
    BY <1>5 DEF JobFields
  <1> HIDE DEF row
  <1>8. /\ DOMAIN jobs' = DOMAIN jobs /\ jobs'[j] = row
        /\ \A x \in DOMAIN jobs \ {j} : jobs'[x] = jobs[x]
    BY <1>1
  <1>9. /\ DOMAIN receipts' = DOMAIN receipts \cup {j} /\ receipts'[j] = receipt
        /\ \A x \in DOMAIN receipts : x # j /\ receipts'[x] = receipts[x]
    BY <1>1 DEF Put
  <1>10. Shaped'
    BY <1>1, <1>7, <1>8 DEF GateInv, Shaped, old
  <1>11. /\ \A i \in fresh : /\ DOMAIN i = {"job", "row", "status"} /\ i.job = j
                             /\ i.row \in 1..b.findings
         /\ \A n \in 1..b.findings : \E i \in fresh : i.row = n
         /\ \A i, k \in fresh : i.row = k.row => i = k
    <2>1. \A n : DOMAIN New(n) = {"job", "row", "status"} /\ New(n).job = j /\ New(n).row = n
      OBVIOUS
    <2> HIDE DEF New
    <2>2. \A i \in fresh : \E n \in 1..b.findings : i = New(n)
      OBVIOUS
    <2>3. \A n \in 1..b.findings : New(n) \in fresh
      OBVIOUS
    <2> HIDE DEF fresh
    <2> QED
      BY <2>1, <2>2, <2>3
  <1> HIDE DEF fresh
  <1>12. \A i \in items : i.job # j
    BY <1>1 DEF GateInv, Counted
  <1>13. \A e \in evidence \cup removed : e.job # j
    BY <1>1 DEF GateInv, Counted
  <1>14. /\ report.status = "conclusive" =>
                \A id \in DOMAIN report.identities : report.identities[id].state = "evaluated"
         /\ \A id \in DOMAIN report.identities :
                report.identities[id].state = "evaluated" => ReportedOnce(b.executions, id)
    <2> HIDE DEF verified, spec
    <2> QED
      BY <1>4, BackedIsReported DEF ReportSound
  <1>15. kept = Brought(j, Canonical(b), report)
    <2>1. snap # <<>> => spec # NoSpec
      <3>1. snap # <<>> => \E s \in CaseSpec : snap = <<s>>
        BY <1>5 DEF Snapshots
      <3> QED
        BY <3>1, CaseAssumption
    <2>2. report.case_snapshot_verified = (verified /\ spec # NoSpec)
      <3> HIDE DEF verified, spec
      <3> QED BY <1>4 DEF ReportSound
    <2>3. verified = (snap # <<>> /\ b.case_hash = snap)
      OBVIOUS
    <2>4. kept = EvidenceOf(j, b, report, verified)
      BY DEF kept
    <2> HIDE DEF verified, spec, snap
    <2>5. report.case_snapshot_verified = verified
      BY <2>1, <2>2, <2>3
    <2>6. EvidenceOf(j, Canonical(b), report, verified) = EvidenceOf(j, b, report, verified)
      BY CanonicalFacts DEF EvidenceOf
    <2> QED
      BY <2>4, <2>5, <2>6 DEF Brought
  <1>16. Counted'
    <2>1. ItemsOf(j)' = fresh /\ EverStored(j)' = kept
      BY <1>1, <1>2, <1>11, <1>12, <1>13 DEF ItemsOf, EverStored
    <2>2. ASSUME NEW x, x # j
          PROVE  ItemsOf(x)' = ItemsOf(x) /\ EverStored(x)' = EverStored(x)
      BY <1>1, <1>2, <1>11, <2>2 DEF ItemsOf, EverStored
    <2>3. {i.row : i \in fresh} = 1..b.findings
      BY <1>11
    <2>4. ASSUME NEW x \in DOMAIN receipts'
          PROVE  /\ receipts'[x].scan_items_created \in Nat
                 /\ {i.row : i \in ItemsOf(x)'} = 1..receipts'[x].scan_items_created
                 /\ Cardinality(EverStored(x)') = receipts'[x].evidence_created
                 /\ EverStored(x)' = Brought(x, receipts'[x].payload, jobs'[x].assessment[1])
      <3>1. CASE x = j
        <4>1. jobs'[x].assessment[1] = report /\ receipts'[x] = receipt
          BY <1>7, <1>8, <1>9, <3>1
        <4> QED
          BY <1>3, <1>6, <1>15, <2>1, <2>3, <3>1, <4>1
      <3>2. CASE x # j
        <4>1. /\ x \in DOMAIN receipts /\ receipts'[x] = receipts[x] /\ jobs'[x] = jobs[x]
          BY <1>8, <1>9, <3>2 DEF GateInv, Counted
        <4> QED
          BY <2>2, <3>2, <4>1 DEF GateInv, Counted
      <3> QED
        BY <3>1, <3>2
    <2>5. \A x \in DOMAIN jobs' : (jobs'[x].assessment # <<>>) = (x \in DOMAIN receipts')
      BY <1>7, <1>8, <1>9 DEF GateInv, Counted
    <2>6. \A i \in items' : /\ DOMAIN i = {"job", "row", "status"}
                            /\ i.job \in used'
                            /\ i.job \in DOMAIN jobs' => i.job \in DOMAIN receipts'
      <3>1. j \in used
        BY <1>1 DEF GateInv, Shaped
      <3> QED
        BY <1>1, <1>8, <1>9, <1>11, <3>1 DEF GateInv, Counted
    <2>7. \A i, k \in items' : i.job = k.job /\ i.row = k.row => i = k
      BY <1>1, <1>11, <1>12 DEF GateInv, Counted
    <2>8. /\ DOMAIN receipts' \subseteq DOMAIN jobs'
          /\ evidence' \cap removed' = {}
          /\ \A e \in evidence' \cup removed' : e.job \in DOMAIN receipts'
      BY <1>1, <1>2, <1>8, <1>9, <1>13 DEF GateInv, Counted
    <2> QED
      BY <2>4, <2>5, <2>6, <2>7, <2>8 DEF Counted
  <1>17. Kept(report, Canonical(b), snap)
    <2>1. snap # <<>> => spec = snap[1] /\ spec # NoSpec
      <3>1. snap # <<>> => \E s \in CaseSpec : snap = <<s>>
        BY <1>5 DEF Snapshots
      <3> QED
        BY <3>1, CaseAssumption
    <2>2. snap # <<>> /\ b.case_hash # <<>> => b.case_hash = snap
      BY <1>1 DEF HashAgrees, old
    <2>3. /\ report.case_snapshot_verified = (verified /\ spec # NoSpec)
          /\ DOMAIN report.identities = spec.identities
      <3> HIDE DEF verified, spec
      <3> QED BY <1>4 DEF ReportSound
    <2>4. Canonical(b).case_hash = b.case_hash
      BY CanonicalFacts
    <2>5. verified <=> snap # <<>> /\ b.case_hash = snap
      OBVIOUS
    <2> HIDE DEF verified, spec, snap
    <2> QED
      BY <2>1, <2>2, <2>3, <2>4, <2>5 DEF Kept
  <1>18. Reported'
    <2> SUFFICES ASSUME NEW x \in DOMAIN receipts'
                 PROVE  LET rep == jobs'[x].assessment[1]
                            payload == receipts'[x].payload
                        IN  /\ rep.status = "conclusive" =>
                                   \A id \in DOMAIN rep.identities :
                                       rep.identities[id].state = "evaluated"
                            /\ \A id \in DOMAIN rep.identities :
                                   rep.identities[id].state = "evaluated" =>
                                       ReportedOnce(payload.executions, id)
                            /\ x \notin reclaimed' => Kept(rep, payload, jobs'[x].snapshot)
      BY DEF Reported
    <2>1. CASE x = j
      <3>1. /\ jobs'[x].assessment[1] = report /\ jobs'[x].snapshot = snap
            /\ receipts'[x].payload = Canonical(b)
        BY <1>3, <1>7, <1>8, <1>9, <2>1
      <3>2. Canonical(b).executions = b.executions
        BY CanonicalFacts
      <3> HIDE DEF snap
      <3> QED
        BY <1>14, <1>17, <3>1, <3>2
    <2>2. CASE x # j
      <3>1. /\ x \in DOMAIN receipts /\ receipts'[x] = receipts[x]
            /\ jobs'[x] = jobs[x] /\ reclaimed' = reclaimed
        BY <1>1, <1>8, <1>9, <2>2 DEF GateInv, Counted
      <3> QED
        BY <3>1 DEF GateInv, Reported
    <2> QED
      BY <2>1, <2>2
  <1> QED
    BY <1>10, <1>16, <1>18 DEF GateInv

---------------------------------------------------------------------------------
(* The invariant, and that what is stored agrees. *)

\* Every step of GateNext keeps the invariant.
LEMMA GateInductive ==
    ASSUME GateInv, [GateNext]_gateVars
    PROVE  GateInv'
  <1>1. CASE UNCHANGED gateVars
    BY <1>1 DEF gateVars, GateInv, Shaped, Counted, Reported, ItemsOf, EverStored
  <1>2. CASE \E c \in DOMAIN cases : DeleteTestCase(c) \/ \E s \in CaseSpec : EditTestCase(c, s)
    BY <1>2, CasesSound
  <1>3. CASE \E j \in Job, c \in DOMAIN cases : QueueGateJob(j, c)
    BY <1>3, QueueSound
  <1>4. ASSUME NEW j \in Job,
               \/ ClaimGateJob(j)
               \/ \E s \in {"pending", "done", "failed"} : PatchGateJob(j, s)
               \/ DeleteGateJob(j)
               \/ \E b \in Body : Upload(j, b) \/ UploadAgain(j, b)
        PROVE  GateInv'
    <2>1. CASE ClaimGateJob(j)
      BY <2>1, ClaimSound
    <2>2. CASE \E s \in {"pending", "done", "failed"} : PatchGateJob(j, s)
      BY <2>2, PatchSound
    <2>3. CASE DeleteGateJob(j)
      BY <2>3, DeleteSound
    <2>4. CASE \E b \in Body : Upload(j, b)
      BY <2>4, UploadSound
    <2>5. CASE \E b \in Body : UploadAgain(j, b)
      BY <1>1, <2>5 DEF UploadAgain
    <2> QED
      BY <1>4, <2>1, <2>2, <2>3, <2>4, <2>5
  <1>5. CASE \E i \in items, s \in TriageStatus : Triage(i, s)
    BY <1>5, TriageSound
  <1>6. CASE \E e \in evidence : delete_evidence(e)
    <2>1. PICK e \in evidence : delete_evidence(e)
      BY <1>6
    <2> QED
      BY <2>1, RemoveSound DEF delete_evidence
  <1>7. CASE \E linked \in SUBSET evidence : delete_finding(linked)
    BY <1>7, RemoveSound DEF delete_finding
  <1> QED
    BY <1>1, <1>2, <1>3, <1>4, <1>5, <1>6, <1>7 DEF GateNext

\* The invariant holds in every reachable state.
LEMMA GateInvariant == GateSpec => []GateInv
  BY GateInitInv, GateInductive, PTL DEF GateSpec

\* Numbered candidates are as many as the receipt says.
LEMMA InvImpliesAgree ==
    ASSUME GateInv
    PROVE  ResultsAgree
  <1>1. GateTypeOK
    BY DEF GateInv, Shaped, Counted, GateTypeOK, Snapshots
  <1>2. ASSUME NEW j \in DOMAIN receipts
        PROVE  Cardinality({i \in items : i.job = j}) = receipts[j].scan_items_created
    <2> DEFINE S == {i \in items : i.job = j}
               n == receipts[j].scan_items_created
               f == [m \in 1..n |-> CHOOSE i \in S : i.row = m]
    <2>1. n \in Nat /\ {i.row : i \in S} = 1..n
      BY <1>2 DEF GateInv, Counted, ItemsOf
    <2>2. \A i, k \in S : i.row = k.row => i = k
      BY DEF GateInv, Counted
    <2> HIDE DEF S, n
    <2>3. \A m \in 1..n : f[m] \in S /\ f[m].row = m
      <3>1. \A m \in 1..n : \E i \in S : i.row = m
        BY <2>1
      <3> QED
        BY <3>1
    <2>4. f \in [1..n -> S]
      BY <2>3
    <2> HIDE DEF f
    <2>5. \A a, b \in 1..n : f[a] = f[b] => a = b
      BY <2>3
    <2>6. \A s \in S : \E a \in 1..n : f[a] = s
      <3>1. \A s \in S : s.row \in 1..n
        BY <2>1
      <3> QED
        BY <2>2, <2>3, <3>1
    <2>7. Cardinality(S) = n
      BY <2>1, <2>4, <2>5, <2>6, NumberedCount
    <2> QED
      BY <2>7 DEF S, n
  <1>3. ResultCountedOnce
    BY <1>2 DEF GateInv, Counted, ResultCountedOnce, Brought
  <1> QED
    BY <1>1, <1>3 DEF ResultsAgree

\* One result per job, counted once: whatever is uploaded, retried, triaged, released or
\* deleted, a job's assessment, receipt and candidates agree, and its evidence is what the
\* stored payload brought, less what was deleted (jobs.upload_job_result, store_gate_result,
\* evidence.delete_evidence, findings.delete_finding).
THEOREM ResultsTheorem == GateSpec => []ResultsAgree
  BY GateInvariant, InvImpliesAgree, PTL

---------------------------------------------------------------------------------
(* The views. *)

\* The jobs the views read are the stored ones.
LEMMA DbFacts ==
    /\ Db.cases = cases /\ Db.jobs = jobs /\ Db.items = items /\ Db.exchanges = Exchange
  BY DEF Db

\* A run is a job with a receipt.
LEMMA RunsAreReceipts ==
    ASSUME GateInv
    PROVE  Runs(Db) = DOMAIN receipts
  BY DbFacts DEF Runs, GateInv, Counted

\* The latest current run of an executed case is one of its current runs.
LEMMA LatestFacts ==
    ASSUME GateInv, NEW c, Executed(Db, c)
    PROVE  LatestRun(Db, c) \in CurrentRuns(Db, c)
  <1> DEFINE S == CurrentRuns(Db, c)
             ages == {clock - jobs[j].at : j \in S}
  <1>1. S # {} /\ S \subseteq DOMAIN jobs
    BY DbFacts DEF Executed, CurrentRuns, RunsOf, Runs
  <1>2. \A j \in S : jobs[j].at \in 0..clock /\ clock \in Nat
    BY <1>1 DEF GateInv, Shaped
  <1> HIDE DEF S
  <1>3. ages \in SUBSET Nat /\ ages # {}
    BY <1>1, <1>2
  <1>4. PICK a \in ages : \A b \in ages : a <= b
    BY <1>3, LeastNatural
  <1>5. PICK j \in S : a = clock - jobs[j].at
    BY <1>4
  <1>6. \A k \in S : jobs[k].at <= jobs[j].at
    <2> SUFFICES ASSUME NEW k \in S
                 PROVE  jobs[k].at <= jobs[j].at
      OBVIOUS
    <2>1. clock - jobs[j].at <= clock - jobs[k].at
      BY <1>4, <1>5
    <2> QED
      BY <1>2, <2>1
  <1>7. LatestRun(Db, c) = CHOOSE x \in S : \A k \in S : jobs[k].at <= jobs[x].at
    BY DbFacts DEF LatestRun, S
  <1>8. \E x \in S : \A k \in S : jobs[k].at <= jobs[x].at
    BY <1>5, <1>6
  <1>9. LatestRun(Db, c) \in S
    BY <1>7, <1>8
  <1> QED
    BY <1>9 DEF S

\* A current run that was not claimed again is a result of the case's present spec.
LEMMA CurrentFacts ==
    ASSUME GateInv, NEW j, j \in Runs(Db), j \notin reclaimed, NEW c, is_current_for(Db, j, c)
    PROVE  /\ j \in DOMAIN receipts
           /\ c \in DOMAIN cases
           /\ receipts[j].payload.case_hash = <<cases[c]>>
           /\ DOMAIN jobs[j].assessment[1].identities = cases[c].identities
  <1> DEFINE report == jobs[j].assessment[1]
             payload == receipts[j].payload
             snap == jobs[j].snapshot
  <1>1. j \in DOMAIN receipts
    BY RunsAreReceipts
  <1>2. c \in DOMAIN cases /\ report.case_snapshot_verified /\ snap = <<cases[c]>>
    BY DbFacts DEF is_current_for, Verified
  <1>3. Kept(report, payload, snap)
    BY <1>1 DEF GateInv, Reported
  <1> HIDE DEF report, payload, snap
  <1>4. payload.case_hash = snap /\ DOMAIN report.identities = snap[1].identities
    BY <1>2, <1>3 DEF Kept
  <1>5. snap[1] = cases[c]
    BY <1>2
  <1> QED
    BY <1>1, <1>2, <1>4, <1>5 DEF report, payload

\* Current coverage is of what ran.
LEMMA CoverageSound ==
    ASSUME GateInv
    PROVE  CoverageIsOfWhatRanOnce
  BY CurrentFacts DEF CoverageIsOfWhatRanOnce

\* Every reason the history gives is the true one.
LEMMA HistorySound ==
    ASSUME GateInv
    PROVE  HistoryReasonIsTrue
  <1> SUFFICES ASSUME NEW e \in Endpoint, NEW j \in History(Db, e)
               PROVE  LET c == jobs[j].case_id
                          reason == historical_reason(Db, j)
                      IN  /\ reason = "case_deleted" => c \notin DOMAIN cases
                          /\ reason = "snapshot_unverified" =>
                                 receipts[j].payload.case_hash = <<>> \/ j \in reclaimed
                          /\ reason = "case_modified" /\ Reviewed(cases[c]) =>
                                 jobs[j].snapshot # <<cases[c]>>
    BY DEF HistoryReasonIsTrue
  <1> DEFINE c == jobs[j].case_id
             reason == historical_reason(Db, j)
             report == jobs[j].assessment[1]
             snap == jobs[j].snapshot
  <1>1. reason = IF c \notin DOMAIN cases THEN "case_deleted"
                 ELSE IF ~report.case_snapshot_verified THEN "snapshot_unverified"
                 ELSE "case_modified"
    BY DbFacts DEF historical_reason, Verified
  <1>2. j \in DOMAIN receipts
    BY RunsAreReceipts DEF History, Attributed
  <1>3. operation_matches(e, RunRequest(jobs[j]))
    BY DbFacts DEF History, Attributed
  <1>4. snap # <<>> /\ RunRequest(jobs[j]) = parse_request(snap[1].request)
    BY <1>3 DEF RunRequest, operation_matches
  <1>5. ASSUME ~report.case_snapshot_verified, j \notin reclaimed
        PROVE  receipts[j].payload.case_hash = <<>>
    <2>1. Kept(report, receipts[j].payload, snap)
      BY <1>2, <1>5 DEF GateInv, Reported
    <2> QED
      BY <1>4, <1>5, <2>1 DEF Kept
  <1>6. ASSUME report.case_snapshot_verified, c \in DOMAIN cases, Reviewed(cases[c]),
               snap = <<cases[c]>>
        PROVE  FALSE
    <2>1. is_current_for(Db, j, c)
      BY <1>6, DbFacts DEF is_current_for, Verified
    <2>2. snap[1] = cases[c]
      BY <1>6
    <2>3. operation_matches(e, parse_request(cases[c].request))
      BY <1>3, <1>4, <2>2
    <2>4. c \in Matched(Db, e)
      BY <1>6, <2>3, DbFacts DEF Matched
    <2> QED
      BY <2>1, <2>4 DEF History
  <1> HIDE DEF c, reason, report, snap
  <1>7. /\ reason = "case_deleted" => c \notin DOMAIN cases
        /\ reason = "snapshot_unverified" => ~report.case_snapshot_verified
        /\ reason = "case_modified" => c \in DOMAIN cases /\ report.case_snapshot_verified
    BY <1>1
  <1> QED
    BY <1>5, <1>6, <1>7 DEF c, reason, snap

\* A conclusive operation has every matched case executed, and conclusively.
LEMMA ConclusiveFacts ==
    ASSUME NEW db, NEW e, operation_state(db, e) = "conclusive"
    PROVE  \A c \in Matched(db, e) :
               /\ Executed(db, c)
               /\ db.jobs[LatestRun(db, c)].assessment[1].status = "conclusive"
  <1> DEFINE matched == Matched(db, e)
             executed == {c \in matched : Executed(db, c)}
             statuses == {db.jobs[LatestRun(db, c)].assessment[1].status : c \in executed}
             A == OpenCandidates(db, e) \cup Promoted(db, e) # {}
             B == \E c \in matched : StaleRuns(db, c) # {}
  <1>1. operation_state(db, e) =
            IF A THEN "violation_candidate"
            ELSE IF matched = {} THEN "untested"
            ELSE IF executed = {} THEN IF B THEN "stale" ELSE "reviewed_not_executed"
            ELSE IF statuses = {"conclusive"} /\ executed = matched THEN "conclusive"
            ELSE IF statuses \cap {"conclusive", "partial"} # {} THEN "partial"
            ELSE "inconclusive"
    BY DEF operation_state
  <1>2. statuses = {"conclusive"} /\ executed = matched
    <2> HIDE DEF A, B, matched, executed, statuses
    <2> QED
      BY <1>1
  <1> QED
    BY <1>2

\* An identity that every matched case declaring it ran and evaluated is evaluated.
LEMMA EvaluatedFacts ==
    ASSUME NEW db, NEW e, NEW id,
           \E c \in Matched(db, e) : id \in db.cases[c].identities,
           \A c \in Matched(db, e) : id \in db.cases[c].identities =>
               Executed(db, c) /\ CellState(db, c, id) = "evaluated"
    PROVE  identity_state(db, e, id) = "evaluated"
  <1> DEFINE declaring == {c \in Matched(db, e) : id \in db.cases[c].identities}
             ran == {c \in declaring : Executed(db, c)}
             states == {CellState(db, c, id) : c \in ran}
             last == CHOOSE s \in states : \A t \in states : IdentityRank(t) <= IdentityRank(s)
  <1>1. identity_state(db, e, id) =
            IF declaring = {} THEN "not_reviewed"
            ELSE IF ran = {} THEN "reviewed_not_run"
            ELSE IF ran = declaring /\ states = {"evaluated"} THEN "evaluated"
            ELSE IF "evaluated" \in states THEN "mixed"
            ELSE last
    BY DEF identity_state
  <1>2. declaring # {} /\ ran = declaring
    OBVIOUS
  <1>3. states = {"evaluated"}
    BY <1>2
  <1> HIDE DEF declaring, ran, states, last
  <1> QED
    BY <1>1, <1>2, <1>3

\* A cell of an executed case is what its latest current run reports.
LEMMA CellFacts ==
    ASSUME GateInv, reclaimed = {}, NEW c, Executed(Db, c), NEW id,
           id \in cases[c].identities
    PROVE  \E j \in DOMAIN receipts :
               /\ j = LatestRun(Db, c)
               /\ c \in DOMAIN cases
               /\ receipts[j].payload.case_hash = <<cases[c]>>
               /\ id \in DOMAIN jobs[j].assessment[1].identities
               /\ CellState(Db, c, id) = jobs[j].assessment[1].identities[id].state
  <1> DEFINE j == LatestRun(Db, c)
  <1>1. j \in Runs(Db) /\ is_current_for(Db, j, c)
    BY LatestFacts DEF CurrentRuns, RunsOf
  <1> HIDE DEF j
  <1>2. /\ j \in DOMAIN receipts
        /\ c \in DOMAIN cases
        /\ receipts[j].payload.case_hash = <<cases[c]>>
        /\ DOMAIN jobs[j].assessment[1].identities = cases[c].identities
    BY <1>1, CurrentFacts
  <1>3. CellState(Db, c, id) = jobs[j].assessment[1].identities[id].state
    BY <1>2, DbFacts DEF CellState, j
  <1> QED
    BY <1>2, <1>3 DEF j

\* Conclusive means everyone was evaluated.
LEMMA ConclusiveSound ==
    ASSUME GateInv
    PROVE  ConclusiveMeansEvaluated
  <1> SUFFICES ASSUME NEW e \in Endpoint, operation_state(Db, e) = "conclusive", reclaimed = {},
                      NEW c \in Matched(Db, e), NEW id \in cases[c].identities
               PROVE  identity_state(Db, e, id) = "evaluated"
    BY DEF ConclusiveMeansEvaluated
  <1>1. \A k \in Matched(Db, e) :
            /\ Executed(Db, k)
            /\ jobs[LatestRun(Db, k)].assessment[1].status = "conclusive"
    BY ConclusiveFacts, DbFacts
  <1>2. ASSUME NEW k \in Matched(Db, e), id \in cases[k].identities
        PROVE  CellState(Db, k, id) = "evaluated"
    <2>1. PICK j \in DOMAIN receipts :
              /\ j = LatestRun(Db, k)
              /\ id \in DOMAIN jobs[j].assessment[1].identities
              /\ CellState(Db, k, id) = jobs[j].assessment[1].identities[id].state
      BY <1>1, <1>2, CellFacts
    <2>2. jobs[j].assessment[1].status = "conclusive"
      BY <1>1, <2>1
    <2> QED
      BY <2>1, <2>2 DEF GateInv, Reported
  <1>3. Db.cases = cases
    BY DbFacts
  <1> QED
    BY <1>1, <1>2, <1>3, EvaluatedFacts

\* A class without a hypothesis is one some pair evaluated.
LEMMA WithheldFacts ==
    ASSUME NEW db, NEW e, priority_reasons(db, e) # {}, NEW k \in askable(db),
           k \notin {h.boundary : h \in hypotheses(db, e)}
    PROVE  Evaluated(db, e, k) # {}
  <1> SUFFICES ASSUME Evaluated(db, e, k) = {}
               PROVE  FALSE
    OBVIOUS
  <1> DEFINE open == {x \in askable(db) : Evaluated(db, e, x) = {}}
             H(x) == [boundary |-> x, status |-> HypothesisStatus(db, e, x)]
  <1>1. hypotheses(db, e) = {H(x) : x \in open}
    BY DEF hypotheses
  <1>2. k \in open /\ H(k).boundary = k
    OBVIOUS
  <1> HIDE DEF open, H
  <1>3. H(k) \in hypotheses(db, e)
    BY <1>1, <1>2
  <1> QED
    BY <1>2, <1>3

\* A question is withheld only when somebody asked it.
LEMMA WithheldSound ==
    ASSUME GateInv
    PROVE  WithheldOnlyIfRun
  <1> SUFFICES ASSUME reclaimed = {}, NEW e \in Endpoint, priority_reasons(Db, e) # {},
                      NEW k \in askable(Db), k \notin {h.boundary : h \in hypotheses(Db, e)}
               PROVE  \E c \in Matched(Db, e), j \in DOMAIN receipts :
                          /\ receipts[j].payload.case_hash = <<cases[c]>>
                          /\ \E id \in cases[c].identities :
                                 /\ k \in CaseClasses(cases[c], id)
                                 /\ ReportedOnce(receipts[j].payload.executions, id)
    BY DEF WithheldOnlyIfRun
  <1>1. PICK p \in Asked(Db, e, k) : Executed(Db, p[1]) /\ CellState(Db, p[1], p[2]) = "evaluated"
    BY WithheldFacts DEF Evaluated
  <1> DEFINE c == p[1]
             id == p[2]
  <1>2. /\ c \in Matched(Db, e)
        /\ id \in cases[c].identities
        /\ k \in CaseClasses(cases[c], id)
    BY <1>1, DbFacts DEF Asked
  <1>3. Executed(Db, c) /\ CellState(Db, c, id) = "evaluated"
    BY <1>1
  <1> HIDE DEF c, id
  <1>4. PICK j \in DOMAIN receipts :
            /\ receipts[j].payload.case_hash = <<cases[c]>>
            /\ id \in DOMAIN jobs[j].assessment[1].identities
            /\ CellState(Db, c, id) = jobs[j].assessment[1].identities[id].state
    BY <1>2, <1>3, CellFacts
  <1>5. ReportedOnce(receipts[j].payload.executions, id)
    BY <1>3, <1>4 DEF GateInv, Reported
  <1> QED
    BY <1>2, <1>4, <1>5

\* Whatever was edited, released and uploaded, what the coverage and boundary views say
\* is backed by a stored result of the definition they show
\* (authorization_coverage.build_coverage, authorization_relationships.build_relationships).
THEOREM ViewsTheorem == GateSpec => []ViewsAreBacked
  <1>1. GateInv => ViewsAreBacked
    BY CoverageSound, HistorySound, ConclusiveSound, WithheldSound DEF ViewsAreBacked
  <1> QED
    BY <1>1, GateInvariant, PTL

---------------------------------------------------------------------------------
(* Flags. *)

\* An operation is flagged exactly when a run placed on it has an open or promoted
\* candidate.
LEMMA FlagFacts ==
    ASSUME NEW db, NEW e
    PROVE  operation_state(db, e) = "violation_candidate" <=>
               \E i \in db.items : /\ i.status \in {"new", "reviewed", "promoted"}
                                   /\ i.job \in Attributed(db, e)
  <1> DEFINE matched == Matched(db, e)
             executed == {c \in matched : Executed(db, c)}
             statuses == {db.jobs[LatestRun(db, c)].assessment[1].status : c \in executed}
             A == OpenCandidates(db, e) \cup Promoted(db, e) # {}
             B == \E c \in matched : StaleRuns(db, c) # {}
  <1>1. operation_state(db, e) =
            IF A THEN "violation_candidate"
            ELSE IF matched = {} THEN "untested"
            ELSE IF executed = {} THEN IF B THEN "stale" ELSE "reviewed_not_executed"
            ELSE IF statuses = {"conclusive"} /\ executed = matched THEN "conclusive"
            ELSE IF statuses \cap {"conclusive", "partial"} # {} THEN "partial"
            ELSE "inconclusive"
    BY DEF operation_state
  <1>2. operation_state(db, e) = "violation_candidate" <=> A
    <2> HIDE DEF A, B, matched, executed, statuses
    <2> QED
      BY <1>1
  <1>3. A <=> \E i \in db.items : /\ i.status \in {"new", "reviewed", "promoted"}
                                  /\ i.job \in Attributed(db, e)
    BY DEF OpenCandidates, Promoted, Candidates
  <1> QED
    BY <1>2, <1>3

\* A result goes only with its job.
LEMMA ReceiptsStay ==
    ASSUME GateInv, [GateNext]_gateVars
    PROVE  \A j \in DOMAIN receipts : j \in DOMAIN jobs' => j \in DOMAIN receipts'
  <1>1. CASE \E j, b : Upload(j, b)
    BY <1>1 DEF Upload, store_gate_result, Put
  <1>2. CASE \E j : DeleteGateJob(j)
    BY <1>2 DEF DeleteGateJob, Drop
  <1>3. CASE UNCHANGED receipts
    BY <1>3
  <1> QED
    BY <1>1, <1>2, <1>3
    DEF GateNext, gateVars, EditTestCase, DeleteTestCase, QueueGateJob, ClaimGateJob, PatchGateJob,
        UploadAgain, Triage, delete_evidence, delete_finding

\* A flag is never cleared by a handler that was asked something else: until a candidate
\* is triaged, a job deleted or claimed again, a flagged operation stays flagged
\* (authorization_coverage._operation).
THEOREM FlagsTheorem == GateSpec => FlaggedUntilTriaged
  <1> DEFINE Flagged(e) == operation_state(Db, e) = "violation_candidate"
  <1>1. ASSUME GateInv, GateInv', GateNext, NEW e \in Endpoint, Flagged(e),
               items' = items, DOMAIN jobs' = DOMAIN jobs,
               \A j \in DOMAIN receipts : jobs'[j].snapshot = jobs[j].snapshot
        PROVE  operation_state(Db, e)' = "violation_candidate"
    <2>1. PICK i \in items : /\ i.status \in {"new", "reviewed", "promoted"}
                             /\ i.job \in Attributed(Db, e)
      BY <1>1, FlagFacts, DbFacts
    <2> DEFINE j == i.job
    <2>2. /\ j \in DOMAIN receipts /\ j \in DOMAIN jobs
          /\ operation_matches(e, RunRequest(jobs[j]))
      BY <1>1, <2>1, DbFacts, RunsAreReceipts DEF Attributed, GateInv, Counted
    <2>3. RunRequest(jobs'[j]) = RunRequest(jobs[j])
      BY <1>1, <2>2 DEF RunRequest
    <2>4. j \in DOMAIN receipts'
      BY <1>1, <2>2, ReceiptsStay
    <2>5. j \in DOMAIN jobs' /\ jobs'[j].assessment # <<>>
      BY <1>1, <2>2, <2>4 DEF GateInv, Counted
    <2>6. Db'.jobs = jobs' /\ Db'.items = items'
      BY DEF Db
    <2>7. j \in Attributed(Db', e)
      BY <2>2, <2>3, <2>5, <2>6 DEF Attributed, Runs
    <2>8. \E k \in Db'.items : /\ k.status \in {"new", "reviewed", "promoted"}
                               /\ k.job \in Attributed(Db', e)
      BY <1>1, <2>1, <2>6, <2>7
    <2>9. operation_state(Db', e) = "violation_candidate"
      BY <2>8, FlagFacts
    <2> QED
      BY <2>9
  <1>2. GateInv /\ GateInv' /\ [GateNext]_gateVars =>
            [\A e \in Endpoint :
               /\ operation_state(Db, e) = "violation_candidate"
               /\ operation_state(Db, e)' # "violation_candidate"
               => \/ items' # items
                  \/ DOMAIN jobs' # DOMAIN jobs
                  \/ \E j \in DOMAIN receipts : jobs'[j].snapshot # jobs[j].snapshot]_gateVars
    BY <1>1
  <1> QED
    BY <1>2, GateInvariant, PTL DEF GateSpec, FlaggedUntilTriaged

---------------------------------------------------------------------------------
(* Why current coverage can be of something else: the snapshot was replaced. *)

\* A stored result is never rewritten, and its report stays with it.
LEMMA ResultsStay ==
    ASSUME GateInv, [GateNext]_gateVars, NEW j \in DOMAIN receipts, j \in DOMAIN jobs'
    PROVE  /\ j \in DOMAIN receipts' /\ receipts'[j] = receipts[j]
           /\ jobs'[j].assessment = jobs[j].assessment
  <1>0. j \in DOMAIN jobs /\ j \in used
    BY DEF GateInv, Shaped, Counted
  <1>1. ASSUME NEW k, NEW b, Upload(k, b)
        PROVE  receipts'[j] = receipts[j] /\ jobs'[j] = jobs[j]
    BY <1>0, <1>1 DEF Upload, store_gate_result, Put
  <1>2. ASSUME NEW k, DeleteGateJob(k)
        PROVE  receipts'[j] = receipts[j] /\ jobs'[j] = jobs[j]
    <2>1. jobs' = Drop(jobs, k) /\ receipts' = Drop(receipts, k)
      BY <1>2 DEF DeleteGateJob
    <2>2. j # k
      BY <2>1, DropFacts
    <2> QED
      BY <1>0, <2>1, <2>2, DropFacts
  <1>3. ASSUME NEW k, NEW c, QueueGateJob(k, c)
        PROVE  receipts' = receipts /\ jobs'[j] = jobs[j]
    BY <1>0, <1>3 DEF QueueGateJob, Put
  <1>4. ASSUME NEW k, ClaimGateJob(k)
        PROVE  receipts' = receipts /\ jobs'[j].assessment = jobs[j].assessment
    <2>1. DOMAIN jobs[j] = JobFields
      BY <1>0 DEF GateInv, Shaped
    <2>2. j # k => jobs'[j] = jobs[j]
      BY <1>0, <1>4 DEF ClaimGateJob
    <2>3. j = k => jobs'[j].assessment = jobs[j].assessment
      BY <1>0, <1>4, <2>1 DEF ClaimGateJob, JobFields
    <2> QED
      BY <1>4, <2>2, <2>3 DEF ClaimGateJob
  <1>5. ASSUME NEW k, NEW s, PatchGateJob(k, s)
        PROVE  receipts' = receipts /\ jobs'[j].assessment = jobs[j].assessment
    <2>1. DOMAIN jobs[j] = JobFields
      BY <1>0 DEF GateInv, Shaped
    <2>2. j # k => jobs'[j] = jobs[j]
      BY <1>0, <1>5 DEF PatchGateJob
    <2>3. j = k => jobs'[j].assessment = jobs[j].assessment
      BY <1>0, <1>5, <2>1 DEF PatchGateJob, JobFields
    <2> QED
      BY <1>5, <2>2, <2>3 DEF PatchGateJob
  <1>6. CASE UNCHANGED <<jobs, receipts>>
    BY <1>6
  <1>7. j \in DOMAIN receipts'
    BY ReceiptsStay
  <1> QED
    BY <1>1, <1>2, <1>3, <1>4, <1>5, <1>6, <1>7
    DEF GateNext, gateVars, EditTestCase, DeleteTestCase, UploadAgain, Triage, delete_evidence, delete_finding

\* A claim that leaves the snapshot of a job that stored a result as it is.
SnapshotsFrozen ==
    [][\A j \in DOMAIN receipts : j \in DOMAIN jobs' => jobs'[j].snapshot = jobs[j].snapshot]_gateVars

\* Then every report stays beside the snapshot it was made under.
ReportsFit ==
    /\ \A j \in reclaimed : j \in used /\ (j \in DOMAIN jobs => j \in DOMAIN receipts)
    /\ \A j \in DOMAIN receipts : Kept(jobs[j].assessment[1], receipts[j].payload, jobs[j].snapshot)

\* A job has been claimed again only if it stored a result.
LEMMA ReclaimedStored ==
    ASSUME GateInv, [GateNext]_gateVars,
           \A j \in reclaimed : j \in used /\ (j \in DOMAIN jobs => j \in DOMAIN receipts)
    PROVE  \A j \in reclaimed' : j \in used' /\ (j \in DOMAIN jobs' => j \in DOMAIN receipts')
  <1> SUFFICES ASSUME NEW j \in reclaimed'
               PROVE  j \in used' /\ (j \in DOMAIN jobs' => j \in DOMAIN receipts')
    OBVIOUS
  <1>1. CASE \E k : ClaimGateJob(k)
    <2>1. j \in reclaimed \/ j \in DOMAIN receipts
      BY <1>1 DEF ClaimGateJob
    <2>2. DOMAIN jobs' = DOMAIN jobs /\ UNCHANGED <<receipts, used>>
      BY <1>1 DEF ClaimGateJob
    <2> QED
      BY <2>1, <2>2 DEF GateInv, Shaped, Counted
  <1>2. ASSUME NEW k, NEW c, QueueGateJob(k, c)
        PROVE  j \in used' /\ (j \in DOMAIN jobs' => j \in DOMAIN receipts')
    <2>1. /\ k \notin used /\ used' = used \cup {k} /\ DOMAIN jobs' = DOMAIN jobs \cup {k}
          /\ UNCHANGED <<receipts, reclaimed>>
      BY <1>2 DEF QueueGateJob, Put
    <2> QED
      BY <2>1
  <1>3. CASE \E k, b : Upload(k, b)
    <2>1. /\ DOMAIN jobs' = DOMAIN jobs /\ DOMAIN receipts \subseteq DOMAIN receipts'
          /\ UNCHANGED <<reclaimed, used>>
      BY <1>3 DEF Upload, store_gate_result, Put
    <2> QED
      BY <2>1
  <1>4. CASE \E k : DeleteGateJob(k)
    <2>1. PICK k : DeleteGateJob(k)
      BY <1>4
    <2>2. /\ DOMAIN jobs' = DOMAIN jobs \ {k} /\ DOMAIN receipts' = DOMAIN receipts \ {k}
          /\ UNCHANGED <<reclaimed, used>>
      BY <2>1, DropFacts DEF DeleteGateJob
    <2> QED
      BY <2>2
  <1>5. CASE \E k, s : PatchGateJob(k, s)
    <2>1. DOMAIN jobs' = DOMAIN jobs /\ UNCHANGED <<receipts, reclaimed, used>>
      BY <1>5 DEF PatchGateJob
    <2> QED
      BY <2>1
  <1>6. CASE UNCHANGED <<jobs, receipts, reclaimed, used>>
    BY <1>6
  <1> QED
    BY <1>1, <1>2, <1>3, <1>4, <1>5, <1>6
    DEF GateNext, gateVars, EditTestCase, DeleteTestCase, UploadAgain, Triage, delete_evidence, delete_finding

\* The replacement of the snapshot at a second claim is the only cause of coverage that is
\* not of what ran: in any run in which ClaimGateJob keeps the snapshot of a job that stored
\* a result, the run behind current coverage ran the case's present definition.
THEOREM CoverageOfFrozenSnapshots == GateSpec /\ SnapshotsFrozen => []CoverageIsOfWhatRan
  <1> DEFINE Frozen == \A j \in DOMAIN receipts :
                           j \in DOMAIN jobs' => jobs'[j].snapshot = jobs[j].snapshot
  <1>1. GateInit => ReportsFit
    <2> SUFFICES ASSUME GateInit PROVE ReportsFit
      OBVIOUS
    <2>1. DOMAIN receipts = {} /\ reclaimed = {}
      BY DEF GateInit
    <2> QED
      BY <2>1 DEF ReportsFit
  <1>2. ASSUME GateInv, GateInv', [GateNext]_gateVars, [Frozen]_gateVars, ReportsFit
        PROVE  ReportsFit'
    <2>1. \A j \in reclaimed' : j \in used' /\ (j \in DOMAIN jobs' => j \in DOMAIN receipts')
      BY <1>2, ReclaimedStored DEF ReportsFit
    <2> SUFFICES ASSUME NEW j \in DOMAIN receipts'
                 PROVE  Kept(jobs'[j].assessment[1], receipts'[j].payload, jobs'[j].snapshot)
      BY <2>1 DEF ReportsFit, Kept
    <2>2. CASE j \in DOMAIN receipts
      <3>1. j \in DOMAIN jobs'
        BY <1>2 DEF GateInv, Counted
      <3>2. jobs'[j].assessment = jobs[j].assessment /\ receipts'[j] = receipts[j]
        BY <1>2, <2>2, <3>1, ResultsStay
      <3>3. jobs'[j].snapshot = jobs[j].snapshot
        BY <1>2, <2>2, <3>1 DEF gateVars
      <3> QED
        BY <1>2, <2>2, <3>2, <3>3 DEF ReportsFit
    <2>3. CASE j \notin DOMAIN receipts
      <3>1. PICK k, b : Upload(k, b)
        <4>1. ASSUME NEW k, DeleteGateJob(k) PROVE FALSE
          BY <2>3, <4>1, DropFacts DEF DeleteGateJob
        <4> QED
          BY <1>2, <2>3, <4>1
          DEF GateNext, gateVars, EditTestCase, DeleteTestCase, QueueGateJob, ClaimGateJob,
              PatchGateJob, UploadAgain, Triage, delete_evidence, delete_finding
      <3>2. /\ DOMAIN receipts' = DOMAIN receipts \cup {k} /\ k \in DOMAIN jobs
            /\ reclaimed' = reclaimed
        BY <3>1 DEF Upload, store_gate_result, Put
      <3>3. j \notin reclaimed'
        BY <1>2, <2>3, <3>2 DEF ReportsFit
      <3> QED
        BY <1>2, <3>3 DEF GateInv, Reported
    <2> QED
      BY <2>2, <2>3
  <1>3. GateInv /\ ReportsFit => CoverageIsOfWhatRan
    <2> SUFFICES ASSUME GateInv, ReportsFit, NEW j \in Runs(Db), NEW c \in DOMAIN cases,
                        is_current_for(Db, j, c)
                 PROVE  receipts[j].payload.case_hash = <<cases[c]>>
      BY DEF CoverageIsOfWhatRan
    <2>1. j \in DOMAIN receipts
      BY RunsAreReceipts
    <2>2. jobs[j].assessment[1].case_snapshot_verified /\ jobs[j].snapshot = <<cases[c]>>
      BY DbFacts DEF is_current_for, Verified
    <2> QED
      BY <2>1, <2>2 DEF ReportsFit, Kept
  <1>4. GateInv /\ GateInv' /\ [GateNext]_gateVars /\ [Frozen]_gateVars /\ ReportsFit => ReportsFit'
    BY <1>2
  <1> HIDE DEF Frozen
  <1>5. SnapshotsFrozen <=> [][Frozen]_gateVars
    BY DEF SnapshotsFrozen, Frozen
  <1> QED
    BY <1>1, <1>3, <1>4, <1>5, GateInvariant, PTL DEF GateSpec

---------------------------------------------------------------------------------
(* Results implement ResultStore. *)

\* The mapped state of ResultStore.
StoredOf == [j \in Job |-> IF j \in DOMAIN receipts THEN <<receipts[j].payload>> ELSE <<>>]
EvidenceKept == [j \in Job |-> {e \in evidence : e.job = j}]
ClosedOf == DOMAIN receipts \cup (used \ DOMAIN jobs)

\* A first upload stores the canonical payload and its evidence, and nothing for other jobs.
LEMMA UploadStores ==
    ASSUME GateInv, NEW j \in Job, NEW b \in Body, Upload(j, b)
    PROVE  Results!Store(j)
  <1>1. PICK report, verified, created :
            /\ j \in DOMAIN jobs /\ j \notin DOMAIN receipts
            /\ DOMAIN jobs' = DOMAIN jobs /\ used' = used
            /\ evidence' = evidence \cup EvidenceOf(j, b, report, verified)
            /\ receipts' = Put(receipts, j, [payload |-> Canonical(b),
                                             scan_items_created |-> b.findings,
                                             evidence_created |-> created])
    BY DEF Upload, store_gate_result
  <1>2. /\ DOMAIN receipts' = DOMAIN receipts \cup {j} /\ receipts'[j].payload = Canonical(b)
        /\ \A x \in DOMAIN receipts : receipts'[x] = receipts[x]
    BY <1>1 DEF Put
  <1>3. \A e \in EvidenceOf(j, b, report, verified) : e.job = j
    BY EvidenceFacts
  <1>4. StoredOf' = [StoredOf EXCEPT ![j] = <<Canonical(b)>>]
    BY <1>2 DEF StoredOf
  <1>5. EvidenceKept' = [EvidenceKept EXCEPT ![j] = EvidenceKept'[j]]
    <2>1. \A k \in Job \ {j} : EvidenceKept'[k] = EvidenceKept[k]
      BY <1>1, <1>3 DEF EvidenceKept
    <2>2. /\ EvidenceKept = [k \in Job |-> EvidenceKept[k]]
          /\ EvidenceKept' = [k \in Job |-> EvidenceKept'[k]]
      BY DEF EvidenceKept
    <2> HIDE DEF EvidenceKept
    <2> QED
      BY <2>1, <2>2
  <1>6. ClosedOf' = ClosedOf \cup {j} /\ j \notin ClosedOf
    BY <1>1, <1>2 DEF ClosedOf
  <1> QED
    BY <1>4, <1>5, <1>6 DEF Results!Store, StoredOf, EvidenceKept, ClosedOf

\* Deleting a job discards its result and its evidence, and the job cannot come back.
LEMMA DeleteDiscards ==
    ASSUME GateInv, NEW j \in Job, DeleteGateJob(j)
    PROVE  Results!Discard(j)
  <1>1. /\ j \in DOMAIN jobs /\ j \in used /\ used' = used
        /\ jobs' = Drop(jobs, j) /\ receipts' = Drop(receipts, j)
        /\ evidence' = {e \in evidence : e.job # j}
    BY DEF DeleteGateJob, GateInv, Shaped
  <1>2. /\ DOMAIN jobs' = DOMAIN jobs \ {j} /\ DOMAIN receipts' = DOMAIN receipts \ {j}
        /\ \A x \in DOMAIN receipts \ {j} : receipts'[x] = receipts[x]
    BY <1>1, DropFacts
  <1>3. StoredOf' = [StoredOf EXCEPT ![j] = <<>>]
    BY <1>2 DEF StoredOf
  <1>4. EvidenceKept' = [EvidenceKept EXCEPT ![j] = {}]
    <2>1. \A k \in Job : EvidenceKept'[k] = IF k = j THEN {} ELSE EvidenceKept[k]
      BY <1>1 DEF EvidenceKept
    <2>2. /\ EvidenceKept = [k \in Job |-> EvidenceKept[k]]
          /\ EvidenceKept' = [k \in Job |-> EvidenceKept'[k]]
      BY DEF EvidenceKept
    <2> HIDE DEF EvidenceKept
    <2> QED
      BY <2>1, <2>2
  <1>5. ClosedOf' = ClosedOf \cup {j}
    BY <1>1, <1>2 DEF ClosedOf
  <1> QED
    BY <1>3, <1>4, <1>5 DEF Results!Discard, StoredOf, EvidenceKept, ClosedOf

\* Deleting evidence only prunes the store.
LEMMA RemovePrunes ==
    ASSUME NEW gone, evidence' = evidence \ gone, UNCHANGED <<jobs, receipts, used>>
    PROVE  Results!Prune
  <1>1. StoredOf' = StoredOf /\ ClosedOf' = ClosedOf
    BY DEF StoredOf, ClosedOf
  <1>2. EvidenceKept' = [k \in Job |-> EvidenceKept[k] \intersect EvidenceKept'[k]]
    <2>1. \A k \in Job : EvidenceKept'[k] = EvidenceKept[k] \intersect EvidenceKept'[k]
      BY DEF EvidenceKept
    <2>2. EvidenceKept' = [k \in Job |-> EvidenceKept'[k]]
      BY DEF EvidenceKept
    <2> HIDE DEF EvidenceKept
    <2> QED
      BY <2>1, <2>2
  <1> QED
    BY <1>1, <1>2 DEF Results!Prune, StoredOf, EvidenceKept, ClosedOf

\* Every other handler leaves the store alone.
LEMMA GateStoreStep ==
    ASSUME GateInv, [GateNext]_gateVars
    PROVE  [Results!Next]_(Results!storeVars)
  <1>1. ASSUME NEW j \in Job, NEW b \in Body, Upload(j, b) PROVE Results!Next
    BY <1>1, UploadStores DEF Results!Next
  <1>2. ASSUME NEW j \in Job, DeleteGateJob(j) PROVE Results!Next
    BY <1>2, DeleteDiscards DEF Results!Next
  <1>3. ASSUME UNCHANGED <<receipts, evidence>>, used' \ DOMAIN jobs' = used \ DOMAIN jobs
        PROVE  UNCHANGED Results!storeVars
    <2>1. StoredOf' = StoredOf /\ EvidenceKept' = EvidenceKept /\ ClosedOf' = ClosedOf
      BY <1>3 DEF StoredOf, EvidenceKept, ClosedOf
    <2> QED
      BY <2>1 DEF Results!storeVars, StoredOf, EvidenceKept, ClosedOf
  <1>4. ASSUME NEW j \in Job, NEW c, QueueGateJob(j, c) PROVE UNCHANGED Results!storeVars
    <2>1. /\ j \notin used /\ used' = used \cup {j} /\ DOMAIN jobs' = DOMAIN jobs \cup {j}
          /\ UNCHANGED <<receipts, evidence>>
      BY <1>4 DEF QueueGateJob, Put
    <2>2. used' \ DOMAIN jobs' = used \ DOMAIN jobs
      BY <2>1
    <2> QED
      BY <1>3, <2>1, <2>2
  <1>5. ASSUME NEW j \in Job, ClaimGateJob(j) \/ \E s \in {"pending", "done", "failed"} : PatchGateJob(j, s)
        PROVE  UNCHANGED Results!storeVars
    <2>1. DOMAIN jobs' = DOMAIN jobs /\ UNCHANGED <<receipts, evidence, used>>
      BY <1>5 DEF ClaimGateJob, PatchGateJob
    <2> QED
      BY <1>3, <2>1
  <1>6. CASE UNCHANGED <<jobs, receipts, evidence, used>>
    BY <1>3, <1>6
  <1>7. ASSUME NEW gone, evidence' = evidence \ gone, UNCHANGED <<jobs, receipts, used>>
        PROVE  Results!Next
    BY <1>7, RemovePrunes DEF Results!Next
  <1>8. CASE \/ \E e \in evidence : delete_evidence(e)
             \/ \E linked \in SUBSET evidence : delete_finding(linked)
    BY <1>7, <1>8 DEF delete_evidence, delete_finding
  <1> QED
    BY <1>1, <1>2, <1>4, <1>5, <1>6, <1>8
    DEF GateNext, gateVars, EditTestCase, DeleteTestCase, UploadAgain, Triage

\* Refinement: for every set of jobs and uploads, results are stored once and with their evidence,
\* are not rewritten by retries, later uploads or further claims, and are only discarded with
\* their job; evidence that was deleted never comes back (jobs.py, upload_job_result,
\* store_gate_result and delete_job; evidence.py, delete_evidence; findings.py, delete_finding).
THEOREM GateStoreRefinement == GateSpec => ImplementsResultStore
  <1>1. GateInit => Results!Init
    <2> SUFFICES ASSUME GateInit PROVE Results!Init
      OBVIOUS
    <2>1. DOMAIN receipts = {} /\ used = {} /\ evidence = {}
      BY DEF GateInit
    <2>2. StoredOf = [j \in Job |-> <<>>] /\ EvidenceKept = [j \in Job |-> {}] /\ ClosedOf = {}
      BY <2>1 DEF StoredOf, EvidenceKept, ClosedOf
    <2> QED
      BY <2>2 DEF Results!Init, StoredOf, EvidenceKept, ClosedOf
  <1>2. GateInv /\ [GateNext]_gateVars => [Results!Next]_(Results!storeVars)
    BY GateStoreStep
  <1> QED
    BY <1>1, <1>2, GateInvariant, PTL DEF GateSpec, ImplementsResultStore, Results!Spec
===============================================================================
