----------------------------- MODULE FindingRecords -----------------------------
(* Findings and their append-only history (findings.py, finding_activity.py,      *)
(* finding_history.py), the evidence attached to them (evidence.py), and report    *)
(* revisions assembled from both (deliverables.py).  A finding's fields are a      *)
(* version.  An edit or an activity holds the finding's row lock to its commit and *)
(* is one step; evidence is linked and created against a finding read earlier; a   *)
(* report is assembled by three queries, each seeing what is committed by then.    *)
EXTENDS Integers, Sequences, FiniteSets

CONSTANTS
    FindingId, EvidenceId,
    Legacy,              \* findings from before history was kept
    LegacyEvidence,      \* evidence stored at the start
    RecordCall,          \* overlapping requests
    Unlinked,            \* SQL NULL
    MaxEntries,          \* bound: history entries stored
    MaxRevisions         \* bound: revisions of the report

ASSUME RecordsAssumption ==
    /\ Legacy \subseteq FindingId /\ LegacyEvidence \subseteq EvidenceId
    /\ Unlinked \notin FindingId
    /\ MaxEntries \in Nat /\ MaxRevisions \in Nat

VARIABLES
    findings,            \* finding -> version of its fields
    activities,          \* finding -> its history, entries [kind, snapshot]
    evidence,            \* evidence -> its finding or Unlinked
    spent,               \* ids used so far; none is drawn twice
    revisions,           \* the report: a sequence of [base, status, findings, history]
    recordCall           \* request -> what it holds between its steps

recordVars == <<findings, activities, evidence, spent, revisions, recordCall>>

NoRecordCall == [stage |-> "idle"]

RecordsInit ==
    /\ findings = [f \in Legacy |-> 0]
    /\ activities = [f \in Legacy |-> <<>>]
    /\ evidence \in [LegacyEvidence -> Legacy \cup {Unlinked}]
    /\ spent = Legacy \cup LegacyEvidence
    /\ revisions = <<>>
    /\ recordCall = [c \in RecordCall |-> NoRecordCall]

Stored(f, k, v) == [x \in DOMAIN f \cup {k} |-> IF x = k THEN v ELSE f[x]]
Deleted(f, keys) == [x \in DOMAIN f \ keys |-> f[x]]
Done(c) == recordCall' = [recordCall EXCEPT ![c] = NoRecordCall]

---------------------------------------------------------------------------------
(* Findings and their history. *)

record(history, kind, version) == Append(history, [kind |-> kind, snapshot |-> version])

\* Mutant of capture_baseline: history starts with whatever is recorded first.
CaptureNothing(f) == activities[f]

capture_baseline(f) ==
    IF activities[f] = <<>> THEN record(<<>>, "baseline", findings[f]) ELSE activities[f]

\* The bound MaxEntries leaves room for one more entry of f.
Room(f) ==
    Len(capture_baseline(f))
        + Cardinality({p \in (DOMAIN activities \ {f}) \X (1..MaxEntries) :
                          p[2] <= Len(activities[p[1]])}) < MaxEntries

add_finding(f) ==
    /\ f \notin spent
    /\ findings' = Stored(findings, f, 0)
    /\ activities' = Stored(activities, f, record(<<>>, "created", 0))
    /\ spent' = spent \cup {f}
    /\ UNCHANGED <<evidence, revisions, recordCall>>

update_finding(f) ==
    /\ f \in DOMAIN findings /\ Room(f)
    /\ findings' = [findings EXCEPT ![f] = @ + 1]
    /\ activities' = [activities EXCEPT ![f] = record(capture_baseline(f), "updated", findings[f] + 1)]
    /\ UNCHANGED <<evidence, spent, revisions, recordCall>>

\* A remediation note or a retest; the evidence it names must be on this finding.
add_activity(f, named) ==
    /\ f \in DOMAIN findings /\ Room(f)
    /\ \A e \in named : e \in DOMAIN evidence /\ evidence[e] = f
    /\ activities' = [activities EXCEPT ![f] = record(capture_baseline(f), "activity", findings[f])]
    /\ UNCHANGED <<findings, evidence, spent, revisions, recordCall>>

\* Mutant of delete_finding: the evidence stays behind.
DeleteFindingOnly(f) ==
    /\ f \in DOMAIN findings
    /\ findings' = Deleted(findings, {f})
    /\ activities' = Deleted(activities, {f})
    /\ UNCHANGED <<evidence, spent, revisions, recordCall>>

\* The history and the evidence go with the finding.
delete_finding(f) ==
    /\ f \in DOMAIN findings
    /\ findings' = Deleted(findings, {f})
    /\ activities' = Deleted(activities, {f})
    /\ evidence' = Deleted(evidence, {e \in DOMAIN evidence : evidence[e] = f})
    /\ UNCHANGED <<spent, revisions, recordCall>>

---------------------------------------------------------------------------------
(* Evidence. *)

\* create_evidence checks the finding without a lock ...
CheckFinding(c, f) ==
    /\ recordCall[c] = NoRecordCall
    /\ f \in DOMAIN findings \cup {Unlinked}
    /\ recordCall' = [recordCall EXCEPT ![c] = [stage |-> "create", finding |-> f]]
    /\ UNCHANGED <<findings, activities, evidence, spent, revisions>>

\* ... and its insert is a foreign-key error when the finding has gone since.
InsertEvidence(c, e) ==
    /\ recordCall[c].stage = "create" /\ e \notin spent
    /\ LET f == recordCall[c].finding
       IN  IF f \in DOMAIN findings \cup {Unlinked}
           THEN evidence' = Stored(evidence, e, f) /\ spent' = spent \cup {e}
           ELSE UNCHANGED <<evidence, spent>>
    /\ Done(c)
    /\ UNCHANGED <<findings, activities, revisions>>

\* link_evidence reads both rows; where the database keeps no row locks, another
\* request may come between this and the write.
ReadLink(c, e, f) ==
    /\ recordCall[c] = NoRecordCall
    /\ e \in DOMAIN evidence /\ f \in DOMAIN findings /\ evidence[e] = Unlinked
    /\ recordCall' = [recordCall EXCEPT ![c] = [stage |-> "link", finding |-> f, item |-> e]]
    /\ UNCHANGED <<findings, activities, evidence, spent, revisions>>

\* Mutant of UpdateLink: the update is not conditional on the link being NULL.
UpdateLinkAnyway(c) ==
    /\ recordCall[c].stage = "link"
    /\ LET e == recordCall[c].item
           f == recordCall[c].finding
       IN  evidence' = IF e \in DOMAIN evidence /\ f \in DOMAIN findings
                       THEN [evidence EXCEPT ![e] = f] ELSE evidence
    /\ Done(c)
    /\ UNCHANGED <<findings, activities, spent, revisions>>

\* UPDATE ... WHERE finding_id IS NULL; no row changed is a 409.
UpdateLink(c) ==
    /\ recordCall[c].stage = "link"
    /\ LET e == recordCall[c].item
           f == recordCall[c].finding
       IN  evidence' = IF /\ e \in DOMAIN evidence /\ evidence[e] = Unlinked
                          /\ f \in DOMAIN findings
                       THEN [evidence EXCEPT ![e] = f] ELSE evidence
    /\ Done(c)
    /\ UNCHANGED <<findings, activities, spent, revisions>>

delete_evidence(e) ==
    /\ e \in DOMAIN evidence
    /\ evidence' = Deleted(evidence, {e})
    /\ UNCHANGED <<findings, activities, spent, revisions, recordCall>>

---------------------------------------------------------------------------------
(* Report revisions. *)

\* Five in the code; the steps tell none of them apart.
ReportStatus == {"draft", "final"}
Assembling == {"findings", "evidence"}

\* The analyst opens the report and writes from its latest revision.
get_revision(c) ==
    /\ recordCall[c] = NoRecordCall
    /\ recordCall' = [recordCall EXCEPT ![c] = [stage |-> "draft", base |-> Len(revisions)]]
    /\ UNCHANGED <<findings, activities, evidence, spent, revisions>>

\* Mutant of BaseHolds: a base that is no longer the latest is accepted.
BaseExists(base) == base <= Len(revisions)

\* create_revision refuses a base that is not the latest (create_deliverable: base 0).
BaseHolds(base) == base = Len(revisions)

\* The report row is locked from here to the commit.  The finding query of _snapshot;
\* chosen is finding_ids, every one of which must exist, or all of them.
ReadFindings(c, chosen) ==
    /\ recordCall[c].stage = "draft" /\ Len(revisions) < MaxRevisions
    /\ \A d \in RecordCall : recordCall[d].stage \notin Assembling
    /\ chosen \subseteq DOMAIN findings
    /\ recordCall' = [recordCall EXCEPT ![c] =
           IF BaseHolds(recordCall[c].base)
           THEN [stage |-> "findings", base |-> recordCall[c].base,
                 findings |-> [f \in chosen |-> findings[f]]]
           ELSE NoRecordCall]
    /\ UNCHANGED <<findings, activities, evidence, spent, revisions>>

\* The evidence query; evidence of a finding that was left out is a 400.
ReadEvidence(c, chosen) ==
    /\ recordCall[c].stage = "findings"
    /\ chosen \subseteq DOMAIN evidence
    /\ recordCall' = [recordCall EXCEPT ![c] =
           IF \A e \in chosen : evidence[e] \in DOMAIN recordCall[c].findings \cup {Unlinked}
           THEN [recordCall[c] EXCEPT !.stage = "evidence"]
           ELSE NoRecordCall]
    /\ UNCHANGED <<findings, activities, evidence, spent, revisions>>

\* Entries of a finding's history that a report shows.
Shown(f) ==
    IF f \in DOMAIN activities
    THEN {i \in 1..Len(activities[f]) : activities[f][i].kind = "activity"} ELSE {}

\* Mutant of SaveRevision: the history is cut off at the version the report shows.
SaveRevisionTrimmed(c) ==
    /\ recordCall[c].stage = "evidence"
    /\ revisions' = Append(revisions,
           [base |-> recordCall[c].base, status |-> "draft",
            findings |-> recordCall[c].findings,
            history |-> [f \in DOMAIN recordCall[c].findings |->
                {i \in Shown(f) : activities[f][i].snapshot = recordCall[c].findings[f]}]])
    /\ Done(c)
    /\ UNCHANGED <<findings, activities, evidence, spent>>

\* The history query, then the insert of latest_revision + 1 and the commit.
SaveRevision(c) ==
    /\ recordCall[c].stage = "evidence"
    /\ revisions' = Append(revisions,
           [base |-> recordCall[c].base, status |-> "draft",
            findings |-> recordCall[c].findings,
            history |-> [f \in DOMAIN recordCall[c].findings |-> Shown(f)]])
    /\ Done(c)
    /\ UNCHANGED <<findings, activities, evidence, spent>>

\* An id that is unknown (404) or a report that is too large (413).
RefuseRevision(c) ==
    /\ recordCall[c].stage \in Assembling
    /\ Done(c)
    /\ UNCHANGED <<findings, activities, evidence, spent, revisions>>

update_revision_status(n, status) ==
    /\ revisions' = [revisions EXCEPT ![n].status = status]
    /\ UNCHANGED <<findings, activities, evidence, spent, recordCall>>

FindingStep ==
    \E f \in FindingId :
        \/ add_finding(f) \/ update_finding(f) \/ delete_finding(f)
        \/ \E named \in SUBSET EvidenceId : add_activity(f, named)

EvidenceStep ==
    \/ \E e \in EvidenceId : delete_evidence(e)
    \/ \E c \in RecordCall :
          \/ \E f \in FindingId \cup {Unlinked} : CheckFinding(c, f)
          \/ \E e \in EvidenceId : InsertEvidence(c, e) \/ \E f \in FindingId : ReadLink(c, e, f)
          \/ UpdateLink(c)

ReportStep ==
    \/ \E n \in DOMAIN revisions, status \in ReportStatus : update_revision_status(n, status)
    \/ \E c \in RecordCall :
          \/ get_revision(c) \/ SaveRevision(c) \/ RefuseRevision(c)
          \/ \E chosen \in SUBSET FindingId : ReadFindings(c, chosen)
          \/ \E chosen \in SUBSET EvidenceId : ReadEvidence(c, chosen)

RecordsNext == FindingStep \/ EvidenceStep \/ ReportStep

RecordsSpec == RecordsInit /\ [][RecordsNext]_recordVars

---------------------------------------------------------------------------------
(* Properties. *)

\* No evidence belongs to a finding that is gone, however the creation or the link
\* overlapped the deletion (create_evidence, link_evidence, delete_finding).
NoOrphanEvidence ==
    \A e \in DOMAIN evidence : evidence[e] \in DOMAIN findings \cup {Unlinked}

\* A finding's history opens with how it was created or with the state it had when
\* history began, has one such entry, and ends with the finding as it now stands
\* (finding_history.capture_baseline, record).
HistoryTellsFinding ==
    \A f \in DOMAIN findings :
        LET history == activities[f]
            Opening == {"created", "baseline"}
        IN  history # <<>> =>
                /\ {i \in DOMAIN history : history[i].kind \in Opening} = {1}
                /\ history[Len(history)].snapshot = findings[f]

\* Evidence never moves from one finding to another, nor off its finding, even when
\* two links overlap without row locks (the conditional update of link_evidence).
EvidenceNeverMoves ==
    [][\A e \in DOMAIN evidence \cap DOMAIN evidence' :
          evidence[e] # Unlinked => evidence'[e] = evidence[e]]_recordVars

\* No analyst's revision is written over unread work: each was written from the one
\* before it, and a saved one never changes but for its status (create_revision).
RevisionsBuildOnLatest ==
    [][/\ Len(revisions') >= Len(revisions)
       /\ \A n \in DOMAIN revisions' :
             /\ revisions'[n].base = n - 1
             /\ n <= Len(revisions) =>
                    [revisions'[n] EXCEPT !.status = revisions[n].status] = revisions[n]]_recordVars

\* Though its queries see different moments, a report never lags behind itself: it
\* shows every note and retest that preceded the version of the finding it shows
\* (_snapshot reads findings before their history).
ReportHistoryNotBehind ==
    \A n \in DOMAIN revisions : \A f \in DOMAIN revisions[n].findings \cap DOMAIN findings :
        {i \in Shown(f) : activities[f][i].snapshot < revisions[n].findings[f]}
            \subseteq revisions[n].history[f]
=================================================================================
