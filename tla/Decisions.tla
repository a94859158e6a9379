-------------------------------- MODULE Decisions -------------------------------
(* The pure decisions, asked one question at a time: a policy check, a Gate       *)
(* assessment, a boundary draft.  A behaviour is one question and its answer, and *)
(* for an assessment a second upload that repeats one of its rows.                *)
EXTENDS Policy, Assessment, Boundaries

CONSTANTS
    Engagement,     \* what enforcement.py reads of an engagement
    TargetList,     \* the targets a job resolves to
    Instant,        \* the times at which somebody asks
    AssessSpec,     \* specs frozen at claim
    ExecutionList, PreflightList, SemanticList,    \* the rows of an upload
    CaseTable,      \* the cases of an engagement: case number -> spec
    Operation       \* the inventory's operations

VARIABLES question, answer

decisionVars == <<question, answer>>

NoAnswer == [topic |-> "none"]

\* A list of rows.
IsList(s) == s \in Seq(ToSet(s))

\* A place in the scope's terms: a rule's or a target's host and URL parts.
IsPlace(x) == x.ip \in BOOLEAN /\ x.labels \in Seq(STRING) /\ x.path \in Seq(STRING)

\* Windows and the present are instants; an address is never written with a wildcard.
ASSUME PolicyAssumption ==
    /\ Instant \subseteq Int
    /\ \A e \in Engagement :
           /\ e.stop_work \in BOOLEAN
           /\ IsList(e.authorizations)
           /\ \A i \in DOMAIN e.authorizations : /\ e.authorizations[i].window_start \in Int
                                                 /\ e.authorizations[i].window_end \in Int
           /\ \A r \in e.scope_rules : /\ IsPlace(r) /\ r.excluded \in BOOLEAN
                                       /\ r.ip => r.wild = "none"
    /\ \A ts \in TargetList : IsList(ts) /\ \A i \in DOMAIN ts : IsPlace(ts[i])

SemanticFields == {"identity_id", "expected_access", "decision", "source", "reason",
                   "matched_assertions", "execution_index", "verification"}

\* Uploads are lists of rows, and a spec's decisions are those a case can declare.
ASSUME AssessAssumption ==
    /\ \A l \in ExecutionList \cup PreflightList \cup SemanticList : IsList(l)
    /\ \A l \in SemanticList : \A i \in DOMAIN l : DOMAIN l[i] = SemanticFields
    /\ \A s \in AssessSpec : \A id \in s.identities :
           s.expected[id] \in Seq({"allow", "deny", "skip", "unknown"})

\* An engagement has finitely many cases.
ASSUME DraftAssumption ==
    \A t \in CaseTable :
        /\ IsFiniteSet(DOMAIN t)
        /\ \A c \in DOMAIN t : \A id \in DOMAIN t[c].who : t[c].who[id].anonymous \in BOOLEAN

---------------------------------------------------------------------------------
(* Behaviours. *)

DraftDb(q) == [cases |-> q.cases, jobs |-> <<>>, items |-> {}, exchanges |-> {}]

Checked(q) == check(q.engagement, "scan", q.targets, q.now)
Assessed(q) == assess(q.spec, q.executions, q.verified, q.preflight, q.semantic)
DraftsFor(q) == [k \in CLASSES |-> draft_for_boundary(DraftDb(q), q.endpoint, k)]

DecisionsInit ==
    /\ \/ \E e \in Engagement, ts \in TargetList, now \in Instant :
              question = [topic |-> "policy", engagement |-> e, targets |-> ts, now |-> now]
       \/ \E s \in AssessSpec, x \in ExecutionList, v \in BOOLEAN, p \in PreflightList,
             m \in SemanticList :
              question = [topic |-> "assess", spec |-> s, executions |-> x, verified |-> v,
                          preflight |-> p, semantic |-> m]
       \/ \E t \in CaseTable, e \in Operation :
              question = [topic |-> "draft", cases |-> t, endpoint |-> e]
    /\ answer = NoAnswer

AnswerPolicy ==
    /\ answer = NoAnswer /\ question.topic = "policy"
    /\ answer' = Checked(question)
    /\ UNCHANGED question

AnswerAssessment ==
    /\ answer = NoAnswer /\ question.topic = "assess"
    /\ answer' = Assessed(question)
    /\ UNCHANGED question

\* The same upload with one of its rows sent twice.
RepeatRow ==
    /\ answer # NoAnswer /\ question.topic = "assess"
    /\ \E field \in {"executions", "semantic", "preflight"} :
           /\ question[field] # <<>>
           /\ question' = [question EXCEPT ![field] = Append(@, Head(@)), !.topic = "repeat"]
    /\ answer' = Assessed(question')

AnswerDraft ==
    /\ answer = NoAnswer /\ question.topic = "draft"
    /\ answer' = DraftsFor(question)
    /\ UNCHANGED question

DecisionsNext == AnswerPolicy \/ AnswerAssessment \/ RepeatRow \/ AnswerDraft

DecisionsSpec == DecisionsInit /\ [][DecisionsNext]_decisionVars
---------------------------------------------------------------------------------
(* Policy. *)

\* One sequence starts with another, spelled out.
StartsWith(long, short) == \A i \in DOMAIN short : i \in DOMAIN long /\ long[i] = short[i]

\* The path and the listener of a URL, spelled out; what the rule leaves open is any.
SameUrlSpace(r, t) ==
    /\ r.scheme \in {"none", t.scheme}
    /\ scheme_and_port(r).port \in {0, scheme_and_port(t).port}
    /\ StartsWith(t.path, r.path)

\* Every name and address an exclusion carves out.  A URL whose host cannot be classified
\* names no host and speaks of every one.
CarvedOut(r, t) ==
    IF r.kind = "cidr" THEN t.ip /\ t.labels \in r.net
    ELSE IF r.kind = "url" THEN /\ HostKind(r) # "none" => r.wild = "none" /\ t.labels = r.labels
                                /\ SameUrlSpace(r, t)
    ELSE IF r.ip THEN t.ip /\ t.labels = r.labels
    ELSE /\ r.labels # <<>> /\ ~t.ip
         /\ StartsWith(t.labels, r.labels)
         /\ r.wild = "*." => t.labels # r.labels

\* Exclusions beat inclusions: whatever else the scope holds, a check that comes back
\* clear names no target inside a carve-out, where excluding a name takes its whole
\* subtree with it (policy.py, evaluate and _excludes_host).
CarveOutsHold ==
    question.topic = "policy" /\ answer # NoAnswer /\ answer.outcome = "clear" =>
        \A i \in DOMAIN question.targets :
            ~\E r \in question.engagement.scope_rules :
                r.excluded /\ CarvedOut(r, question.targets[i])

\* Authorization is stated, never inferred: every target of a clear job is exactly a
\* stated name or address, below a stated wildcard, or below a stated URL on the same
\* listener; a bare name lends nothing to its subdomains and a path nothing to a
\* sibling (policy.py, _host_matches, _path_within).
AllowedIsStated ==
    question.topic = "policy" /\ answer # NoAnswer /\ answer.outcome = "clear" =>
        \A i \in DOMAIN question.targets :
            LET t == question.targets[i]
            IN  \E r \in question.engagement.scope_rules :
                    /\ ~r.excluded
                    /\ CarvedOut(r, t)
                    /\ r.kind = "domain" /\ r.wild = "none" => t.labels = r.labels

\* Only the newest authorization grants: a clear check happens while it is active and
\* inside its inclusive window, whatever older records would allow, and never while
\* stop-work is engaged or the engagement is not active (enforcement._authorization,
\* policy.evaluate_engagement).  Only stop-work refuses; the rest warns.
NewestAuthorityGoverns ==
    question.topic = "policy" /\ answer # NoAnswer =>
        LET e == question.engagement
            rows == e.authorizations
            newest == rows[Len(rows)]
            after == newest.window_start = 0 \/ newest.window_start <= question.now
            before == newest.window_end = 0 \/ question.now <= newest.window_end
        IN  /\ (answer.outcome = "raised") = e.stop_work
            /\ answer.outcome = "clear" =>
                   /\ ~e.stop_work /\ e.engagement_status = "active"
                   /\ IF rows = <<>> THEN e.engagement_type = "bug_bounty"
                      ELSE newest.status = "active" /\ after /\ before

\* A check that comes back clear is justified: nothing carved out, every target stated, and the
\* newest authorization in force (enforcement.check).
ClearIsJustified == CarveOutsHold /\ AllowedIsStated /\ NewestAuthorityGoverns

---------------------------------------------------------------------------------
(* Assessments. *)

Answered == question.topic \in {"assess", "repeat"} /\ answer # NoAnswer

Times(id) == Cardinality({i \in DOMAIN question.executions :
                              question.executions[i].identity_id = id})

\* A conclusive report is earned: the spec was the frozen one, every identity had one
\* reviewed decision and ran exactly once, nobody else ran, no preflight was left
\* unestablished, and some caller that must be allowed was seen to be
\* (assessments.assess, over all its passes).
ConclusiveIsEarned ==
    Answered /\ answer.status = "conclusive" =>
        LET spec == question.spec
        IN  /\ question.verified
            /\ \A id \in spec.identities : /\ Times(id) = 1
                                           /\ spec.expected[id] \in {<<"allow">>, <<"deny">>}
            /\ Len(question.executions) = Cardinality(spec.identities)
            /\ \A id \in DOMAIN spec.preflight :
                   \E i \in DOMAIN question.preflight :
                       /\ question.preflight[i].identity_id = id
                       /\ question.preflight[i].status = "passed"
            /\ Len(question.preflight) = Cardinality(DOMAIN spec.preflight)
            /\ \E i \in DOMAIN question.executions :
                   LET row == question.executions[i]
                   IN  /\ spec.expected[row.identity_id] = <<"allow">>
                       /\ \/ Success(row.status_code) /\ row.observed_outcome = "allow"
                          \/ Protected(spec, row.identity_id)

\* Where a case declares assertions or a write verifier, no status code alone settles
\* an identity: an evaluated one has a single semantic row bound to a declared rule
\* whose status it satisfies, or to a double read before the write
\* (assessment_evidence.apply_semantics).
ProtectedNeedsEvidence ==
    Answered =>
        \A id \in DOMAIN answer.identities :
            LET spec == question.spec
                rows == {i \in DOMAIN question.semantic : question.semantic[i].identity_id = id}
            IN  /\ answer.identities[id].state = "evaluated"
                /\ spec.assertions[id] # <<>> \/ spec.oracle # <<>>
                => /\ Cardinality(rows) = 1
                   /\ LET row == question.semantic[CHOOSE i \in rows : TRUE]
                           code == question.executions[CHOOSE i \in DOMAIN question.executions :
                                       question.executions[i].identity_id = id].status_code
                       IN  \/ /\ row.source = "response_assertion"
                              /\ \A i \in row.matched_assertions :
                                     LET rule == spec.assertions[id][i]
                                     IN  /\ rule.status_codes = {} \/ code \in rule.status_codes
                                         /\ (rule.decision = "allow") = (row.decision = "allowed")
                           \/ /\ row.source = "write_verification"
                              /\ Len(row.verification[1].before_statuses) = 2

StatusRank(s) == IF s = "conclusive" THEN 2 ELSE IF s = "partial" THEN 1 ELSE 0

\* Reporting the same row twice never helps: an upload with a duplicated execution,
\* semantic or preflight row is never judged more complete than the one without it.
ExtraReportsNeverHelp ==
    [][question'.topic = "repeat" => StatusRank(answer'.status) <= StatusRank(answer.status)]_decisionVars

\* What an assessment concludes is backed by the upload and the frozen spec, for the report as a
\* whole and for each protected identity (assessments.assess).
VerdictIsEarned == ConclusiveIsEarned /\ ProtectedNeedsEvidence

---------------------------------------------------------------------------------
(* Boundary drafts. *)

Drafted == question.topic = "draft" /\ answer # NoAnswer

\* Declarations are never silently reconciled: what a draft says of an identity is
\* contradicted by no case of the engagement, whichever operation the case is about
\* (authorization_relationships.merge_identities).
DraftContradictsNoCase ==
    Drafted =>
        \A k \in CLASSES : \A id \in DOMAIN answer[k].declared :
        \A c \in {x \in DOMAIN question.cases : id \in DOMAIN question.cases[x].who} :
            LET said == question.cases[c].who[id]
                drafted == answer[k].declared[id]
            IN  /\ said.role \in {"none", drafted.role}
                /\ said.tenant_id \in {"none", drafted.tenant_id}
                /\ said.anonymous = drafted.anonymous

\* A draft asks the question it is drafted for: saved as it stands, the classification
\* of each caller it chose contains the drafted boundary whenever the draft names an
\* owner and leaves no tenant or hierarchy open (draft_for_boundary against classify).
DraftAsksItsBoundary ==
    Drafted =>
        \A k \in CLASSES :
            LET d == answer[k]
                settled == IF k = "higher_privilege"
                           THEN Ranked(d.role_hierarchy, d.declared[d.owner].role)
                           ELSE k = "anonymous" \/ d.object_tenant # "none"
            IN  d.owner # "none" /\ settled =>
                    \A id \in d.chosen :
                        k \in classify(d.role_hierarchy, d.declared[id], d.declared[d.owner],
                                       [tenant_id |-> d.object_tenant])

\* A draft can be reviewed as it stands: it contradicts no case and asks the boundary it is
\* drafted for (authorization_relationships.draft_for_boundary).
DraftIsSound == DraftContradictsNoCase /\ DraftAsksItsBoundary
===============================================================================
