------------------------------- MODULE Assessment -------------------------------
(* What a Gate upload is taken to show (assessments.py, assessment_evidence.py):  *)
(* the reported executions, preflights and semantic rows against the spec frozen  *)
(* at claim.  The code rewrites a list of items in passes, each overriding the    *)
(* last; each pass is an operator from items to items, in the code's order.       *)
(*                                                                                *)
(* A spec is [identities, expected, sends, deny_status, deny_when,                *)
(* unauthorized_is_denial, assertions, oracle, preflight]: expected maps an       *)
(* identity to the sequence of decisions declared for it, sends is the set that   *)
(* carries credentials, oracle is <<>> or the write verifier, preflight maps an   *)
(* identity (or the verifier's reader) to its expected status.  Code 0 is a       *)
(* status that is missing or out of range.                                        *)
EXTENDS Integers, Sequences, FiniteSets

\* Where an identity is reported, and its row when it is reported once.
RowsOf(rows, id) == {i \in DOMAIN rows : rows[i].identity_id = id}
RowOf(rows, id) == rows[CHOOSE i \in RowsOf(rows, id) : TRUE]
ReportedOnce(rows, id) == Cardinality(RowsOf(rows, id)) = 1

\* How many rows are about nobody in ids.
Unexpected(rows, ids) == Cardinality({i \in DOMAIN rows : rows[i].identity_id \notin ids})

\* A job that was never claimed has no spec.
NoSpec == [identities |-> {}, preflight |-> <<>>, oracle |-> <<>>]

Success(code) == 200 <= code /\ code < 300
Update(item, state, reason) == [item EXCEPT !.state = state, !.reason = reason]

---------------------------------------------------------------------------------
(* Preflight. *)

PreflightOf(config, rows, id, verified) ==
    IF ~verified THEN "inconclusive"
    ELSE IF RowsOf(rows, id) = {} THEN "missing"
    ELSE IF ~ReportedOnce(rows, id) THEN "inconclusive"
    ELSE IF RowOf(rows, id).status = "passed" /\ RowOf(rows, id).status_code = config THEN "passed"
    ELSE IF RowOf(rows, id).status = "failed" THEN "failed"
    ELSE "inconclusive"

assess_preflight(spec, rows, verified) ==
    LET declared == DOMAIN spec.preflight
        result == [i \in declared |-> PreflightOf(spec.preflight[i], rows, i, verified)]
        unexpected == Unexpected(rows, declared)
    IN  [identities |-> result,
         unexpected |-> unexpected,
         status |-> IF unexpected > 0 THEN "inconclusive"
                    ELSE IF declared = {} THEN "not_configured"
                    ELSE IF \A i \in declared : result[i] = "passed" THEN "passed"
                    ELSE IF \E i \in declared : result[i] = "failed" THEN "failed"
                    ELSE "inconclusive"]

---------------------------------------------------------------------------------
(* First pass: the execution rows. *)

\* One declared decision, or none that can be relied on.
DecisionFor(spec, id) ==
    IF Len(spec.expected[id]) = 1 THEN spec.expected[id][1] ELSE "unknown"

ReportsAllow(row) == Success(row.status_code) /\ row.observed_outcome = "allow"

ReportsDeny(spec, row) ==
    /\ row.status_code # 0
    /\ row.observed_outcome = "deny"
    /\ \/ row.status_code \in {401, 403} \cup spec.deny_status
       \/ Success(row.status_code) /\ spec.deny_when

FirstReason(spec, decision, executions, id) ==
    LET row == RowOf(executions, id)
    IN  IF decision \in {"skip", "unknown"} THEN <<"skipped", "no_reviewed_expectation">>
        ELSE IF RowsOf(executions, id) = {} THEN <<"missing", "execution_missing">>
        ELSE IF ~ReportedOnce(executions, id) THEN <<"inconclusive", "duplicate_execution">>
        ELSE IF row.error THEN <<"inconclusive", "execution_error">>
        ELSE IF ~ReportsAllow(row) /\ ~ReportsDeny(spec, row)
             THEN <<"inconclusive", "ambiguous_response">>
        ELSE IF decision = "allow" /\ ~ReportsAllow(row)
             THEN <<"inconclusive", "legitimate_baseline_denied">>
        ELSE <<"evaluated", "reported_allow_or_deny">>

FirstPass(spec, executions) ==
    [id \in spec.identities |->
        LET decision == DecisionFor(spec, id)
            verdict == FirstReason(spec, decision, executions, id)
        IN  [expected_decision |-> decision,
             observed_outcome |-> IF ReportedOnce(executions, id)
                                  THEN RowOf(executions, id).observed_outcome ELSE "unknown",
             state |-> verdict[1],
             reason |-> verdict[2],
             reported_decision |-> "none"]]

---------------------------------------------------------------------------------
(* Second pass: the runner's semantic rows, bound to the spec. *)

EnumValue(v, allowed, fallback) == IF v \in allowed THEN v ELSE fallback

\* Anything the contract does not name is dropped before it is read.
safe_semantic_row(r) ==
    [r EXCEPT !.expected_access = EnumValue(@, {"allow", "deny", "skip"}, "unknown"),
              !.decision = EnumValue(@, {"allowed", "denied", "inconclusive", "skipped"},
                                     "inconclusive"),
              !.source = EnumValue(@, {"none", "http_status", "response_assertion",
                                       "write_verification"}, "none")]

Protected(spec, id) ==
    \/ Len(spec.expected[id]) = 1 /\ spec.assertions[id] # <<>>
    \/ spec.oracle # <<>>

\* The row names no execution, or one of this identity's.
IndexAgrees(row, executions, id) ==
    row.execution_index # 0 =>
        /\ row.execution_index \in DOMAIN executions
        /\ executions[row.execution_index].identity_id = id

\* Mutant of AssertionsHold: the matched rules' status codes are not compared.
AssertionsMatched(spec, id, row, decision, actual) ==
    LET rules == IF Len(spec.expected[id]) = 1 THEN spec.assertions[id] ELSE <<>>
    IN  /\ ~actual.error
        /\ actual.status_code # 0
        /\ row.matched_assertions # {}
        /\ row.reason = "assertion_matched"
        /\ \A i \in row.matched_assertions : i \in DOMAIN rules /\ rules[i].decision = decision

AssertionsHold(spec, id, row, decision, actual) ==
    LET rules == IF Len(spec.expected[id]) = 1 THEN spec.assertions[id] ELSE <<>>
    IN  /\ ~actual.error
        /\ actual.status_code # 0
        /\ row.matched_assertions # {}
        /\ row.reason = "assertion_matched"
        /\ \A i \in row.matched_assertions :
               /\ i \in DOMAIN rules
               /\ rules[i].decision = decision
               /\ rules[i].status_codes = {} \/ actual.status_code \in rules[i].status_codes

\* The verifier read the object twice before and once after the write, in the
\* declared environment, through the declared reader.
WriteVerified(spec, row, decision, actual) ==
    /\ spec.oracle # <<>>
    /\ row.verification # <<>>
    /\ LET oracle == spec.oracle[1]
           seen == row.verification[1]
       IN  /\ seen.reader_identity_id = oracle.reader
           /\ seen.strategy = oracle.strategy
           /\ seen.environment = oracle.environment
           /\ seen.environment # "unknown"
           /\ Len(seen.before_statuses) = 2
           /\ \A i \in 1..2 : IF oracle.strategy = "created"
                                THEN seen.before_statuses[i] = 404
                                ELSE Success(seen.before_statuses[i])
           /\ \/ Success(seen.after_status)
              \/ seen.after_status \in {404} \cup oracle.after_status
           /\ row.reason = IF decision = "allow" THEN "state_changed" ELSE "state_unchanged"
           /\ oracle.reset => Success(seen.reset_status) /\ seen.reset_status # 202
           /\ decision = "deny" => ~actual.error /\ actual.status_code \notin {0, 202}

RowValid(spec, id, item, row, decision, actual) ==
    \/ row.source = "response_assertion" /\ AssertionsHold(spec, id, row, decision, actual)
    \/ row.source = "write_verification" /\ WriteVerified(spec, row, decision, actual)
    \/ /\ row.source = "http_status"
       /\ ~Protected(spec, id)
       /\ item.state = "evaluated"
       /\ item.observed_outcome = decision

\* One semantic row agreeing with the item's expectation.
ApplyRow(spec, id, item, row, executions, verified) ==
    LET it == [item EXCEPT !.reported_decision = row.decision]
        actual == RowOf(executions, id)
        decision == IF row.decision = "allowed" THEN "allow" ELSE "deny"
    IN  IF it.state = "skipped" THEN it
        ELSE IF ~verified THEN Update(it, "inconclusive", "case_snapshot_unverified")
        ELSE IF row.decision \notin {"allowed", "denied"}
             THEN Update(it, "inconclusive", row.reason)
        ELSE IF \/ ~ReportedOnce(executions, id)
                \/ ~IndexAgrees(row, executions, id)
                \/ ~RowValid(spec, id, it, row, decision, actual)
             THEN Update(it, "inconclusive", "semantic_assessment_inconsistent")
        ELSE IF it.expected_decision = "allow" /\ decision # "allow"
             THEN Update(it, "inconclusive", "legitimate_baseline_denied")
        ELSE Update(it, "evaluated", "reported_" \o row.source)

\* Mutant of apply_semantics: an ambiguous set of rows is ignored.
ApplyUnambiguous(spec, items, executions, semantic, verified) ==
    [id \in DOMAIN items |->
        IF ~ReportedOnce(semantic, id) THEN items[id]
        ELSE ApplyRow(spec, id, items[id], RowOf(semantic, id), executions, verified)]

apply_semantics(spec, items, executions, semantic, verified) ==
    [id \in DOMAIN items |->
        LET row == RowOf(semantic, id)
            item == items[id]
        IN  IF RowsOf(semantic, id) = {}
            THEN IF Protected(spec, id) /\ item.state # "skipped"
                 THEN Update(item, "inconclusive", "semantic_assessment_missing")
                 ELSE item
            ELSE IF ~ReportedOnce(semantic, id) \/ row.expected_access # item.expected_decision
                 THEN Update(item, "inconclusive", "semantic_assessment_inconsistent")
            ELSE ApplyRow(spec, id, item, row, executions, verified)]

---------------------------------------------------------------------------------
(* The remaining passes. *)

\* A credentialed caller's lone 401 says its credential was refused.
CredentialRejected(spec, id, item, executions) ==
    /\ item.expected_decision = "deny"
    /\ ReportedOnce(executions, id) /\ RowOf(executions, id).status_code = 401
    /\ id \in spec.sends
    /\ ~spec.unauthorized_is_denial
    /\ item.reported_decision # "allowed"

CredentialPass(spec, items, executions) ==
    [id \in DOMAIN items |->
        IF CredentialRejected(spec, id, items[id], executions)
        THEN Update(items[id], "inconclusive", "credential_rejected")
        ELSE items[id]]

DemoteWhere(items, states, reason) ==
    [id \in DOMAIN items |->
        IF items[id].state \in states
        THEN Update(items[id], "inconclusive", reason)
        ELSE items[id]]

UnverifiedPass(items, verified) ==
    IF verified THEN items ELSE DemoteWhere(items, {"evaluated"}, "case_snapshot_unverified")

PreflightPass(items, session) ==
    IF session.status \in {"passed", "not_configured"} THEN items
    ELSE DemoteWhere(items, {"evaluated", "inconclusive", "missing"},
                     "identity_preflight_not_established")

BaselineValid(items, verified) ==
    verified /\ \E id \in DOMAIN items :
                    items[id].expected_decision = "allow" /\ items[id].state = "evaluated"

BaselinePass(items, verified) ==
    IF BaselineValid(items, verified) THEN items
    ELSE DemoteWhere(items, {"evaluated"}, "legitimate_baseline_missing")

\* Mutant of Verdict: executions of an undeclared identity do not count against it.
VerdictOfDeclared(items, unexpected) ==
    LET evaluated == {id \in DOMAIN items : items[id].state = "evaluated"}
    IN  IF DOMAIN items # {} /\ evaluated = DOMAIN items THEN "conclusive"
        ELSE IF evaluated # {} THEN "partial" ELSE "inconclusive"

Verdict(items, unexpected) ==
    LET evaluated == {id \in DOMAIN items : items[id].state = "evaluated"}
    IN  IF DOMAIN items # {} /\ evaluated = DOMAIN items /\ unexpected = 0 THEN "conclusive"
        ELSE IF evaluated # {} THEN "partial" ELSE "inconclusive"

\* assess(): the report stored with the job.
assess(spec, executions, verified, preflight, semantic) ==
    LET session == assess_preflight(spec, preflight, verified)
        safe == [i \in DOMAIN semantic |-> safe_semantic_row(semantic[i])]
        first == FirstPass(spec, executions)
        second == apply_semantics(spec, first, executions, safe, verified)
        third == UnverifiedPass(CredentialPass(spec, second, executions), verified)
        fourth == PreflightPass(third, session)
        items == BaselinePass(fourth, verified)
        unexpected == Unexpected(executions, spec.identities)
    IN  [status |-> Verdict(items, unexpected),
         identities |-> items,
         unexpected |-> unexpected,
         baseline_valid |-> BaselineValid(fourth, verified),
         case_snapshot_verified |-> verified /\ spec # NoSpec,
         preflight |-> session]
===============================================================================
