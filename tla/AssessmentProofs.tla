---------------------------- MODULE AssessmentProofs ----------------------------
(* What assess() returns, for every spec and every upload: each pass keeps the    *)
(* items' shape and only the semantic pass can raise one, so a report can be read *)
(* backwards, from its verdict to the rows it rests on.                           *)
EXTENDS Assessment, FiniteSetTheorems, TLAPS

IsItem(it) == DOMAIN it = {"expected_decision", "observed_outcome", "state", "reason",
                           "reported_decision"}

\* Every entry is an item.
AreItems(items) == \A id \in DOMAIN items : IsItem(items[id])

\* One pass against the next: nothing but the state and the reason changes, and no
\* item becomes evaluated.
OnlyDemotes(items, next) ==
    /\ DOMAIN next = DOMAIN items
    /\ \A id \in DOMAIN items :
           /\ IsItem(next[id])
           /\ next[id].expected_decision = items[id].expected_decision
           /\ next[id].state = "evaluated" => next[id] = items[id]

\* Update writes the state and the reason and leaves the rest (assessments.py).
LEMMA UpdateFacts ==
    ASSUME NEW it, IsItem(it), NEW s, NEW r
    PROVE  /\ IsItem(Update(it, s, r))
           /\ Update(it, s, r).state = s
           /\ Update(it, s, r).expected_decision = it.expected_decision
           /\ Update(it, s, r).observed_outcome = it.observed_outcome
           /\ Update(it, s, r).reported_decision = it.reported_decision
  BY DEF IsItem, Update

\* Demoting some states to inconclusive raises nothing.
LEMMA DemoteFacts ==
    ASSUME NEW items, AreItems(items), NEW states, NEW reason
    PROVE  /\ OnlyDemotes(items, DemoteWhere(items, states, reason))
           /\ "evaluated" \in states =>
                  \A id \in DOMAIN items : DemoteWhere(items, states, reason)[id].state # "evaluated"
  <1> DEFINE next == DemoteWhere(items, states, reason)
  <1>1. DOMAIN next = DOMAIN items
    BY DEF DemoteWhere
  <1>2. ASSUME NEW id \in DOMAIN items
        PROVE  /\ IsItem(next[id])
               /\ next[id].expected_decision = items[id].expected_decision
               /\ next[id].state = "evaluated" => next[id] = items[id]
               /\ "evaluated" \in states => next[id].state # "evaluated"
    <2> DEFINE up == Update(items[id], "inconclusive", reason)
    <2>1. next[id] = IF items[id].state \in states THEN up ELSE items[id]
      BY DEF DemoteWhere
    <2>2. IsItem(items[id])
      BY DEF AreItems
    <2>3. IsItem(up) /\ up.state = "inconclusive"
          /\ up.expected_decision = items[id].expected_decision
      BY <2>2, UpdateFacts
    <2> HIDE DEF up, next
    <2> QED
      BY <2>1, <2>2, <2>3
  <1> QED
    BY <1>1, <1>2 DEF OnlyDemotes

\* The relation between passes is transitive.
LEMMA DemotesTwice ==
    ASSUME NEW a, NEW b, NEW c, OnlyDemotes(a, b), OnlyDemotes(b, c)
    PROVE  OnlyDemotes(a, c)
  BY DEF OnlyDemotes

\* What the passes leave are items.
LEMMA DemotedAreItems ==
    ASSUME NEW a, NEW b, OnlyDemotes(a, b)
    PROVE  AreItems(b)
  BY DEF OnlyDemotes, AreItems

\* Doing nothing is a pass.
LEMMA DemotesNothing ==
    ASSUME NEW a, AreItems(a)
    PROVE  OnlyDemotes(a, a)
  BY DEF OnlyDemotes, AreItems

\* A refused credential only demotes.
LEMMA CredentialFacts ==
    ASSUME NEW spec, NEW items, AreItems(items), NEW executions
    PROVE  OnlyDemotes(items, CredentialPass(spec, items, executions))
  <1> DEFINE next == CredentialPass(spec, items, executions)
  <1>1. DOMAIN next = DOMAIN items
    BY DEF CredentialPass
  <1>2. ASSUME NEW id \in DOMAIN items
        PROVE  /\ IsItem(next[id])
               /\ next[id].expected_decision = items[id].expected_decision
               /\ next[id].state = "evaluated" => next[id] = items[id]
    <2> DEFINE up == Update(items[id], "inconclusive", "credential_rejected")
    <2>1. next[id] = up \/ next[id] = items[id]
      BY DEF CredentialPass
    <2>2. IsItem(items[id])
      BY DEF AreItems
    <2>3. IsItem(up) /\ up.state = "inconclusive"
          /\ up.expected_decision = items[id].expected_decision
      BY <2>2, UpdateFacts
    <2> HIDE DEF up, next
    <2> QED
      BY <2>1, <2>2, <2>3
  <1> QED
    BY <1>1, <1>2 DEF OnlyDemotes

---------------------------------------------------------------------------------
(* The first pass. *)

\* What an identity evaluated on its execution alone rests on (assessments.assess,
\* first loop).
StatusBacked(spec, executions, id) ==
    LET row == RowOf(executions, id)
    IN  /\ ReportedOnce(executions, id)
        /\ ~row.error
        /\ ReportsAllow(row) \/ ReportsDeny(spec, row)
        /\ DecisionFor(spec, id) = "allow" => ReportsAllow(row)

\* The reason of the first pass is a pair whose first part is the state.
LEMMA FirstReasonFacts ==
    ASSUME NEW spec, NEW executions, NEW id, NEW decision
    PROVE  LET s == FirstReason(spec, decision, executions, id)[1]
               row == RowOf(executions, id)
           IN  /\ decision \in {"skip", "unknown"} => s = "skipped"
               /\ s = "evaluated" =>
                      /\ decision \notin {"skip", "unknown"}
                      /\ ReportedOnce(executions, id)
                      /\ ~row.error
                      /\ ReportsAllow(row) \/ ReportsDeny(spec, row)
                      /\ decision = "allow" => ReportsAllow(row)
  <1> DEFINE row == RowOf(executions, id)
             A == decision \in {"skip", "unknown"}
             B == RowsOf(executions, id) = {}
             C == ~ReportedOnce(executions, id)
             D == row.error
             E == ~ReportsAllow(row) /\ ~ReportsDeny(spec, row)
             F == decision = "allow" /\ ~ReportsAllow(row)
             r == FirstReason(spec, decision, executions, id)
  <1>1. r = IF A THEN <<"skipped", "no_reviewed_expectation">>
            ELSE IF B THEN <<"missing", "execution_missing">>
            ELSE IF C THEN <<"inconclusive", "duplicate_execution">>
            ELSE IF D THEN <<"inconclusive", "execution_error">>
            ELSE IF E THEN <<"inconclusive", "ambiguous_response">>
            ELSE IF F THEN <<"inconclusive", "legitimate_baseline_denied">>
            ELSE <<"evaluated", "reported_allow_or_deny">>
    BY DEF FirstReason
  <1>2. (A => r[1] = "skipped") /\ (r[1] = "evaluated" => ~A /\ ~C /\ ~D /\ ~E /\ ~F)
    <2> HIDE DEF A, B, C, D, E, F, r
    <2> QED BY <1>1
  <1> QED
    BY <1>2
\* The first pass: an item per declared identity, evaluated only on its one execution.
LEMMA FirstFacts ==
    ASSUME NEW spec, NEW executions
    PROVE  LET first == FirstPass(spec, executions)
           IN  /\ DOMAIN first = spec.identities
               /\ AreItems(first)
               /\ \A id \in spec.identities :
                      /\ first[id].expected_decision = DecisionFor(spec, id)
                      /\ DecisionFor(spec, id) \in {"skip", "unknown"} => first[id].state = "skipped"
                      /\ first[id].state = "evaluated" => StatusBacked(spec, executions, id)
                      /\ ReportedOnce(executions, id) =>
                             first[id].observed_outcome = RowOf(executions, id).observed_outcome
  <1> DEFINE first == FirstPass(spec, executions)
  <1>1. DOMAIN first = spec.identities
    BY DEF FirstPass
  <1>2. ASSUME NEW id \in spec.identities
        PROVE  /\ IsItem(first[id])
               /\ first[id].expected_decision = DecisionFor(spec, id)
               /\ DecisionFor(spec, id) \in {"skip", "unknown"} => first[id].state = "skipped"
               /\ first[id].state = "evaluated" => StatusBacked(spec, executions, id)
               /\ ReportedOnce(executions, id) =>
                      first[id].observed_outcome = RowOf(executions, id).observed_outcome
    <2> DEFINE decision == DecisionFor(spec, id)
               verdict == FirstReason(spec, decision, executions, id)
               seen == IF ReportedOnce(executions, id)
                       THEN RowOf(executions, id).observed_outcome ELSE "unknown"
               state == verdict[1]
               reason == verdict[2]
               item == first[id]
    <2>1. item = [expected_decision |-> decision, observed_outcome |-> seen,
                       state |-> state, reason |-> reason, reported_decision |-> "none"]
      BY DEF FirstPass
    <2>2. /\ decision \in {"skip", "unknown"} => state = "skipped"
          /\ state = "evaluated" => StatusBacked(spec, executions, id)
      BY FirstReasonFacts DEF StatusBacked
    <2>3. ReportedOnce(executions, id) => seen = RowOf(executions, id).observed_outcome
      OBVIOUS
    <2> HIDE DEF decision, verdict, first, seen, state, reason, item
    <2>4. IsItem(item)
      BY <2>1 DEF IsItem
    <2>5. /\ item.expected_decision = decision
          /\ item.observed_outcome = seen
          /\ item.state = state
      BY <2>1
    <2> QED
      BY <2>2, <2>3, <2>4, <2>5 DEF decision, item
  <1> HIDE DEF first
  <1>3. AreItems(first)
    BY <1>1, <1>2 DEF AreItems
  <1> QED
    BY <1>1, <1>2, <1>3 DEF first

---------------------------------------------------------------------------------
(* The semantic pass. *)

\* What an identity evaluated by a semantic row rests on: the frozen spec, one
\* execution, and one row that names it and is valid for it.
SemanticBacked(spec, executions, semantic, id, verified, item) ==
    LET row == RowOf(semantic, id)
        decision == IF row.decision = "allowed" THEN "allow" ELSE "deny"
    IN  /\ verified
        /\ ReportedOnce(executions, id)
        /\ ReportedOnce(semantic, id)
        /\ row.decision \in {"allowed", "denied"}
        /\ IndexAgrees(row, executions, id)
        /\ RowValid(spec, id, item, row, decision, RowOf(executions, id))
        /\ item.expected_decision = "allow" => decision = "allow"

\* One semantic row raises an item only with everything it needs.
LEMMA ApplyRowFacts ==
    ASSUME NEW spec, NEW id, NEW item, IsItem(item), NEW semantic, NEW executions, NEW verified,
           ReportedOnce(semantic, id)
    PROVE  LET out == ApplyRow(spec, id, item, RowOf(semantic, id), executions, verified)
           IN  /\ IsItem(out)
               /\ out.expected_decision = item.expected_decision
               /\ item.state = "skipped" => out.state = "skipped"
               /\ out.state = "evaluated" =>
                      \E it : /\ SemanticBacked(spec, executions, semantic, id, verified, it)
                              /\ it.expected_decision = item.expected_decision
                              /\ it.state = item.state
                              /\ it.observed_outcome = item.observed_outcome
  <1> DEFINE row == RowOf(semantic, id)
             it == [item EXCEPT !.reported_decision = row.decision]
             actual == RowOf(executions, id)
             decision == IF row.decision = "allowed" THEN "allow" ELSE "deny"
             out == ApplyRow(spec, id, item, row, executions, verified)
             A == it.state = "skipped"
             B == ~verified
             C == row.decision \notin {"allowed", "denied"}
             D == \/ ~ReportedOnce(executions, id)
                  \/ ~IndexAgrees(row, executions, id)
                  \/ ~RowValid(spec, id, it, row, decision, actual)
             E == it.expected_decision = "allow" /\ decision # "allow"
             U(s, r) == Update(it, s, r)
  <1>1. out = IF A THEN it
              ELSE IF B THEN U("inconclusive", "case_snapshot_unverified")
              ELSE IF C THEN U("inconclusive", row.reason)
              ELSE IF D THEN U("inconclusive", "semantic_assessment_inconsistent")
              ELSE IF E THEN U("inconclusive", "legitimate_baseline_denied")
              ELSE U("evaluated", "reported_" \o row.source)
    BY DEF ApplyRow
  <1>2. /\ IsItem(it) /\ it.state = item.state
        /\ it.expected_decision = item.expected_decision
        /\ it.observed_outcome = item.observed_outcome
    BY DEF IsItem
  <1>3. \A s, r : /\ IsItem(U(s, r)) /\ U(s, r).state = s
                  /\ U(s, r).expected_decision = it.expected_decision
    <2> HIDE DEF it
    <2> QED
      BY <1>2, UpdateFacts
  <1>4. ~B /\ ~C /\ ~D /\ ~E => SemanticBacked(spec, executions, semantic, id, verified, it)
    <2> HIDE DEF it
    <2> QED
      BY DEF SemanticBacked
  <1> HIDE DEF it, A, B, C, D, E, U, out
  <1>5. /\ IsItem(out)
        /\ out.expected_decision = item.expected_decision
        /\ A => out = it
        /\ out.state = "evaluated" => A \/ (~B /\ ~C /\ ~D /\ ~E)
    BY <1>1, <1>2, <1>3
  <1>6. A <=> item.state = "skipped"
    BY <1>2 DEF A
  <1>7. item.state = "skipped" => out.state = "skipped"
    BY <1>2, <1>5, <1>6
  <1>8. out.state = "evaluated" => SemanticBacked(spec, executions, semantic, id, verified, it)
    BY <1>4, <1>5, <1>6, <1>7
  <1> QED
    BY <1>2, <1>5, <1>7, <1>8 DEF out
\* Either the status alone, for an identity no rule protects and no row speaks of, or
\* the identity's one semantic row.
Backed(spec, executions, semantic, id, verified) ==
    \/ /\ StatusBacked(spec, executions, id)
       /\ RowsOf(semantic, id) = {}
       /\ ~Protected(spec, id)
    \/ \E it : /\ SemanticBacked(spec, executions, semantic, id, verified, it)
               /\ it.expected_decision = DecisionFor(spec, id)
               /\ it.state = "evaluated" => StatusBacked(spec, executions, id)
               /\ it.observed_outcome = RowOf(executions, id).observed_outcome

\* After the semantic pass an evaluated item is backed and has a reviewed decision.
LEMMA SemanticFacts ==
    ASSUME NEW spec, NEW executions, NEW semantic, NEW verified
    PROVE  LET first == FirstPass(spec, executions)
               second == apply_semantics(spec, first, executions, semantic, verified)
           IN  /\ DOMAIN second = spec.identities
               /\ AreItems(second)
               /\ \A id \in spec.identities :
                      /\ second[id].expected_decision = DecisionFor(spec, id)
                      /\ second[id].state = "evaluated" =>
                             /\ DecisionFor(spec, id) \notin {"skip", "unknown"}
                             /\ Backed(spec, executions, semantic, id, verified)
  <1> DEFINE first == FirstPass(spec, executions)
             second == apply_semantics(spec, first, executions, semantic, verified)
  <1>1. /\ DOMAIN first = spec.identities
        /\ AreItems(first)
        /\ \A id \in spec.identities :
               /\ first[id].expected_decision = DecisionFor(spec, id)
               /\ DecisionFor(spec, id) \in {"skip", "unknown"} => first[id].state = "skipped"
               /\ first[id].state = "evaluated" => StatusBacked(spec, executions, id)
               /\ ReportedOnce(executions, id) =>
                      first[id].observed_outcome = RowOf(executions, id).observed_outcome
    BY FirstFacts
  <1> HIDE DEF first
  <1>2. DOMAIN second = spec.identities
    BY <1>1 DEF apply_semantics
  <1>3. ASSUME NEW id \in spec.identities
        PROVE  /\ IsItem(second[id])
               /\ second[id].expected_decision = DecisionFor(spec, id)
               /\ second[id].state = "evaluated" =>
                      /\ DecisionFor(spec, id) \notin {"skip", "unknown"}
                      /\ Backed(spec, executions, semantic, id, verified)
    <2> DEFINE row == RowOf(semantic, id)
               item == first[id]
               out == second[id]
               applied == ApplyRow(spec, id, item, row, executions, verified)
               missing == Update(item, "inconclusive", "semantic_assessment_missing")
               differs == Update(item, "inconclusive", "semantic_assessment_inconsistent")
               A == RowsOf(semantic, id) = {}
               B == Protected(spec, id) /\ item.state # "skipped"
               C == ~ReportedOnce(semantic, id) \/ row.expected_access # item.expected_decision
    <2>1. out = IF A THEN IF B THEN missing ELSE item ELSE IF C THEN differs ELSE applied
      BY <1>1 DEF apply_semantics
    <2>2. /\ IsItem(item)
          /\ item.expected_decision = DecisionFor(spec, id)
          /\ DecisionFor(spec, id) \in {"skip", "unknown"} => item.state = "skipped"
          /\ item.state = "evaluated" => StatusBacked(spec, executions, id)
          /\ ReportedOnce(executions, id) =>
                 item.observed_outcome = RowOf(executions, id).observed_outcome
      BY <1>1 DEF AreItems
    <2> HIDE DEF item, out
    <2>3. /\ IsItem(missing) /\ missing.state = "inconclusive"
          /\ missing.expected_decision = item.expected_decision
          /\ IsItem(differs) /\ differs.state = "inconclusive"
          /\ differs.expected_decision = item.expected_decision
      BY <2>2, UpdateFacts
    <2>4. ~C => /\ IsItem(applied)
                /\ applied.expected_decision = item.expected_decision
                /\ item.state = "skipped" => applied.state = "skipped"
                /\ applied.state = "evaluated" =>
                       \E it : /\ SemanticBacked(spec, executions, semantic, id, verified, it)
                               /\ it.expected_decision = item.expected_decision
                               /\ it.state = item.state
                               /\ it.observed_outcome = item.observed_outcome
      BY <2>2, ApplyRowFacts
    <2>5. ~C /\ applied.state = "evaluated" => Backed(spec, executions, semantic, id, verified)
      BY <2>2, <2>4 DEF Backed, SemanticBacked
    <2>6. A /\ ~B /\ item.state = "evaluated" => Backed(spec, executions, semantic, id, verified)
      BY <2>2 DEF Backed
    <2> HIDE DEF A, B, C, applied, missing, differs
    <2>7. /\ IsItem(out)
          /\ out.expected_decision = DecisionFor(spec, id)
          /\ out.state = "evaluated" => \/ A /\ ~B /\ item.state = "evaluated"
                                        \/ ~C /\ applied.state = "evaluated"
      BY <2>1, <2>2, <2>3, <2>4
    <2>8. out.state = "evaluated" => DecisionFor(spec, id) \notin {"skip", "unknown"}
      BY <2>2, <2>4, <2>7
    <2> QED
      BY <2>5, <2>6, <2>7, <2>8 DEF out
  <1>4. AreItems(second)
    BY <1>2, <1>3 DEF AreItems
  <1> HIDE DEF second
  <1> QED
    BY <1>2, <1>3, <1>4 DEF second, first

---------------------------------------------------------------------------------
(* The report. *)

\* The rows assess() reads of the semantic report.
Safe(semantic) == [i \in DOMAIN semantic |-> safe_semantic_row(semantic[i])]

\* What a report says, whatever was uploaded: it has an item per declared identity;
\* an evaluated item has a reviewed decision, is backed, and shares the report with a
\* caller seen to be allowed, under the frozen spec and an established preflight; and a
\* conclusive report leaves nobody out (assessments.assess).
ReportSound(spec, executions, verified, preflight, semantic, report) ==
    /\ DOMAIN report.identities = spec.identities
    /\ report.case_snapshot_verified = (verified /\ spec # NoSpec)
    /\ report.status = "conclusive" =>
           /\ spec.identities # {}
           /\ \A id \in spec.identities : report.identities[id].state = "evaluated"
           /\ Unexpected(executions, spec.identities) = 0
    /\ \A id \in spec.identities :
           /\ report.identities[id].expected_decision = DecisionFor(spec, id)
           /\ report.identities[id].state = "evaluated" =>
                  /\ verified
                  /\ DecisionFor(spec, id) \notin {"skip", "unknown"}
                  /\ Backed(spec, executions, Safe(semantic), id, verified)
                  /\ assess_preflight(spec, preflight, verified).status
                         \in {"passed", "not_configured"}
                  /\ \E other \in spec.identities :
                         /\ DecisionFor(spec, other) = "allow"
                         /\ report.identities[other].state = "evaluated"

\* Every report is sound.
LEMMA AssessFacts ==
    ASSUME NEW spec, NEW executions, NEW verified \in BOOLEAN, NEW preflight, NEW semantic
    PROVE  ReportSound(spec, executions, verified, preflight, semantic,
                       assess(spec, executions, verified, preflight, semantic))
  <1> DEFINE report == assess(spec, executions, verified, preflight, semantic)
             session == assess_preflight(spec, preflight, verified)
             safe == Safe(semantic)
             first == FirstPass(spec, executions)
             second == apply_semantics(spec, first, executions, safe, verified)
             credentials == CredentialPass(spec, second, executions)
             third == UnverifiedPass(credentials, verified)
             fourth == PreflightPass(third, session)
             items == BaselinePass(fourth, verified)
             unexpected == Unexpected(executions, spec.identities)
  <1>1. /\ report.status = Verdict(items, unexpected)
        /\ report.identities = items
        /\ report.case_snapshot_verified = (verified /\ spec # NoSpec)
    BY DEF assess, Safe
  <1>2. /\ DOMAIN second = spec.identities
        /\ AreItems(second)
        /\ \A id \in spec.identities :
               /\ second[id].expected_decision = DecisionFor(spec, id)
               /\ second[id].state = "evaluated" =>
                      /\ DecisionFor(spec, id) \notin {"skip", "unknown"}
                      /\ Backed(spec, executions, safe, id, verified)
    BY SemanticFacts
  <1> HIDE DEF second, safe, session, report
  <1>3. OnlyDemotes(second, credentials) /\ AreItems(credentials)
    BY <1>2, CredentialFacts, DemotedAreItems
  <1> HIDE DEF credentials
  <1>4. OnlyDemotes(credentials, third) /\ AreItems(third)
    <2>1. OnlyDemotes(credentials, third)
      BY <1>3, DemoteFacts, DemotesNothing DEF UnverifiedPass
    <2> QED
      BY <2>1, DemotedAreItems
  <1> HIDE DEF third
  <1>5. /\ OnlyDemotes(third, fourth) /\ AreItems(fourth)
        /\ session.status \in {"passed", "not_configured"}
              \/ \A id \in DOMAIN fourth : fourth[id].state # "evaluated"
    <2> DEFINE demoted == DemoteWhere(third, {"evaluated", "inconclusive", "missing"},
                                      "identity_preflight_not_established")
    <2>1. /\ OnlyDemotes(third, demoted)
          /\ \A id \in DOMAIN third : demoted[id].state # "evaluated"
          /\ OnlyDemotes(third, third)
      BY <1>4, DemoteFacts, DemotesNothing
    <2>2. fourth = IF session.status \in {"passed", "not_configured"} THEN third ELSE demoted
      BY DEF PreflightPass
    <2> HIDE DEF demoted, fourth
    <2>3. OnlyDemotes(third, fourth)
      BY <2>1, <2>2
    <2>4. AreItems(fourth) /\ DOMAIN fourth = DOMAIN third
      BY <2>3, DemotedAreItems DEF OnlyDemotes
    <2> QED
      BY <2>1, <2>2, <2>3, <2>4
  <1> HIDE DEF fourth
  <1>6. /\ OnlyDemotes(fourth, items) /\ AreItems(items)
        /\ \/ items = fourth /\ BaselineValid(fourth, verified)
           \/ \A id \in DOMAIN items : items[id].state # "evaluated"
    <2> DEFINE demoted == DemoteWhere(fourth, {"evaluated"}, "legitimate_baseline_missing")
    <2>1. /\ OnlyDemotes(fourth, demoted)
          /\ \A id \in DOMAIN fourth : demoted[id].state # "evaluated"
          /\ OnlyDemotes(fourth, fourth)
      BY <1>5, DemoteFacts, DemotesNothing
    <2>2. items = IF BaselineValid(fourth, verified) THEN fourth ELSE demoted
      BY DEF BaselinePass
    <2> HIDE DEF demoted, items
    <2>3. OnlyDemotes(fourth, items)
      BY <2>1, <2>2
    <2>4. AreItems(items) /\ DOMAIN items = DOMAIN fourth
      BY <2>3, DemotedAreItems DEF OnlyDemotes
    <2> QED
      BY <2>1, <2>2, <2>3, <2>4
  <1> HIDE DEF items
  <1>7. OnlyDemotes(second, items)
    BY <1>3, <1>4, <1>5, <1>6, DemotesTwice
  <1>8. DOMAIN items = spec.identities
    BY <1>2, <1>7 DEF OnlyDemotes
  <1>9. ASSUME NEW id \in spec.identities
        PROVE  /\ items[id].expected_decision = DecisionFor(spec, id)
               /\ items[id].state = "evaluated" =>
                      /\ verified
                      /\ DecisionFor(spec, id) \notin {"skip", "unknown"}
                      /\ Backed(spec, executions, safe, id, verified)
                      /\ session.status \in {"passed", "not_configured"}
                      /\ \E other \in spec.identities :
                             /\ DecisionFor(spec, other) = "allow"
                             /\ items[other].state = "evaluated"
    <2>1. \A x \in spec.identities :
              /\ items[x].expected_decision = DecisionFor(spec, x)
              /\ items[x].state = "evaluated" => items[x] = second[x]
      BY <1>2, <1>7 DEF OnlyDemotes
    <2>2. ASSUME items[id].state = "evaluated"
          PROVE  /\ verified
                 /\ session.status \in {"passed", "not_configured"}
                 /\ \E other \in spec.identities :
                        /\ DecisionFor(spec, other) = "allow"
                        /\ items[other].state = "evaluated"
      <3>1. items = fourth /\ BaselineValid(fourth, verified)
        BY <1>6, <1>8, <2>2
      <3>2. session.status \in {"passed", "not_configured"}
        BY <1>5, <1>8, <2>2, <3>1
      <3>3. verified /\ \E other \in DOMAIN items : /\ items[other].expected_decision = "allow"
                                                    /\ items[other].state = "evaluated"
        BY <3>1 DEF BaselineValid
      <3> QED
        BY <1>8, <2>1, <3>2, <3>3
    <2>3. items[id].state = "evaluated" =>
              /\ DecisionFor(spec, id) \notin {"skip", "unknown"}
              /\ Backed(spec, executions, safe, id, verified)
      BY <1>2, <2>1
    <2> QED
      BY <2>1, <2>2, <2>3
  <1>10. report.status = "conclusive" =>
             /\ spec.identities # {}
             /\ \A id \in spec.identities : items[id].state = "evaluated"
             /\ unexpected = 0
    BY <1>1, <1>8 DEF Verdict
  <1> QED
    BY <1>1, <1>8, <1>9, <1>10 DEF ReportSound, safe, session, report

---------------------------------------------------------------------------------
(* Counting. *)

\* A set numbered from 1 to n without gap or repetition has n elements.
LEMMA NumberedCount ==
    ASSUME NEW S, NEW n \in Nat, NEW f \in [1..n -> S],
           \A a, b \in 1..n : f[a] = f[b] => a = b,
           \A s \in S : \E a \in 1..n : f[a] = s
    PROVE  IsFiniteSet(S) /\ Cardinality(S) = n
  <1>1. f \in Injection(1..n, S)
    BY DEF Injection, IsInjective
  <1>2. f \in Surjection(1..n, S)
    BY DEF Surjection
  <1>3. ExistsBijection(1..n, S)
    BY <1>1, <1>2 DEF Bijection, ExistsBijection
  <1> QED
    BY <1>3, FS_NatBijection, FS_CountingElements

\* A set of naturals that is not empty has a least element.
LEMMA LeastNatural ==
    ASSUME NEW S \in SUBSET Nat, S # {}
    PROVE  \E x \in S : \A y \in S : x <= y
  <1> DEFINE R == OpToRel(<, Nat)
  <1>1. IsWellFoundedOn(R, Nat)
    BY NatLessThanWellFounded
  <1>2. \A x, y \in Nat : x < y => <<x, y>> \in R
    BY DEF OpToRel
  <1> HIDE DEF R
  <1>3. PICK x \in S : \A y \in S : ~(<<y, x>> \in R)
    BY <1>1, WFMin
  <1>4. ASSUME NEW y \in S
        PROVE  x <= y
    <2>1. x \in Nat /\ y \in Nat
      OBVIOUS
    <2>2. ~(y < x)
      BY <1>2, <1>3, <2>1
    <2> QED
      BY <2>1, <2>2
  <1> QED
    BY <1>4
===============================================================================
