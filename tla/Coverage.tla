-------------------------------- MODULE Coverage --------------------------------
(* Authorization-testing coverage over the stored inventory                       *)
(* (authorization_coverage.py).  The tables read are one record db:               *)
(*   db.cases      case number (in creation order) -> spec                        *)
(*   db.jobs       job -> [case_id, status, snapshot, assessment, at]             *)
(*   db.items      the Gate scan items, [job, status, ...]                        *)
(*   db.exchanges  the captured exchanges, [endpoint, label, success, fields]     *)
(* snapshot and assessment are <<>> or a one-element sequence; at orders runs as  *)
(* (completed_at or created_at, created_at, id) does.  A spec's hash is the spec  *)
(* itself: no two specs share a hash.                                             *)
EXTENDS Integers, Sequences, FiniteSets, FiniteSetsExt

---------------------------------------------------------------------------------
(* Which operation a request exercises. *)

Placeholders == {"{id}", "{uuid}"}

EffectivePort(scheme, port) == IF port # 0 THEN port ELSE IF scheme = "https" THEN 443 ELSE 80

\* <<>> for a request without a method, host or http(s) scheme.
parse_request(request) ==
    IF request = <<>> THEN <<>>
    ELSE <<[request[1] EXCEPT !.port = EffectivePort(request[1].scheme, @)]>>

\* Only the inventory's placeholders are wildcards, and never for an empty segment.
template_matches(template, path) ==
    /\ Len(template) = Len(path)
    /\ \A i \in DOMAIN template :
           template[i] = path[i] \/ (path[i] # "" /\ template[i] \in Placeholders)

operation_matches(e, request) ==
    /\ request # <<>>
    /\ e.method = request[1].method
    /\ e.scheme = request[1].scheme
    /\ e.host = request[1].host
    /\ EffectivePort(e.scheme, e.port) = request[1].port
    /\ template_matches(e.path_template, request[1].path)

---------------------------------------------------------------------------------
(* Cases and runs. *)

\* The one decision an identity's declarations agree on.
DeclaredDecision(spec, id) ==
    LET said == {spec.expected[id][i] : i \in DOMAIN spec.expected[id]}
    IN  IF Cardinality(said) = 1 THEN CHOOSE d \in said : TRUE ELSE "unknown"

\* A stored case with no allow or deny expectation reviews nothing yet.
Reviewed(spec) == \E id \in spec.identities : DeclaredDecision(spec, id) \in {"allow", "deny"}

Runs(db) == {j \in DOMAIN db.jobs : db.jobs[j].assessment # <<>>}

\* A run is placed by the request its own frozen snapshot holds.
RunRequest(job) == IF job.snapshot = <<>> THEN <<>> ELSE parse_request(job.snapshot[1].request)

Verified(job) == job.assessment[1].case_snapshot_verified

\* Mutant of is_current_for: any verified run of the case is current.
CurrentForCase(db, j, c) ==
    /\ db.jobs[j].case_id = c
    /\ c \in DOMAIN db.cases
    /\ Verified(db.jobs[j])

is_current_for(db, j, c) ==
    /\ db.jobs[j].case_id = c
    /\ c \in DOMAIN db.cases
    /\ Verified(db.jobs[j])
    /\ db.jobs[j].snapshot = <<db.cases[c]>>

RunsOf(db, c) == {j \in Runs(db) : db.jobs[j].case_id = c}
CurrentRuns(db, c) == {j \in RunsOf(db, c) : is_current_for(db, j, c)}
StaleRuns(db, c) == RunsOf(db, c) \ CurrentRuns(db, c)
Executed(db, c) == CurrentRuns(db, c) # {}
LatestRun(db, c) ==
    CHOOSE j \in CurrentRuns(db, c) : \A k \in CurrentRuns(db, c) : db.jobs[k].at <= db.jobs[j].at

Matched(db, e) ==
    {c \in DOMAIN db.cases : /\ Reviewed(db.cases[c])
                             /\ operation_matches(e, parse_request(db.cases[c].request))}

\* Mutant of Attributed: a run is placed by its case's present request.
AttributedByCase(db, e) == {j \in Runs(db) : db.jobs[j].case_id \in Matched(db, e)}

Attributed(db, e) == {j \in Runs(db) : operation_matches(e, RunRequest(db.jobs[j]))}

\* Mutant of historical_reason: the snapshot is not asked whether it was verified.
HistoricalByCase(db, j) ==
    IF db.jobs[j].case_id \notin DOMAIN db.cases THEN "case_deleted" ELSE "case_modified"

historical_reason(db, j) ==
    IF db.jobs[j].case_id \notin DOMAIN db.cases THEN "case_deleted"
    ELSE IF ~Verified(db.jobs[j]) THEN "snapshot_unverified" ELSE "case_modified"

History(db, e) ==
    {j \in Attributed(db, e) : \A c \in Matched(db, e) : ~is_current_for(db, j, c)}

---------------------------------------------------------------------------------
(* What one operation shows. *)

\* What a case's latest current run says of an identity the case declares.
CellState(db, c, id) ==
    LET items == db.jobs[LatestRun(db, c)].assessment[1].identities
    IN  IF id \in DOMAIN items THEN items[id].state ELSE "missing"

IdentityRank(state) ==
    CASE state = "evaluated" -> 4 [] state = "inconclusive" -> 3
      [] state = "missing" -> 2 [] state = "skipped" -> 1 [] OTHER -> 0

identity_state(db, e, id) ==
    LET declaring == {c \in Matched(db, e) : id \in db.cases[c].identities}
        ran == {c \in declaring : Executed(db, c)}
        states == {CellState(db, c, id) : c \in ran}
    IN  IF declaring = {} THEN "not_reviewed"
        ELSE IF ran = {} THEN "reviewed_not_run"
        ELSE IF ran = declaring /\ states = {"evaluated"} THEN "evaluated"
        ELSE IF "evaluated" \in states THEN "mixed"
        ELSE CHOOSE s \in states : \A t \in states : IdentityRank(t) <= IdentityRank(s)

Candidates(db, j, statuses) == {i \in db.items : i.job = j /\ i.status \in statuses}

OpenCandidates(db, e) ==
    UNION {Candidates(db, j, {"new", "reviewed"}) : j \in Attributed(db, e)}
Promoted(db, e) == UNION {Candidates(db, j, {"promoted"}) : j \in Attributed(db, e)}

operation_state(db, e) ==
    LET matched == Matched(db, e)
        executed == {c \in matched : Executed(db, c)}
        statuses == {db.jobs[LatestRun(db, c)].assessment[1].status : c \in executed}
    IN  IF OpenCandidates(db, e) \cup Promoted(db, e) # {} THEN "violation_candidate"
        ELSE IF matched = {} THEN "untested"
        ELSE IF executed = {} THEN IF \E c \in matched : StaleRuns(db, c) # {}
                                   THEN "stale" ELSE "reviewed_not_executed"
        ELSE IF statuses = {"conclusive"} /\ executed = matched THEN "conclusive"
        ELSE IF statuses \cap {"conclusive", "partial"} # {} THEN "partial"
        ELSE "inconclusive"

\* Why an operation's boundary may matter, from stored facts only.
priority_reasons(db, e) ==
    LET mine == {x \in db.exchanges : x.endpoint = e.id}
        success == {x.label : x \in {y \in mine : y.success}}
    IN  {r \in {"object_identifier_in_path", "state_changing_method",
                "boundary_fields_in_requests", "success_for_multiple_identities",
                "anonymous_success_observed"} :
            CASE r = "object_identifier_in_path" ->
                     \E i \in DOMAIN e.path_template : e.path_template[i] \in Placeholders
              [] r = "state_changing_method" -> e.method \in {"POST", "PUT", "PATCH", "DELETE"}
              [] r = "boundary_fields_in_requests" -> \E x \in mine : x.fields # {}
              [] r = "success_for_multiple_identities" -> Cardinality(success) >= 2
              [] OTHER -> "anonymous" \in success}
===============================================================================
