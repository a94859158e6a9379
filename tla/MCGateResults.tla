------------------------------ MODULE MCGateResults -----------------------------
(* One case moved between two operations and given a third caller by an edit,     *)
(* two jobs, and uploads that are clean, incomplete, a violation, or unbound.     *)
EXTENDS GateResults

Who(role, tenant, anonymous) ==
    [role |-> role, tenant_id |-> tenant, anonymous |-> anonymous, reference |-> role]

Ask(method) == <<[method |-> method, scheme |-> "https", host |-> "acme", port |-> 0,
                  path |-> <<"orders", "7">>]>>

People == ("ann" :> Who("user", "t1", FALSE)) @@ ("bob" :> Who("admin", "t2", FALSE))
Guest == ("eve" :> Who("none", "none", TRUE))

Case(id, method, who, expected) ==
    [id |-> id, request |-> Ask(method), identities |-> DOMAIN who, who |-> who,
     expected |-> expected, sends |-> {"ann", "bob"},
     deny_status |-> {}, deny_when |-> FALSE, unauthorized_is_denial |-> FALSE,
     assertions |-> [i \in DOMAIN who |-> <<>>], oracle |-> <<>>, preflight |-> <<>>,
     resource |-> [owner_identity |-> "ann", tenant_id |-> "t1"],
     role_hierarchy |-> <<"user", "admin">>]

First == Case("tc", "GET", People, ("ann" :> <<"allow">>) @@ ("bob" :> <<"deny">>))
Second == Case("tc2", "PUT", People @@ Guest,
               ("ann" :> <<"allow">>) @@ ("bob" :> <<"deny">>) @@ ("eve" :> <<"deny">>))

MCCaseSpec == {First, Second}

MCEndpoint ==
    {[id |-> m, method |-> m, scheme |-> "https", host |-> "acme", port |-> 443,
      path_template |-> <<"orders", "{id}">>] : m \in {"GET", "PUT"}}

MCExchange == {[endpoint |-> "GET", label |-> "ann", success |-> TRUE, fields |-> {}]}

Row(id, code, outcome) ==
    [identity_id |-> id, status_code |-> code, observed_outcome |-> outcome, error |-> FALSE]

Result(hash, id, executions, findings) ==
    [case_hash |-> hash, test_case_id |-> id, executions |-> executions, findings |-> findings,
     preflight |-> <<>>, semantic |-> <<>>]

Judged(body) ==
    [body EXCEPT !.semantic =
        <<[identity_id |-> "bob", expected_access |-> "deny", decision |-> "denied",
           source |-> "http_status", reason |-> "status_only", matched_assertions |-> {},
           execution_index |-> 2, verification |-> <<>>]>>]

Clean == <<Row("ann", 200, "allow"), Row("bob", 403, "deny")>>

MCBody ==
    {Result(<<First>>, "tc", Clean, 0),
     Result(<<First>>, "tc", <<Row("ann", 200, "allow"), Row("bob", 200, "allow")>>, 1),
     Result(<<Second>>, "", Clean, 0),
     Result(<<Second>>, "", Append(Clean, Row("eve", 403, "deny")), 0),
     Judged(Result(<<First>>, "tc", Clean, 0)),
     Result(<<>>, "tc", Clean, 0)}

\* For what is stored: a clean result of the first spec, one with a candidate and a preflight, and
\* one that names no hash.
MCStored ==
    {Result(<<First>>, "tc", Clean, 0),
     [Result(<<First>>, "tc", <<Row("bob", 200, "allow")>>, 1) EXCEPT
         !.preflight = <<[identity_id |-> "ann", status |-> "passed", status_code |-> 200]>>],
     Result(<<>>, "tc", Clean, 0)}

MCSymmetry == Permutations(Job)
===============================================================================
