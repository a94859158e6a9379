------------------------------- MODULE MCDecisions ------------------------------
(* What is decided, and what is done about it: who changes an engagement's        *)
(* authority and how, what the policy, a Gate assessment and a boundary draft     *)
(* answer, and what the views show of the results.  Authority, Decisions and      *)
(* GateResults share no state; a behaviour runs one of them, chosen at the start, *)
(* and the properties are checked of all.                                         *)
EXTENDS Decisions, MCAuthority, MCGateResults

---------------------------------------------------------------------------------
(* Policy questions: every scope of at most two rules, and every engagement state *)
(* and authorization history, against every target.                               *)

Name(labels) == [ip |-> FALSE, labels |-> labels]
Acme == Name(<<"com", "acme">>)
Api == Name(<<"com", "acme", "api">>)
DeepApi == Name(<<"com", "acme", "api", "v2">>)
Other == Name(<<"com", "other">>)
Addr1 == [ip |-> TRUE, labels |-> <<"10.0.0.1">>]
Addr2 == [ip |-> TRUE, labels |-> <<"10.0.0.2">>]
Bare == Name(<<"localhost">>)

Target(host, scheme, port, path) ==
    [ip |-> host.ip, labels |-> host.labels, scheme |-> scheme, port |-> port, path |-> path]

Rule(kind, wild, host, scheme, port, path, net) ==
    [kind |-> kind, wild |-> wild, ip |-> host.ip, labels |-> host.labels,
     scheme |-> scheme, port |-> port, path |-> path, net |-> net]

Places ==
    {Target(h, "none", 0, <<>>) : h \in {Acme, Api, DeepApi, Other, Addr1, Addr2, Bare}}
    \cup {Target(Acme, s, p, q) :
              s \in {"https", "http"}, p \in {0, 80, 443},
              q \in {<<>>, <<"/">>, <<"/", "admin">>, <<"/", "admin", "x">>,
                     <<"/", "administrator">>}}

RuleShapes ==
    {Rule("domain", w, h, "none", 0, <<>>, {}) : w \in {"none", "*.", "*"}, h \in {Acme, Api}}
    \cup {Rule("domain", "*", Name(<<>>), "none", 0, <<>>, {}),
          Rule("domain", "none", Addr1, "none", 0, <<>>, {}),
          Rule("cidr", "none", Name(<<>>), "none", 0, <<>>, {Addr1.labels, Addr2.labels})}
    \cup {Rule("url", "none", Acme, s, 0, q, {}) :
              s \in {"https", "http"}, q \in {<<>>, <<"/">>, <<"/", "admin">>}}
    \cup {Rule("url", "none", Acme, "https", 80, <<"/", "admin">>, {}),
          Rule("url", "none", Acme, "none", 0, <<"/", "admin">>, {}),
          Rule("url", "none", Bare, "https", 0, <<"/", "admin">>, {}),
          Rule("url", "*.", Acme, "https", 0, <<>>, {})}

Excluding(r, b) == [kind |-> r.kind, wild |-> r.wild, ip |-> r.ip, labels |-> r.labels,
                    scheme |-> r.scheme, port |-> r.port, path |-> r.path, net |-> r.net,
                    excluded |-> b]

ScopeSets ==
    {{Excluding(r, FALSE), Excluding(s, b)} : r, s \in RuleShapes, b \in BOOLEAN}

MCTargetList == {<<>>, <<Target(Acme, "https", 0, <<>>), Target(Api, "https", 0, <<>>)>>}
                \cup {<<t>> : t \in Places}

EngagementRow(standing, type, stop, rows, rules) ==
    [engagement_status |-> standing, engagement_type |-> type, stop_work |-> stop,
     authorizations |-> rows, scope_rules |-> rules]

Grants == [status : {"active", "expired"}, window_start : {0, 2, 3}, window_end : {0, 1, 2}]
GrantRows == {<<>>} \cup {<<g>> : g \in Grants} \cup {<<g, h>> : g, h \in Grants}

MCEngagement ==
    {EngagementRow("active", "bug_bounty", FALSE, <<>>, rules) : rules \in ScopeSets}
    \cup {EngagementRow(standing, type, stop, rows,
                        {Excluding(Rule("domain", "none", Acme, "none", 0, <<>>, {}), FALSE)}) :
              standing \in {"active", "paused"}, type \in {"bug_bounty", "pentest"},
              stop \in BOOLEAN, rows \in GrantRows}

---------------------------------------------------------------------------------
(* Assessment questions about an owner that must be allowed and a caller that     *)
(* must be denied.                                                                *)

Owner == "owner"
Caller == "caller"
Reader == "reader"

Reply(id, code, outcome, error) ==
    [identity_id |-> id, status_code |-> code, observed_outcome |-> outcome, error |-> error]

OwnerRows == {<<>>, <<Reply(Owner, 200, "allow", FALSE)>>, <<Reply(Owner, 403, "deny", FALSE)>>,
              <<Reply(Owner, 200, "allow", FALSE), Reply(Owner, 200, "allow", FALSE)>>}
CallerRows == {<<>>} \cup {<<Reply(Caller, x[1], x[2], FALSE)>> :
                   x \in {<<200, "allow">>, <<401, "deny">>, <<403, "deny">>,
                          <<202, "deny">>, <<0, "deny">>}}
                   \cup {<<Reply(Caller, 200, "allow", TRUE)>>}
StrayRows == {<<>>, <<Reply("stranger", 200, "allow", FALSE)>>}

MCExecutionList ==
    {own \o call \o stray : own \in OwnerRows, call \in CallerRows, stray \in StrayRows}

Semantic(id, expected, decision, source, reason, matched, seen) ==
    [identity_id |-> id, expected_access |-> expected, decision |-> decision,
     source |-> source, reason |-> reason, matched_assertions |-> matched,
     execution_index |-> 0, verification |-> seen]

Seen(strategy, before, after) ==
    <<[reader_identity_id |-> Reader, strategy |-> strategy, environment |-> "synchronous_isolated",
       before_statuses |-> before, after_status |-> after, reset_status |-> 200]>>

OwnerSemantics ==
    {<<>>,
     <<Semantic(Owner, "allow", "allowed", "http_status", "status_only", {}, <<>>)>>,
     <<Semantic(Owner, "allow", "allowed", "write_verification", "state_changed", {},
                Seen("changed", <<200, 200>>, 200))>>}

CallerSemantics ==
    {<<>>} \cup
    {<<Semantic(Caller, "deny", d, "response_assertion", "assertion_matched", m, <<>>)>> :
        d \in {"allowed", "denied"}, m \in {{1}, {2}}} \cup
    {<<Semantic(Caller, "deny", "denied", "write_verification", "state_unchanged", {},
                Seen("changed", b, 200))>> : b \in {<<200, 200>>, <<200>>}} \cup
    {<<Semantic(Caller, e, "denied", "http_status", "status_only", {}, <<>>)>> :
        e \in {"deny", "allow", "anything"}}

BaseSpec ==
    [identities |-> {Owner, Caller},
     expected |-> (Owner :> <<"allow">> @@ Caller :> <<"deny">>),
     sends |-> {Owner, Caller},
     deny_status |-> {}, deny_when |-> FALSE, unauthorized_is_denial |-> FALSE,
     assertions |-> (Owner :> <<>> @@ Caller :> <<>>),
     oracle |-> <<>>,
     preflight |-> <<>>]

PreflightSpec == [BaseSpec EXCEPT !.preflight = (Owner :> 200 @@ Caller :> 200)]

MCAssessSpec ==
    {BaseSpec,
     [BaseSpec EXCEPT !.unauthorized_is_denial = TRUE, !.deny_when = TRUE],
     [BaseSpec EXCEPT !.expected[Caller] = <<"deny", "deny">>],
     [BaseSpec EXCEPT !.expected[Owner] = <<"deny">>],
     [BaseSpec EXCEPT !.assertions[Caller] =
         <<[decision |-> "deny", status_codes |-> {403}], [decision |-> "allow", status_codes |-> {}]>>],
     [BaseSpec EXCEPT !.oracle = <<[reader |-> Reader, strategy |-> "changed",
         environment |-> "synchronous_isolated", after_status |-> {}, reset |-> TRUE]>>],
     PreflightSpec}

MCPreflightList ==
    {<<>>} \cup {<<[identity_id |-> Owner, status |-> "passed", status_code |-> 200],
       [identity_id |-> Caller, status |-> s, status_code |-> 200]>> : s \in {"passed", "failed"}}

MCSemanticList == {a \o b : a \in OwnerSemantics, b \in CallerSemantics}

---------------------------------------------------------------------------------
(* Draft questions: two cases that may disagree about two identities. *)

Identity(role, tenant, anonymous) ==
    [role |-> role, tenant_id |-> tenant, anonymous |-> anonymous, reference |-> anonymous]

WhoOptions == {Identity("user", "t1", FALSE), Identity("admin", "t2", FALSE),
               Identity("admin", "none", FALSE), Identity("none", "none", TRUE)}

Hierarchy == <<"user", "admin">>

Request(method) == <<[method |-> method, scheme |-> "https", host |-> "acme", port |-> 0,
                      path |-> <<"orders", "7">>]>>

DraftCase(method, a, b, owner, tenant, hierarchy) ==
    [request |-> Request(method), identities |-> {"ann", "bob"},
     expected |-> ("ann" :> <<"allow">> @@ "bob" :> <<"deny">>),
     who |-> ("ann" :> a @@ "bob" :> b),
     resource |-> [owner_identity |-> owner, tenant_id |-> tenant],
     role_hierarchy |-> hierarchy]

MCOperation == {[id |-> "e", method |-> "GET", scheme |-> "https", host |-> "acme", port |-> 443,
                 path_template |-> <<"orders", "{id}">>]}

MCCaseTable ==
    {<<x, y>> :
        x \in {DraftCase("GET", a, b, o, t, h) : a, b \in WhoOptions, o \in {"none", "ann"},
                   t \in {"none", "t1"}, h \in {<<>>, Hierarchy}},
        y \in {DraftCase(m, a, b, o, t, Hierarchy) : m \in {"GET", "PUT"}, a, b \in WhoOptions,
                   o \in {"ann", "bob"}, t \in {"none", "t2"}}}

---------------------------------------------------------------------------------
(* The three side by side.  What rests in a behaviour rests in one state. *)

VARIABLE focus

decidingVars == <<focus, decisionVars, vars, gateVars>>

\* An engagement without cases and jobs.
NoCases ==
    /\ cases = <<>> /\ jobs = <<>> /\ receipts = <<>>
    /\ items = {} /\ evidence = {} /\ removed = {}
    /\ used = {} /\ reclaimed = {}
    /\ clock = 0

DecidingInit ==
    /\ focus \in {"questions", "authority", "views"}
    /\ IF focus = "questions" THEN DecisionsInit ELSE question = NoAnswer /\ answer = NoAnswer
    /\ Init
    /\ IF focus = "views" THEN GateInit ELSE NoCases

\* Questions end when they are answered and the life of results when a bound is used up; a handler of
\* authority can always go on or begin.
Ended == focus # "authority" /\ UNCHANGED decidingVars

DecidingNext ==
    \/ /\ UNCHANGED focus
       /\ \/ focus = "questions" /\ DecisionsNext /\ UNCHANGED <<vars, gateVars>>
          \/ focus = "authority" /\ Next /\ UNCHANGED <<decisionVars, gateVars>>
          \/ focus = "views" /\ GateNext /\ UNCHANGED <<decisionVars, vars>>
    \/ Ended

DecidingSpec == DecidingInit /\ [][DecidingNext]_decidingVars
===============================================================================
