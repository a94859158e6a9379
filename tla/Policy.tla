--------------------------------- MODULE Policy ---------------------------------
(* The policy engine (policy.py) and the rows enforcement.py feeds it: may this   *)
(* capability run against these targets, for this engagement, now?  Pure          *)
(* operators; MCDecisions asks them bounded questions.                            *)
(*                                                                                *)
(* A host name is the sequence of its labels from the top-level one down, so      *)
(* that "is below" is a prefix; an address is the one-element sequence of itself  *)
(* with ip = TRUE.  A path is <<>> when the text has none and starts with "/"     *)
(* otherwise ("https://h/" has the path <<"/">>).  A port of 0 stands for none    *)
(* stated, a window bound of 0 for an open bound.                                 *)
EXTENDS Integers, Sequences, FiniteSets, SequencesExt

STOP_WORK_ACTIVE == "stop_work_active"
ALLOWED == "allowed"

Deny(reason) == [allowed |-> FALSE, reason |-> reason]
Allow == [allowed |-> TRUE, reason |-> ALLOWED]

---------------------------------------------------------------------------------
(* Targets. *)

\* "ip", "domain", or "none" for what cannot be classified: a name without a dot.
HostKind(x) == IF x.ip THEN "ip" ELSE IF Len(x.labels) >= 2 THEN "domain" ELSE "none"

normalize_target(x) == [kind |-> HostKind(x), value |-> x.labels]

DefaultPort(scheme) == IF scheme = "https" THEN 443 ELSE IF scheme = "http" THEN 80 ELSE 0

scheme_and_port(x) ==
    [scheme |-> x.scheme, port |-> IF x.port # 0 THEN x.port ELSE DefaultPort(x.scheme)]

\* The rule's path, or a path segment below it.  A rule without a path covers all.
path_within(target, rule) == IsPrefix(rule, target)

---------------------------------------------------------------------------------
(* Scope rules: [kind, excluded, wild, ip, labels, scheme, port, path, net].      *)
(* wild is "none" for a bare name, "*." or "*" for the two wildcards; a scheme    *)
(* of "none" is one the text does not state.                                      *)

\* host.endswith("." + suffix); the empty suffix of a lone "*" is below nothing.
Below(host, suffix) == suffix # <<>> /\ IsStrictPrefix(suffix, host)

\* Mutant of host_matches: a bare name covers its subdomains.
SubtreeMatches(r, host) == Below(host, r.labels) \/ (r.wild # "*." /\ host = r.labels)

host_matches(r, host) ==
    \/ r.wild \in {"*.", "*"} /\ Below(host, r.labels)
    \/ r.wild # "*." /\ host = r.labels

\* Mutant of excludes_host: an exclusion is read as an inclusion is.
ExcludesStated(r, host) == host_matches(r, host)

excludes_host(r, host) ==
    \/ Below(host, r.labels)
    \/ r.wild # "*." /\ host = r.labels

\* A URL rule whose own host cannot be classified (a path-only rule) skips the host
\* comparison; a wildcard in its host is compared literally and equals no target.
UrlHostAgrees(r, value) ==
    HostKind(r) # "none" => r.wild = "none" /\ r.labels = value

ListenerAgrees(r, t) ==
    LET mine == scheme_and_port(r)
        its == scheme_and_port(t)
    IN  /\ mine.scheme # "none" => mine.scheme = its.scheme
        /\ mine.port # 0 => mine.port = its.port

rule_matches(r, t) ==
    LET n == normalize_target(t)
    IN  IF r.kind = "cidr" THEN n.kind = "ip" /\ n.value \in r.net
        ELSE IF r.kind = "url" THEN /\ UrlHostAgrees(r, n.value)
                                    /\ ListenerAgrees(r, t)
                                    /\ path_within(t.path, r.path)
        ELSE IF n.kind = "ip" THEN r.ip /\ r.wild = "none" /\ r.labels = n.value
        ELSE IF r.excluded THEN ~r.ip /\ excludes_host(r, n.value)
        ELSE ~r.ip /\ host_matches(r, n.value)

---------------------------------------------------------------------------------
(* The decision. *)

SELF_AUTHORIZING_TYPES == {"bug_bounty"}

WindowOpen(auth, now) ==
    /\ auth.window_start # 0 => ~(now < auth.window_start)
    /\ auth.window_end # 0 => ~(now > auth.window_end)

evaluate_engagement(c) ==
    IF c.stop_work THEN Deny(STOP_WORK_ACTIVE)
    ELSE IF c.engagement_status # "active" THEN Deny("engagement_not_active")
    ELSE IF c.authorization = <<>>
         THEN IF c.engagement_type \in SELF_AUTHORIZING_TYPES THEN Allow
              ELSE Deny("authorization_missing")
    ELSE IF c.authorization[1].status # "active" THEN Deny("authorization_not_active")
    ELSE IF ~WindowOpen(c.authorization[1], c.now) THEN Deny("outside_testing_window")
    ELSE IF /\ c.authorization[1].permitted_capabilities # {}
            /\ c.capability \notin c.authorization[1].permitted_capabilities
         THEN Deny("capability_prohibited")
    ELSE Allow

evaluate(c, t) ==
    LET gate == evaluate_engagement(c)
        Hit(excluded) == \E r \in c.scope_rules : r.excluded = excluded /\ rule_matches(r, t)
    IN  IF ~gate.allowed THEN gate
        ELSE IF normalize_target(t).kind = "none" THEN Deny("scope_ambiguous")
        ELSE IF Hit(TRUE) THEN Deny("target_excluded")
        ELSE IF Hit(FALSE) THEN Allow ELSE Deny("target_out_of_scope")

\* The first target refused decides; a job without targets passes the gate alone.
evaluate_all(c, targets) ==
    LET gate == evaluate_engagement(c)
        refused == {i \in DOMAIN targets : ~evaluate(c, targets[i]).allowed}
    IN  IF ~gate.allowed THEN gate
        ELSE IF refused = {} THEN Allow
        ELSE evaluate(c, targets[CHOOSE i \in refused : \A j \in refused : i <= j])

---------------------------------------------------------------------------------
(* What enforcement.py builds from the rows, oldest authorization first: the      *)
(* newest record governs, without the capabilities its row may list.              *)

\* Mutant of GoverningAuthorization: the first record governs.
OldestAuthorization(rows) ==
    IF rows = <<>> THEN <<>>
    ELSE <<[status |-> Head(rows).status,
            window_start |-> Head(rows).window_start,
            window_end |-> Head(rows).window_end,
            permitted_capabilities |-> {}]>>

GoverningAuthorization(rows) ==
    IF rows = <<>> THEN <<>>
    ELSE <<[status |-> Last(rows).status,
            window_start |-> Last(rows).window_start,
            window_end |-> Last(rows).window_end,
            permitted_capabilities |-> {}]>>

build_input(e, capability, now) ==
    [engagement_status |-> e.engagement_status,
     engagement_type |-> e.engagement_type,
     capability |-> capability,
     now |-> now,
     stop_work |-> e.stop_work,
     authorization |-> GoverningAuthorization(e.authorizations),
     scope_rules |-> e.scope_rules]

\* check: a 403 for stop-work, None when nothing is flagged, else a warning.
check(e, capability, targets, now) ==
    LET decision == evaluate_all(build_input(e, capability, now), targets)
    IN  [outcome |-> IF decision.allowed THEN "clear"
                     ELSE IF decision.reason = STOP_WORK_ACTIVE THEN "raised" ELSE "warning",
         reason |-> decision.reason]
===============================================================================
