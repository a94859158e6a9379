---------------------------- MODULE DecisionsProofs -----------------------------
(* The pure decisions, for every engagement and target list, every spec and       *)
(* upload, and every table of cases.                                              *)
EXTENDS Decisions, AssessmentProofs, SequenceTheorems

---------------------------------------------------------------------------------
(* Scope rules. *)

\* IsPrefix, element by element.
LEMMA PrefixFacts ==
    ASSUME NEW s \in Seq(STRING), NEW t \in Seq(STRING)
    PROVE  IsPrefix(s, t) <=> StartsWith(t, s)
  <1>1. /\ Len(s) \in Nat /\ Len(t) \in Nat
        /\ DOMAIN s = 1..Len(s) /\ DOMAIN t = 1..Len(t)
    OBVIOUS
  <1>2. SubSeq(s, 1, Len(s)) = s
    OBVIOUS
  <1>3. ASSUME Len(s) <= Len(t)
        PROVE  /\ SubSeq(t, 1, Len(s)) \in Seq(STRING)
               /\ Len(SubSeq(t, 1, Len(s))) = Len(s)
               /\ \A i \in 1..Len(s) : SubSeq(t, 1, Len(s))[i] = t[i]
    BY <1>1, <1>3
  <1>4. ASSUME IsPrefix(s, t)
        PROVE  StartsWith(t, s)
    BY <1>1, <1>2, <1>3, <1>4 DEF IsPrefix, StartsWith
  <1>5. ASSUME StartsWith(t, s)
        PROVE  IsPrefix(s, t)
    <2>1. Len(s) <= Len(t)
      <3>1. CASE Len(s) = 0
        BY <1>1, <3>1
      <3>2. CASE Len(s) # 0
        <4>1. Len(s) \in DOMAIN s
          BY <1>1, <3>2
        <4> QED
          BY <1>1, <1>5, <4>1 DEF StartsWith
      <3> QED
        BY <3>1, <3>2
    <2>2. \A i \in 1..Len(s) : SubSeq(t, 1, Len(s))[i] = s[i]
      BY <1>1, <1>3, <1>5, <2>1 DEF StartsWith
    <2>3. /\ SubSeq(t, 1, Len(s)) \in Seq(STRING)
          /\ Len(SubSeq(t, 1, Len(s))) = Len(s)
      BY <1>3, <2>1
    <2>4. SubSeq(t, 1, Len(s)) = s
      <3> DEFINE u == SubSeq(t, 1, Len(s))
      <3>1. u \in Seq(STRING) /\ Len(u) = Len(s) /\ \A i \in 1..Len(u) : u[i] = s[i]
        BY <2>2, <2>3
      <3> HIDE DEF u
      <3>2. u = s
        BY <3>1, SeqEqual, Zenon
      <3> QED
        BY <3>2 DEF u
    <2> QED
      BY <1>2, <2>1, <2>4 DEF IsPrefix
  <1> QED
    BY <1>4, <1>5

\* A name is below another when it starts with it and is longer.
LEMMA BelowFacts ==
    ASSUME NEW s \in Seq(STRING), NEW t \in Seq(STRING)
    PROVE  Below(t, s) <=> s # <<>> /\ StartsWith(t, s) /\ s # t
  BY PrefixFacts DEF Below, IsStrictPrefix

\* A name starts with itself.
LEMMA StartsWithItself ==
    ASSUME NEW s
    PROVE  StartsWith(s, s)
  BY DEF StartsWith

\* A URL rule matches exactly the targets in the URL space it names.
LEMMA UrlFacts ==
    ASSUME NEW r, IsPlace(r), NEW t, IsPlace(t)
    PROVE  ListenerAgrees(r, t) /\ path_within(t.path, r.path) <=> SameUrlSpace(r, t)
  <1>1. path_within(t.path, r.path) <=> StartsWith(t.path, r.path)
    BY PrefixFacts DEF IsPlace, path_within
  <1>2. scheme_and_port(r).scheme = r.scheme /\ scheme_and_port(t).scheme = t.scheme
    BY DEF scheme_and_port
  <1>3. ListenerAgrees(r, t) <=> /\ r.scheme \in {"none", t.scheme}
                                 /\ scheme_and_port(r).port \in {0, scheme_and_port(t).port}
    BY <1>2 DEF ListenerAgrees
  <1> QED
    BY <1>1, <1>3 DEF SameUrlSpace

\* rule_matches with the target's normal form spelled out.
LEMMA MatchFacts ==
    ASSUME NEW r, NEW t
    PROVE  rule_matches(r, t) <=>
               IF r.kind = "cidr" THEN HostKind(t) = "ip" /\ t.labels \in r.net
               ELSE IF r.kind = "url" THEN /\ UrlHostAgrees(r, t.labels)
                                           /\ ListenerAgrees(r, t)
                                           /\ path_within(t.path, r.path)
               ELSE IF HostKind(t) = "ip" THEN r.ip /\ r.wild = "none" /\ r.labels = t.labels
               ELSE IF r.excluded THEN ~r.ip /\ excludes_host(r, t.labels)
               ELSE ~r.ip /\ host_matches(r, t.labels)
  <1>1. normalize_target(t).kind = HostKind(t) /\ normalize_target(t).value = t.labels
    BY DEF normalize_target
  <1> QED
    BY <1>1 DEF rule_matches

\* An exclusion matches everything it carves out.
LEMMA CarvedOutMatches ==
    ASSUME NEW r, IsPlace(r), r.ip => r.wild = "none", r.excluded, NEW t, IsPlace(t),
           CarvedOut(r, t)
    PROVE  rule_matches(r, t)
  <1>1. HostKind(t) = "ip" <=> t.ip
    BY DEF HostKind, IsPlace
  <1>2. CASE r.kind = "cidr"
    BY <1>1, <1>2, MatchFacts DEF CarvedOut
  <1>3. CASE r.kind = "url"
    BY <1>3, MatchFacts, UrlFacts DEF CarvedOut, UrlHostAgrees
  <1>4. CASE r.kind \notin {"cidr", "url"} /\ r.ip
    BY <1>1, <1>4, MatchFacts DEF CarvedOut
  <1>5. CASE r.kind \notin {"cidr", "url"} /\ ~r.ip
    <2>1. /\ r.labels # <<>> /\ ~t.ip /\ StartsWith(t.labels, r.labels)
          /\ r.wild = "*." => t.labels # r.labels
      BY <1>5 DEF CarvedOut
    <2>2. excludes_host(r, t.labels)
      BY <2>1, BelowFacts DEF excludes_host, IsPlace
    <2> QED
      BY <1>1, <1>5, <2>1, <2>2, MatchFacts
  <1> QED
    BY <1>2, <1>3, <1>4, <1>5 DEF IsPlace

\* An inclusion matches only what it states; a bare name states itself alone.
LEMMA MatchIsStated ==
    ASSUME NEW r, IsPlace(r), r.ip => r.wild = "none", ~r.excluded, NEW t, IsPlace(t),
           HostKind(t) # "none", rule_matches(r, t)
    PROVE  CarvedOut(r, t) /\ (r.kind = "domain" /\ r.wild = "none" => t.labels = r.labels)
  <1>1. HostKind(t) = "ip" <=> t.ip
    BY DEF HostKind, IsPlace
  <1>2. CASE r.kind = "cidr"
    BY <1>1, <1>2, MatchFacts DEF CarvedOut
  <1>3. CASE r.kind = "url"
    BY <1>3, MatchFacts, UrlFacts DEF CarvedOut, UrlHostAgrees
  <1>4. CASE r.kind \notin {"cidr", "url"} /\ HostKind(t) = "ip"
    BY <1>1, <1>4, MatchFacts DEF CarvedOut
  <1>5. CASE r.kind \notin {"cidr", "url"} /\ HostKind(t) # "ip"
    <2>1. ~r.ip /\ host_matches(r, t.labels)
      BY <1>5, MatchFacts
    <2>2. t.labels # <<>>
      <3> DEFINE n == Len(t.labels)
      <3>1. n >= 2
        BY <1>1, <1>5 DEF HostKind
      <3>2. t.labels \in Seq(STRING) /\ n \in Nat
        BY DEF IsPlace
      <3>3. t.labels = <<>> => n = 0
        BY <3>2, EmptySeq
      <3> HIDE DEF n
      <3>4. n # 0
        BY <3>1, <3>2
      <3> QED
        BY <3>3, <3>4, Zenon
    <2>3. /\ r.labels # <<>> /\ StartsWith(t.labels, r.labels)
          /\ r.wild = "*." => t.labels # r.labels
          /\ r.wild = "none" => t.labels = r.labels
      BY <2>1, <2>2, BelowFacts, StartsWithItself DEF host_matches, IsPlace
    <2> QED
      BY <1>1, <1>5, <2>1, <2>3 DEF CarvedOut, IsPlace
  <1> QED
    BY <1>2, <1>3, <1>4, <1>5

---------------------------------------------------------------------------------
(* The decision. *)

\* A decision is an answer with its reason.
LEMMA DecisionFacts ==
    /\ Allow.allowed = TRUE /\ Allow.reason = "allowed"
    /\ \A reason : Deny(reason).allowed = FALSE /\ Deny(reason).reason = reason
  BY DEF Allow, Deny, ALLOWED

\* Stop-work is engaged or it is not.
IsInput(c) == c.stop_work \in BOOLEAN

\* The gate opens only without stop-work, for an active engagement whose authorization
\* is in force, and names stop-work exactly when it is engaged.
LEMMA GateFacts ==
    ASSUME NEW c, IsInput(c)
    PROVE  LET gate == evaluate_engagement(c)
           IN  /\ gate.allowed \in BOOLEAN
               /\ (~gate.allowed /\ gate.reason = "stop_work_active") <=> c.stop_work
               /\ gate.allowed =>
                      /\ ~c.stop_work
                      /\ c.engagement_status = "active"
                      /\ IF c.authorization = <<>> THEN c.engagement_type = "bug_bounty"
                         ELSE /\ c.authorization[1].status = "active"
                              /\ WindowOpen(c.authorization[1], c.now)
  <1> DEFINE gate == evaluate_engagement(c)
             A == c.stop_work
             B == c.engagement_status # "active"
             C == c.authorization = <<>>
             D == c.engagement_type \in SELF_AUTHORIZING_TYPES
             F == c.authorization[1].status # "active"
             G == ~WindowOpen(c.authorization[1], c.now)
             H == /\ c.authorization[1].permitted_capabilities # {}
                  /\ c.capability \notin c.authorization[1].permitted_capabilities
  <1>1. gate = IF A THEN Deny("stop_work_active")
               ELSE IF B THEN Deny("engagement_not_active")
               ELSE IF C THEN IF D THEN Allow ELSE Deny("authorization_missing")
               ELSE IF F THEN Deny("authorization_not_active")
               ELSE IF G THEN Deny("outside_testing_window")
               ELSE IF H THEN Deny("capability_prohibited")
               ELSE Allow
    BY DEF evaluate_engagement, STOP_WORK_ACTIVE
  <1>2. D <=> c.engagement_type = "bug_bounty"
    BY DEF SELF_AUTHORIZING_TYPES
  <1>3. A \in BOOLEAN
    BY DEF IsInput
  <1> HIDE DEF gate, A, B, C, D, F, G, H
  <1>4. /\ gate.allowed \in BOOLEAN
        /\ (~gate.allowed /\ gate.reason = "stop_work_active") <=> A
        /\ gate.allowed => ~A /\ ~B /\ IF C THEN D ELSE ~F /\ ~G
    BY <1>1, <1>3, DecisionFacts
  <1> QED
    BY <1>2, <1>4 DEF gate, A, B, C, F, G

\* A target is allowed only past the gate, when it can be classified, no exclusion
\* matches it and an inclusion does.
LEMMA EvaluateFacts ==
    ASSUME NEW c, IsInput(c), NEW t
    PROVE  /\ evaluate(c, t).allowed \in BOOLEAN
           /\ ~evaluate(c, t).allowed /\ evaluate(c, t).reason = "stop_work_active" => c.stop_work
           /\ evaluate(c, t).allowed =>
                  /\ HostKind(t) # "none"
                  /\ \A r \in c.scope_rules : r.excluded = TRUE => ~rule_matches(r, t)
                  /\ \E r \in c.scope_rules : r.excluded = FALSE /\ rule_matches(r, t)
  <1> DEFINE e == evaluate(c, t)
             gate == evaluate_engagement(c)
             A == gate.allowed
             B == normalize_target(t).kind = "none"
             C == \E r \in c.scope_rules : r.excluded = TRUE /\ rule_matches(r, t)
             D == \E r \in c.scope_rules : r.excluded = FALSE /\ rule_matches(r, t)
  <1>1. e = IF ~A THEN gate
            ELSE IF B THEN Deny("scope_ambiguous")
            ELSE IF C THEN Deny("target_excluded")
            ELSE IF D THEN Allow ELSE Deny("target_out_of_scope")
    BY DEF evaluate
  <1>2. /\ gate.allowed \in BOOLEAN
        /\ ~gate.allowed /\ gate.reason = "stop_work_active" => c.stop_work
    BY GateFacts
  <1>3. B <=> HostKind(t) = "none"
    BY DEF normalize_target
  <1> HIDE DEF e, gate, B, C, D
  <1>4. /\ e.allowed \in BOOLEAN
        /\ ~e.allowed /\ e.reason = "stop_work_active" => c.stop_work
        /\ e.allowed => ~B /\ ~C /\ D
    BY <1>1, <1>2, DecisionFacts
  <1> QED
    BY <1>3, <1>4 DEF e, C, D

\* A list is allowed only when the gate is open and each of its targets is allowed; what
\* it is refused for is stop-work exactly when that is engaged.
LEMMA AllFacts ==
    ASSUME NEW c, IsInput(c), NEW S, NEW targets \in Seq(S)
    PROVE  LET d == evaluate_all(c, targets)
           IN  /\ d.allowed \in BOOLEAN
               /\ (~d.allowed /\ d.reason = "stop_work_active") <=> c.stop_work
               /\ d.allowed => /\ evaluate_engagement(c).allowed
                               /\ \A i \in DOMAIN targets : evaluate(c, targets[i]).allowed
  <1> DEFINE d == evaluate_all(c, targets)
             gate == evaluate_engagement(c)
             refused == {i \in DOMAIN targets : ~evaluate(c, targets[i]).allowed}
             first == CHOOSE i \in refused : \A j \in refused : i <= j
             worst == evaluate(c, targets[first])
             E == refused = {}
  <1>1. d = IF ~gate.allowed THEN gate ELSE IF E THEN Allow ELSE worst
    BY DEF evaluate_all
  <1>2. /\ gate.allowed \in BOOLEAN
        /\ (~gate.allowed /\ gate.reason = "stop_work_active") <=> c.stop_work
        /\ gate.allowed => ~c.stop_work
    BY GateFacts
  <1>3. ~E => first \in refused
    <2> SUFFICES ASSUME ~E PROVE \E i \in refused : \A j \in refused : i <= j
      OBVIOUS
    <2>1. refused \in SUBSET Nat
      OBVIOUS
    <2> QED
      BY <2>1, LeastNatural
  <1>4. ~E => worst.allowed = FALSE /\ (worst.reason = "stop_work_active" => c.stop_work)
    <2>1. ~E => ~worst.allowed
      BY <1>3
    <2>2. /\ worst.allowed \in BOOLEAN
          /\ ~worst.allowed /\ worst.reason = "stop_work_active" => c.stop_work
      <3>1. ASSUME NEW t
            PROVE  /\ evaluate(c, t).allowed \in BOOLEAN
                   /\ ~evaluate(c, t).allowed /\ evaluate(c, t).reason = "stop_work_active"
                          => c.stop_work
        BY EvaluateFacts
      <3> HIDE DEF first
      <3> QED
        BY <3>1
    <2> HIDE DEF worst, E
    <2> QED
      BY <2>1, <2>2
  <1>5. E => \A i \in DOMAIN targets : evaluate(c, targets[i]).allowed
    OBVIOUS
  <1> HIDE DEF d, gate, worst, E, refused
  <1>6. /\ d.allowed \in BOOLEAN
        /\ (~d.allowed /\ d.reason = "stop_work_active") <=> c.stop_work
        /\ d.allowed => gate.allowed /\ E
    BY <1>1, <1>2, <1>4, DecisionFacts
  <1> QED
    BY <1>5, <1>6 DEF d, gate

\* The rows of an engagement as the engine's input: the newest authorization, or none.
LEMMA InputFacts ==
    ASSUME NEW e \in Engagement, NEW now
    PROVE  LET c == build_input(e, "scan", now)
               rows == e.authorizations
           IN  /\ IsInput(c)
               /\ c.stop_work = e.stop_work
               /\ c.engagement_status = e.engagement_status
               /\ c.engagement_type = e.engagement_type
               /\ c.scope_rules = e.scope_rules
               /\ c.now = now
               /\ c.authorization = <<>> <=> rows = <<>>
               /\ rows # <<>> => /\ c.authorization[1].status = rows[Len(rows)].status
                                 /\ c.authorization[1].window_start = rows[Len(rows)].window_start
                                 /\ c.authorization[1].window_end = rows[Len(rows)].window_end
  <1> DEFINE rows == e.authorizations
             newest == rows[Len(rows)]
             grant == [status |-> newest.status, window_start |-> newest.window_start,
                       window_end |-> newest.window_end, permitted_capabilities |-> {}]
             governing == GoverningAuthorization(rows)
             c == build_input(e, "scan", now)
  <1>1. governing = IF rows = <<>> THEN <<>> ELSE <<grant>>
    BY DEF GoverningAuthorization, Last
  <1>2. /\ grant.status = newest.status
        /\ grant.window_start = newest.window_start
        /\ grant.window_end = newest.window_end
    OBVIOUS
  <1> HIDE DEF rows, newest, grant, governing
  <1>3. /\ governing = <<>> <=> rows = <<>>
        /\ rows # <<>> => governing[1] = grant
    BY <1>1
  <1>4. /\ c.stop_work = e.stop_work
        /\ c.engagement_status = e.engagement_status
        /\ c.engagement_type = e.engagement_type
        /\ c.scope_rules = e.scope_rules
        /\ c.now = now
        /\ c.authorization = governing
    BY DEF build_input, governing, rows
  <1>5. e.stop_work \in BOOLEAN
    BY PolicyAssumption
  <1> HIDE DEF c
  <1>6. IsInput(c)
    BY <1>4, <1>5 DEF IsInput
  <1> QED
    BY <1>2, <1>3, <1>4, <1>6 DEF rows, newest, c

\* An answer is justified, with its question spelled out.
Justified(e, targets, now, a) ==
    LET rows == e.authorizations
        newest == rows[Len(rows)]
    IN  /\ (a.outcome = "raised") = e.stop_work
        /\ a.outcome = "clear" =>
               /\ \A i \in DOMAIN targets :
                      /\ ~\E r \in e.scope_rules : r.excluded /\ CarvedOut(r, targets[i])
                      /\ \E r \in e.scope_rules :
                             /\ ~r.excluded
                             /\ CarvedOut(r, targets[i])
                             /\ r.kind = "domain" /\ r.wild = "none" =>
                                    targets[i].labels = r.labels
               /\ ~e.stop_work /\ e.engagement_status = "active"
               /\ IF rows = <<>> THEN e.engagement_type = "bug_bounty"
                  ELSE /\ newest.status = "active"
                       /\ newest.window_start = 0 \/ newest.window_start <= now
                       /\ newest.window_end = 0 \/ now <= newest.window_end

\* Every check is justified (enforcement.check).
LEMMA CheckFacts ==
    ASSUME NEW e \in Engagement, NEW targets \in TargetList, NEW now \in Instant
    PROVE  Justified(e, targets, now, check(e, "scan", targets, now))
  <1> DEFINE c == build_input(e, "scan", now)
             d == evaluate_all(c, targets)
             a == check(e, "scan", targets, now)
             rows == e.authorizations
             newest == rows[Len(rows)]
             grant == c.authorization[1]
  <1>1. /\ IsInput(c)
        /\ c.stop_work = e.stop_work
        /\ c.engagement_status = e.engagement_status
        /\ c.engagement_type = e.engagement_type
        /\ c.scope_rules = e.scope_rules
        /\ c.now = now
        /\ c.authorization = <<>> <=> rows = <<>>
        /\ rows # <<>> => /\ grant.status = newest.status
                          /\ grant.window_start = newest.window_start
                          /\ grant.window_end = newest.window_end
    BY InputFacts
  <1>2. a.outcome = IF d.allowed THEN "clear"
                    ELSE IF d.reason = "stop_work_active" THEN "raised" ELSE "warning"
    BY DEF check, STOP_WORK_ACTIVE
  <1>3. targets \in Seq(ToSet(targets)) /\ \A i \in DOMAIN targets : IsPlace(targets[i])
    BY PolicyAssumption DEF IsList
  <1>4. /\ e.stop_work \in BOOLEAN
        /\ \A r \in e.scope_rules : /\ IsPlace(r) /\ r.excluded \in BOOLEAN
                                    /\ r.ip => r.wild = "none"
    BY PolicyAssumption
  <1> HIDE DEF c, a
  <1>5. /\ d.allowed \in BOOLEAN
        /\ (~d.allowed /\ d.reason = "stop_work_active") <=> c.stop_work
        /\ d.allowed => /\ evaluate_engagement(c).allowed
                        /\ \A i \in DOMAIN targets : evaluate(c, targets[i]).allowed
    BY <1>1, <1>3, AllFacts
  <1> HIDE DEF d
  <1>6. (a.outcome = "raised") = e.stop_work /\ (a.outcome = "clear" => d.allowed)
    BY <1>1, <1>2, <1>4, <1>5
  <1>7. ASSUME d.allowed, NEW i \in DOMAIN targets
        PROVE  /\ ~\E r \in e.scope_rules : r.excluded /\ CarvedOut(r, targets[i])
               /\ \E r \in e.scope_rules :
                      /\ ~r.excluded
                      /\ CarvedOut(r, targets[i])
                      /\ r.kind = "domain" /\ r.wild = "none" => targets[i].labels = r.labels
    <2> DEFINE t == targets[i]
    <2>1. evaluate(c, t).allowed /\ IsPlace(t)
      BY <1>3, <1>5, <1>7
    <2> HIDE DEF t
    <2>2. /\ HostKind(t) # "none"
          /\ \A r \in e.scope_rules : r.excluded = TRUE => ~rule_matches(r, t)
          /\ \E r \in e.scope_rules : r.excluded = FALSE /\ rule_matches(r, t)
      BY <1>1, <2>1, EvaluateFacts
    <2>3. ASSUME NEW r \in e.scope_rules, r.excluded, CarvedOut(r, t)
          PROVE  FALSE
      BY <1>4, <2>1, <2>2, <2>3, CarvedOutMatches
    <2>4. PICK r \in e.scope_rules : r.excluded = FALSE /\ rule_matches(r, t)
      BY <2>2
    <2>5. CarvedOut(r, t) /\ (r.kind = "domain" /\ r.wild = "none" => t.labels = r.labels)
      BY <1>4, <2>1, <2>2, <2>4, MatchIsStated
    <2> QED
      BY <2>3, <2>4, <2>5 DEF t
  <1>8. ASSUME d.allowed
        PROVE  /\ ~e.stop_work /\ e.engagement_status = "active"
               /\ IF rows = <<>> THEN e.engagement_type = "bug_bounty"
                  ELSE /\ newest.status = "active"
                       /\ newest.window_start = 0 \/ newest.window_start <= now
                       /\ newest.window_end = 0 \/ now <= newest.window_end
    <2>1. /\ ~c.stop_work
          /\ c.engagement_status = "active"
          /\ IF c.authorization = <<>> THEN c.engagement_type = "bug_bounty"
             ELSE grant.status = "active" /\ WindowOpen(grant, c.now)
      BY <1>1, <1>5, <1>8, GateFacts
    <2>2. now \in Int /\ (rows # <<>> => newest.window_start \in Int /\ newest.window_end \in Int)
      <3>1. rows \in Seq(ToSet(rows))
        BY PolicyAssumption DEF IsList
      <3>2. rows # <<>> => Len(rows) \in DOMAIN rows
        BY <3>1
      <3> QED
        BY <3>2, PolicyAssumption
    <2>3. ASSUME rows # <<>>
          PROVE  /\ newest.status = "active"
                 /\ newest.window_start = 0 \/ newest.window_start <= now
                 /\ newest.window_end = 0 \/ now <= newest.window_end
      <3>1. grant.status = "active" /\ WindowOpen(grant, now)
        BY <1>1, <2>1, <2>3
      <3>2. /\ newest.window_start # 0 => ~(now < newest.window_start)
            /\ newest.window_end # 0 => ~(now > newest.window_end)
        BY <1>1, <2>3, <3>1 DEF WindowOpen
      <3> HIDE DEF newest, grant
      <3> QED
        BY <1>1, <2>2, <2>3, <3>1, <3>2
    <2> QED
      BY <1>1, <2>1, <2>3
  <1> QED
    BY <1>6, <1>7, <1>8 DEF Justified, a

---------------------------------------------------------------------------------
(* Counting the rows of an upload. *)

\* A list has finitely many rows, numbered from 1.
LEMMA ListFacts ==
    ASSUME NEW rows, IsList(rows)
    PROVE  /\ Len(rows) \in Nat /\ DOMAIN rows = 1..Len(rows)
           /\ IsFiniteSet(DOMAIN rows)
  <1>1. Len(rows) \in Nat /\ DOMAIN rows = 1..Len(rows)
    BY DEF IsList
  <1> QED
    BY <1>1, FS_Interval

\* A row that is alone in being about an identity is the one RowOf reads.
LEMMA OnceFacts ==
    ASSUME NEW rows, IsFiniteSet(DOMAIN rows), NEW id, ReportedOnce(rows, id)
    PROVE  \E k \in DOMAIN rows : /\ rows[k].identity_id = id
                                  /\ RowsOf(rows, id) = {k}
                                  /\ RowOf(rows, id) = rows[k]
  <1>1. PICK k : RowsOf(rows, id) = {k}
    <2>1. IsFiniteSet(RowsOf(rows, id))
      <3>1. RowsOf(rows, id) \subseteq DOMAIN rows
        BY DEF RowsOf
      <3> QED
        BY <3>1, FS_Subset
    <2> QED
      BY <2>1, FS_Singleton DEF ReportedOnce
  <1> QED
    BY <1>1 DEF RowsOf, RowOf

\* An upload about everybody in ids, once each and about nobody else, is as long as ids
\* is large.
LEMMA UploadCount ==
    ASSUME NEW rows, IsList(rows), NEW ids, Unexpected(rows, ids) = 0,
           \A id \in ids : ReportedOnce(rows, id)
    PROVE  Len(rows) = Cardinality(ids)
  <1> DEFINE n == Len(rows)
             f == [i \in 1..n |-> rows[i].identity_id]
             stray == {i \in DOMAIN rows : rows[i].identity_id \notin ids}
  <1>1. n \in Nat /\ DOMAIN rows = 1..n /\ IsFiniteSet(DOMAIN rows)
    BY ListFacts
  <1>2. stray = {}
    <2>1. IsFiniteSet(stray)
      <3>1. stray \subseteq DOMAIN rows
        OBVIOUS
      <3> HIDE DEF stray, n
      <3> QED
        BY <1>1, <3>1, FS_Subset
    <2>2. Cardinality(stray) = 0
      BY DEF Unexpected
    <2> HIDE DEF stray
    <2> QED
      BY <2>1, <2>2, FS_EmptySet
  <1>3. f \in [1..n -> ids]
    BY <1>1, <1>2
  <1> HIDE DEF n
  <1>4. \A a, b \in 1..n : f[a] = f[b] => a = b
    <2> SUFFICES ASSUME NEW a \in 1..n, NEW b \in 1..n, f[a] = f[b]
                 PROVE  a = b
      OBVIOUS
    <2>1. PICK k \in DOMAIN rows : RowsOf(rows, f[a]) = {k}
      <3> HIDE DEF f
      <3>1. ReportedOnce(rows, f[a])
        BY <1>3
      <3> QED
        BY <1>1, <3>1, OnceFacts
    <2>2. a \in RowsOf(rows, f[a]) /\ b \in RowsOf(rows, f[a])
      BY <1>1 DEF RowsOf
    <2> QED
      BY <2>1, <2>2
  <1>5. \A id \in ids : \E a \in 1..n : f[a] = id
    BY <1>1, OnceFacts
  <1> HIDE DEF f
  <1>6. Cardinality(ids) = n
    BY <1>1, <1>3, <1>4, <1>5, NumberedCount
  <1> QED
    BY <1>6 DEF n

---------------------------------------------------------------------------------
(* What a verdict rests on. *)

\* An upload as assess() receives it.
IsUpload(spec, executions, verified, preflight, semantic) ==
    /\ verified \in BOOLEAN
    /\ IsList(executions) /\ IsList(preflight) /\ IsList(semantic)
    /\ \A i \in DOMAIN semantic : DOMAIN semantic[i] = SemanticFields
    /\ \A id \in spec.identities : spec.expected[id] \in Seq({"allow", "deny", "skip", "unknown"})

\* A decision that can be relied on was declared once.
LEMMA DecidedFacts ==
    ASSUME NEW spec, NEW id,
           spec.expected[id] \in Seq({"allow", "deny", "skip", "unknown"}),
           DecisionFor(spec, id) \notin {"skip", "unknown"}
    PROVE  /\ Len(spec.expected[id]) = 1
           /\ DecisionFor(spec, id) \in {"allow", "deny"}
           /\ spec.expected[id] = <<DecisionFor(spec, id)>>
  <1> DEFINE said == spec.expected[id]
             D == {"allow", "deny", "skip", "unknown"}
  <1>1. Len(said) = 1 /\ DecisionFor(spec, id) = said[1]
    BY DEF DecisionFor
  <1>2. said \in Seq(D)
    OBVIOUS
  <1> HIDE DEF said
  <1>3. said[1] \in D
    <2> HIDE DEF D
    <2>1. 1 \in 1..Len(said)
      BY <1>1
    <2> QED
      BY <1>2, <2>1, ElementOfSeq, Zenon
  <1>4. said = <<said[1]>>
    <2> DEFINE one == <<said[1]>>
    <2>1. one \in Seq(D) /\ Len(said) = Len(one) /\ \A i \in 1..Len(said) : said[i] = one[i]
      BY <1>1, <1>3
    <2> HIDE DEF one
    <2>2. said = one
      BY <1>2, <2>1, SeqEqual, Zenon
    <2> QED
      BY <2>2 DEF one
  <1> QED
    BY <1>1, <1>3, <1>4 DEF said

\* A row of the semantic report, once what the contract does not name is dropped.
LEMMA SafeRowFacts ==
    ASSUME NEW r, DOMAIN r = SemanticFields
    PROVE  LET s == safe_semantic_row(r)
           IN  /\ s.identity_id = r.identity_id
               /\ s.matched_assertions = r.matched_assertions
               /\ s.verification = r.verification
               /\ s.execution_index = r.execution_index
               /\ s.reason = r.reason
               /\ s.source \in {"http_status", "response_assertion", "write_verification"} =>
                      s.source = r.source
               /\ s.decision = "allowed" <=> r.decision = "allowed"
  <1> DEFINE s == safe_semantic_row(r)
  <1>1. /\ s.identity_id = r.identity_id
        /\ s.matched_assertions = r.matched_assertions
        /\ s.verification = r.verification
        /\ s.execution_index = r.execution_index
        /\ s.reason = r.reason
    BY DEF safe_semantic_row, SemanticFields
  <1>2. /\ s.decision = EnumValue(r.decision, {"allowed", "denied", "inconclusive", "skipped"},
                                  "inconclusive")
        /\ s.source = EnumValue(r.source, {"none", "http_status", "response_assertion",
                                           "write_verification"}, "none")
    BY DEF safe_semantic_row, SemanticFields
  <1> HIDE DEF s
  <1>3. /\ s.source \in {"http_status", "response_assertion", "write_verification"} =>
               s.source = r.source
        /\ s.decision = "allowed" <=> r.decision = "allowed"
    BY <1>2 DEF EnumValue
  <1> QED
    BY <1>1, <1>3 DEF s

\* Dropping what the contract does not name moves no row to another identity.
LEMMA SafeFacts ==
    ASSUME NEW semantic, \A i \in DOMAIN semantic : DOMAIN semantic[i] = SemanticFields
    PROVE  /\ DOMAIN Safe(semantic) = DOMAIN semantic
           /\ \A i \in DOMAIN semantic : Safe(semantic)[i] = safe_semantic_row(semantic[i])
           /\ \A id : RowsOf(Safe(semantic), id) = RowsOf(semantic, id)
  <1>1. /\ DOMAIN Safe(semantic) = DOMAIN semantic
        /\ \A i \in DOMAIN semantic : Safe(semantic)[i] = safe_semantic_row(semantic[i])
    BY DEF Safe
  <1>2. \A i \in DOMAIN semantic : Safe(semantic)[i].identity_id = semantic[i].identity_id
    BY <1>1, SafeRowFacts
  <1> QED
    BY <1>1, <1>2 DEF RowsOf

\* What backs an identity, with the rule or the verifier it rests on: its one execution,
\* and a status nobody protects or the semantic row the case asks for.
LEMMA BackedFacts ==
    ASSUME NEW spec, NEW executions, NEW semantic, NEW verified, NEW id,
           Backed(spec, executions, semantic, id, verified)
    PROVE  LET actual == RowOf(executions, id)
               row == RowOf(semantic, id)
               decision == IF row.decision = "allowed" THEN "allow" ELSE "deny"
           IN  /\ ReportedOnce(executions, id)
               /\ \/ StatusBacked(spec, executions, id) /\ ~Protected(spec, id)
                  \/ /\ ReportedOnce(semantic, id)
                     /\ \/ /\ row.source = "response_assertion"
                           /\ AssertionsHold(spec, id, row, decision, actual)
                        \/ /\ row.source = "write_verification"
                           /\ WriteVerified(spec, row, decision, actual)
  <1>1. CASE StatusBacked(spec, executions, id) /\ ~Protected(spec, id)
    BY <1>1 DEF StatusBacked
  <1>2. CASE \E it : /\ SemanticBacked(spec, executions, semantic, id, verified, it)
                     /\ it.state = "evaluated" => StatusBacked(spec, executions, id)
    BY <1>2 DEF SemanticBacked, RowValid
  <1> QED
    BY <1>1, <1>2 DEF Backed

\* An identity evaluated by a semantic row is protected by what the row is bound to.
LEMMA BoundIsProtected ==
    ASSUME NEW spec, NEW id, NEW row, NEW decision, NEW actual,
           \/ AssertionsHold(spec, id, row, decision, actual)
           \/ WriteVerified(spec, row, decision, actual)
    PROVE  Protected(spec, id)
  <1>1. CASE WriteVerified(spec, row, decision, actual)
    BY <1>1 DEF WriteVerified, Protected
  <1>2. CASE AssertionsHold(spec, id, row, decision, actual)
    <2> DEFINE rules == IF Len(spec.expected[id]) = 1 THEN spec.assertions[id] ELSE <<>>
    <2>1. \E i \in row.matched_assertions : i \in DOMAIN rules
      BY <1>2 DEF AssertionsHold
    <2>2. rules # <<>>
      BY <2>1
    <2> QED
      BY <2>2 DEF Protected
  <1> QED
    BY <1>1, <1>2

\* An established preflight: every declared one passed, once each, and no other ran.
LEMMA PreflightFacts ==
    ASSUME NEW spec, NEW rows, IsList(rows), NEW verified,
           assess_preflight(spec, rows, verified).status \in {"passed", "not_configured"}
    PROVE  /\ \A id \in DOMAIN spec.preflight : ReportedOnce(rows, id)
           /\ \A i \in DOMAIN rows : rows[i].identity_id \in DOMAIN spec.preflight
           /\ \A id \in DOMAIN spec.preflight :
                  \E i \in DOMAIN rows : /\ rows[i].identity_id = id
                                         /\ rows[i].status = "passed"
           /\ Len(rows) = Cardinality(DOMAIN spec.preflight)
  <1> DEFINE declared == DOMAIN spec.preflight
             result == [i \in declared |-> PreflightOf(spec.preflight[i], rows, i, verified)]
             unexpected == Unexpected(rows, declared)
             status == assess_preflight(spec, rows, verified).status
             A == \A i \in declared : result[i] = "passed"
             B == \E i \in declared : result[i] = "failed"
             E == declared = {}
  <1>1. status = IF unexpected > 0 THEN "inconclusive"
                 ELSE IF E THEN "not_configured"
                 ELSE IF A THEN "passed"
                 ELSE IF B THEN "failed" ELSE "inconclusive"
    BY DEF assess_preflight
  <1>2. ~(unexpected > 0) /\ (E \/ A)
    <2>1. status \in {"passed", "not_configured"}
      OBVIOUS
    <2> HIDE DEF status, A, B, E, unexpected
    <2> QED
      BY <1>1, <2>1
  <1>3. unexpected = 0 /\ \A i \in DOMAIN rows : rows[i].identity_id \in declared
    <2> DEFINE stray == {i \in DOMAIN rows : rows[i].identity_id \notin declared}
    <2>1. IsFiniteSet(stray)
      <3>1. stray \subseteq DOMAIN rows
        OBVIOUS
      <3> HIDE DEF stray
      <3> QED
        BY <3>1, ListFacts, FS_Subset
    <2>2. unexpected = Cardinality(stray)
      BY DEF Unexpected
    <2> HIDE DEF stray, unexpected
    <2>3. unexpected \in Nat
      BY <2>1, <2>2, FS_CardinalityType
    <2>4. unexpected = 0
      BY <1>2, <2>3
    <2>5. stray = {}
      BY <2>1, <2>2, <2>4, FS_EmptySet
    <2> QED
      BY <2>4, <2>5 DEF stray
  <1>4. ASSUME NEW id \in declared
        PROVE  ReportedOnce(rows, id) /\ RowOf(rows, id).status = "passed"
    <2>1. PreflightOf(spec.preflight[id], rows, id, verified) = "passed"
      BY <1>2
    <2> QED
      BY <2>1 DEF PreflightOf
  <1>5. \A id \in declared : \E i \in DOMAIN rows : /\ rows[i].identity_id = id
                                                    /\ rows[i].status = "passed"
    BY <1>4, ListFacts, OnceFacts
  <1>6. Len(rows) = Cardinality(declared)
    BY <1>3, <1>4, UploadCount
  <1> QED
    BY <1>3, <1>4, <1>5, <1>6

\* What a conclusive report needs of its upload.
Settled(spec, executions, verified, preflight) ==
    /\ verified
    /\ \A id \in spec.identities : /\ Cardinality(RowsOf(executions, id)) = 1
                                   /\ spec.expected[id] \in {<<"allow">>, <<"deny">>}
    /\ Len(executions) = Cardinality(spec.identities)
    /\ \A id \in DOMAIN spec.preflight :
           \E i \in DOMAIN preflight : /\ preflight[i].identity_id = id
                                       /\ preflight[i].status = "passed"
    /\ Len(preflight) = Cardinality(DOMAIN spec.preflight)
    /\ \E i \in DOMAIN executions :
           LET row == executions[i]
           IN  /\ spec.expected[row.identity_id] = <<"allow">>
               /\ \/ Success(row.status_code) /\ row.observed_outcome = "allow"
                  \/ Protected(spec, row.identity_id)

\* The evidence an evaluated identity needs where a case protects it.
Evidenced(spec, executions, semantic, id) ==
    LET rows == RowsOf(semantic, id)
        row == semantic[CHOOSE i \in rows : TRUE]
        code == executions[CHOOSE i \in DOMAIN executions :
                    executions[i].identity_id = id].status_code
    IN  /\ Cardinality(rows) = 1
        /\ \/ /\ row.source = "response_assertion"
              /\ \A i \in row.matched_assertions :
                     LET rule == spec.assertions[id][i]
                     IN  /\ rule.status_codes = {} \/ code \in rule.status_codes
                         /\ (rule.decision = "allow") = (row.decision = "allowed")
           \/ /\ row.source = "write_verification"
              /\ Len(row.verification[1].before_statuses) = 2

\* A report is earned, with its upload spelled out.
Earned(spec, executions, verified, preflight, semantic, report) ==
    /\ report.status = "conclusive" => Settled(spec, executions, verified, preflight)
    /\ \A id \in DOMAIN report.identities :
           /\ report.identities[id].state = "evaluated"
           /\ spec.assertions[id] # <<>> \/ spec.oracle # <<>>
           => Evidenced(spec, executions, semantic, id)

\* A conclusive report is earned.
LEMMA ConclusiveFacts ==
    ASSUME NEW spec, NEW executions, NEW verified, NEW preflight, NEW semantic,
           IsUpload(spec, executions, verified, preflight, semantic), NEW report,
           ReportSound(spec, executions, verified, preflight, semantic, report),
           report.status = "conclusive"
    PROVE  Settled(spec, executions, verified, preflight)
  <1> DEFINE safe == Safe(semantic)
  <1>1. /\ spec.identities # {}
        /\ Unexpected(executions, spec.identities) = 0
        /\ \A id \in spec.identities :
               /\ report.identities[id].state = "evaluated"
               /\ verified
               /\ DecisionFor(spec, id) \notin {"skip", "unknown"}
               /\ Backed(spec, executions, safe, id, verified)
               /\ assess_preflight(spec, preflight, verified).status
                      \in {"passed", "not_configured"}
               /\ \E other \in spec.identities : DecisionFor(spec, other) = "allow"
    BY DEF ReportSound
  <1>2. /\ IsList(executions) /\ IsList(preflight)
        /\ \A id \in spec.identities :
               spec.expected[id] \in Seq({"allow", "deny", "skip", "unknown"})
    BY DEF IsUpload
  <1> HIDE DEF safe
  <1>3. ASSUME NEW id \in spec.identities
        PROVE  /\ ReportedOnce(executions, id)
               /\ spec.expected[id] = <<DecisionFor(spec, id)>>
               /\ DecisionFor(spec, id) \in {"allow", "deny"}
    <2>1. ReportedOnce(executions, id)
      BY <1>1, BackedFacts
    <2> QED
      BY <1>1, <1>2, <2>1, DecidedFacts
  <1>4. Len(executions) = Cardinality(spec.identities)
    BY <1>1, <1>2, <1>3, UploadCount
  <1>5. /\ \A id \in DOMAIN spec.preflight :
               \E i \in DOMAIN preflight : /\ preflight[i].identity_id = id
                                           /\ preflight[i].status = "passed"
        /\ Len(preflight) = Cardinality(DOMAIN spec.preflight)
    BY <1>1, <1>2, PreflightFacts
  <1>6. PICK other \in spec.identities : DecisionFor(spec, other) = "allow"
    BY <1>1
  <1>7. PICK i \in DOMAIN executions : /\ executions[i].identity_id = other
                                       /\ RowOf(executions, other) = executions[i]
    BY <1>2, <1>3, ListFacts, OnceFacts
  <1>8. \/ Success(executions[i].status_code) /\ executions[i].observed_outcome = "allow"
        \/ Protected(spec, other)
    <2>1. \/ StatusBacked(spec, executions, other)
          \/ Protected(spec, other)
      BY <1>1, BackedFacts, BoundIsProtected
    <2>2. StatusBacked(spec, executions, other) => ReportsAllow(executions[i])
      BY <1>6, <1>7 DEF StatusBacked
    <2> QED
      BY <2>1, <2>2 DEF ReportsAllow
  <1>9. spec.expected[executions[i].identity_id] = <<"allow">>
    BY <1>3, <1>6, <1>7
  <1>10. \A id \in spec.identities : /\ Cardinality(RowsOf(executions, id)) = 1
                                     /\ spec.expected[id] \in {<<"allow">>, <<"deny">>}
    BY <1>3 DEF ReportedOnce
  <1> QED
    BY <1>1, <1>4, <1>5, <1>7, <1>8, <1>9, <1>10 DEF Settled

\* An evaluated identity that a case protects has the evidence the case asks for.
LEMMA EvidenceFacts ==
    ASSUME NEW spec, NEW executions, NEW verified, NEW preflight, NEW semantic,
           IsUpload(spec, executions, verified, preflight, semantic), NEW report,
           ReportSound(spec, executions, verified, preflight, semantic, report),
           NEW id \in spec.identities, report.identities[id].state = "evaluated",
           spec.assertions[id] # <<>> \/ spec.oracle # <<>>
    PROVE  Evidenced(spec, executions, semantic, id)
  <1> DEFINE safe == Safe(semantic)
             seen == RowOf(safe, id)
             actual == RowOf(executions, id)
             decision == IF seen.decision = "allowed" THEN "allow" ELSE "deny"
             chosen == CHOOSE i \in DOMAIN executions : executions[i].identity_id = id
             row == semantic[CHOOSE i \in RowsOf(semantic, id) : TRUE]
  <1>1. /\ DecisionFor(spec, id) \notin {"skip", "unknown"}
        /\ Backed(spec, executions, safe, id, verified)
    BY DEF ReportSound
  <1>2. /\ IsList(executions) /\ IsList(semantic)
        /\ \A i \in DOMAIN semantic : DOMAIN semantic[i] = SemanticFields
        /\ spec.expected[id] \in Seq({"allow", "deny", "skip", "unknown"})
    BY DEF IsUpload
  <1>3. Len(spec.expected[id]) = 1
    BY <1>1, <1>2, DecidedFacts
  <1>4. Protected(spec, id)
    BY <1>3 DEF Protected
  <1>5. /\ ReportedOnce(executions, id)
        /\ ReportedOnce(safe, id)
        /\ \/ /\ seen.source = "response_assertion"
              /\ AssertionsHold(spec, id, seen, decision, actual)
           \/ /\ seen.source = "write_verification"
              /\ WriteVerified(spec, seen, decision, actual)
    <2> HIDE DEF safe
    <2> QED
      BY <1>1, <1>4, BackedFacts
  <1>6. /\ RowsOf(safe, id) = RowsOf(semantic, id)
        /\ DOMAIN safe = DOMAIN semantic
        /\ \A i \in DOMAIN semantic : safe[i] = safe_semantic_row(semantic[i])
    BY <1>2, SafeFacts
  <1>7. Cardinality(RowsOf(semantic, id)) = 1
    BY <1>5, <1>6 DEF ReportedOnce
  <1> HIDE DEF safe
  <1>8. PICK k \in DOMAIN semantic : RowsOf(semantic, id) = {k} /\ seen = safe[k]
    BY <1>2, <1>5, <1>6, ListFacts, OnceFacts
  <1>9. row = semantic[k]
    BY <1>8
  <1>10. DOMAIN row = SemanticFields /\ seen = safe_semantic_row(row)
    BY <1>2, <1>6, <1>8, <1>9
  <1>11. actual = executions[chosen]
    <2>1. PICK e \in DOMAIN executions : RowsOf(executions, id) = {e} /\ actual = executions[e]
      BY <1>2, <1>5, ListFacts, OnceFacts
    <2>2. \A i \in DOMAIN executions : executions[i].identity_id = id <=> i = e
      BY <2>1 DEF RowsOf
    <2> QED
      BY <2>1, <2>2
  <1> HIDE DEF row, seen, actual, chosen
  <1>12. /\ seen.matched_assertions = row.matched_assertions
         /\ seen.verification = row.verification
         /\ seen.source \in {"response_assertion", "write_verification"} => seen.source = row.source
         /\ seen.decision = "allowed" <=> row.decision = "allowed"
    BY <1>10, SafeRowFacts
  <1>13. ASSUME seen.source = "response_assertion",
                AssertionsHold(spec, id, seen, decision, actual)
         PROVE  /\ row.source = "response_assertion"
                /\ \A i \in row.matched_assertions :
                       LET rule == spec.assertions[id][i]
                       IN  /\ \/ rule.status_codes = {}
                              \/ executions[chosen].status_code \in rule.status_codes
                           /\ (rule.decision = "allow") = (row.decision = "allowed")
    <2>1. \A i \in seen.matched_assertions :
              /\ spec.assertions[id][i].decision = decision
              /\ \/ spec.assertions[id][i].status_codes = {}
                 \/ actual.status_code \in spec.assertions[id][i].status_codes
      BY <1>3, <1>13 DEF AssertionsHold
    <2>2. (decision = "allow") = (row.decision = "allowed")
      BY <1>12
    <2> HIDE DEF decision
    <2> QED
      BY <1>11, <1>12, <1>13, <2>1, <2>2
  <1>14. ASSUME seen.source = "write_verification",
                WriteVerified(spec, seen, decision, actual)
         PROVE  /\ row.source = "write_verification"
                /\ Len(row.verification[1].before_statuses) = 2
    BY <1>12, <1>14 DEF WriteVerified
  <1> QED
    BY <1>5, <1>7, <1>13, <1>14 DEF Evidenced, row, chosen

\* Every report is earned (assessments.assess).
LEMMA EarnedFacts ==
    ASSUME NEW spec, NEW executions, NEW verified, NEW preflight, NEW semantic,
           IsUpload(spec, executions, verified, preflight, semantic)
    PROVE  Earned(spec, executions, verified, preflight, semantic,
                  assess(spec, executions, verified, preflight, semantic))
  <1> DEFINE report == assess(spec, executions, verified, preflight, semantic)
  <1>1. ReportSound(spec, executions, verified, preflight, semantic, report)
    BY AssessFacts DEF IsUpload
  <1>2. DOMAIN report.identities = spec.identities
    BY <1>1 DEF ReportSound
  <1> HIDE DEF report
  <1>3. report.status = "conclusive" => Settled(spec, executions, verified, preflight)
    BY <1>1, ConclusiveFacts
  <1>4. ASSUME NEW id \in spec.identities, report.identities[id].state = "evaluated",
               spec.assertions[id] # <<>> \/ spec.oracle # <<>>
        PROVE  Evidenced(spec, executions, semantic, id)
    BY <1>1, <1>4, EvidenceFacts
  <1> QED
    BY <1>2, <1>3, <1>4 DEF Earned, report

---------------------------------------------------------------------------------
(* What a draft declares. *)

\* The image of a finite set is finite.
LEMMA ImageFinite ==
    ASSUME NEW S, IsFiniteSet(S), NEW f, S \subseteq DOMAIN f
    PROVE  IsFiniteSet({f[x] : x \in S})
  <1> DEFINE T == {f[x] : x \in S}
             g == [x \in S |-> f[x]]
  <1>1. g \in Surjection(S, T)
    BY DEF Surjection
  <1> HIDE DEF g
  <1> QED
    BY <1>1, FS_Surjection

\* A finite set without two elements has the one it is known to have.
LEMMA AtMostOne ==
    ASSUME NEW S, IsFiniteSet(S), ~(Cardinality(S) > 1), NEW x \in S
    PROVE  S = {x} /\ Established(S) = x
  <1>1. Cardinality(S) \in Nat /\ Cardinality(S) # 0
    BY FS_CardinalityType, FS_EmptySet
  <1>2. Cardinality(S) = 1
    BY <1>1
  <1>3. S = {x}
    BY <1>2, FS_Singleton
  <1> QED
    BY <1>2, <1>3 DEF Established

\* The cases of an engagement.
HasCases(db) ==
    /\ IsFiniteSet(DOMAIN db.cases)
    /\ \A c \in DOMAIN db.cases : \A id \in DOMAIN db.cases[c].who :
           db.cases[c].who[id].anonymous \in BOOLEAN

\* Finitely many cases declare an identity finitely often.
LEMMA DeclarationFacts ==
    ASSUME NEW db, HasCases(db), NEW id
    PROVE  /\ IsFiniteSet(Declarations(db, id))
           /\ \A c \in DOMAIN db.cases : id \in DOMAIN db.cases[c].who =>
                  db.cases[c].who[id] \in Declarations(db, id)
           /\ \A d \in Declarations(db, id) : d.anonymous \in BOOLEAN
  <1> DEFINE C == {c \in DOMAIN db.cases : id \in DOMAIN db.cases[c].who}
             f == [c \in C |-> db.cases[c].who[id]]
  <1>1. Declarations(db, id) = {f[c] : c \in C}
    BY DEF Declarations, Specs
  <1>2. IsFiniteSet(C)
    <2>1. C \subseteq DOMAIN db.cases
      OBVIOUS
    <2> HIDE DEF C
    <2> QED
      BY <2>1, FS_Subset DEF HasCases
  <1>3. DOMAIN f = C
    OBVIOUS
  <1>4. \A c \in C : f[c] = db.cases[c].who[id]
    OBVIOUS
  <1>5. \A c \in C : f[c].anonymous \in BOOLEAN
    BY <1>4 DEF HasCases
  <1> HIDE DEF f
  <1>6. IsFiniteSet({f[c] : c \in C})
    BY <1>2, <1>3, ImageFinite
  <1> QED
    BY <1>1, <1>4, <1>5, <1>6

\* An identity without conflicts is declared as each case that declares it says.
LEMMA MergeFacts ==
    ASSUME NEW db, HasCases(db), NEW id, Conflicts(db, id) = {},
           NEW c \in DOMAIN db.cases, id \in DOMAIN db.cases[c].who
    PROVE  LET said == db.cases[c].who[id]
           IN  /\ said.role \in {"none", Established(Declared(db, id, "role"))}
               /\ said.tenant_id \in {"none", Established(Declared(db, id, "tenant_id"))}
               /\ said.anonymous = (\A d \in Declarations(db, id) : d.anonymous)
  <1> DEFINE said == db.cases[c].who[id]
             D == Declarations(db, id)
             Roles == Declared(db, id, "role")
             Tenants == Declared(db, id, "tenant_id")
             Modes == {d.anonymous : d \in D}
  <1>1. IsFiniteSet(D) /\ said \in D /\ \A d \in D : d.anonymous \in BOOLEAN
    BY DeclarationFacts
  <1>2. /\ ~(Cardinality(Roles) > 1)
        /\ ~(Cardinality(Tenants) > 1)
        /\ ~(Cardinality(Modes) > 1)
    <2> DEFINE V(a) == IF a = "anonymous" THEN {d.anonymous : d \in D}
                       ELSE IF a = "reference" THEN {d.reference : d \in D}
                       ELSE Declared(db, id, a)
    <2>1. \A a \in {"role", "tenant_id", "anonymous", "reference"} : ~(Cardinality(V(a)) > 1)
      BY DEF Conflicts
    <2>2. V("role") = Roles /\ V("tenant_id") = Tenants /\ V("anonymous") = Modes
      OBVIOUS
    <2> HIDE DEF V
    <2> QED
      BY <2>1, <2>2
  <1> HIDE DEF D, said
  <1>3. /\ IsFiniteSet(Modes)
        /\ IsFiniteSet({d.role : d \in D})
        /\ IsFiniteSet({d.tenant_id : d \in D})
    <2> DEFINE f == [d \in D |-> d.anonymous]
               g == [d \in D |-> d.role]
               h == [d \in D |-> d.tenant_id]
    <2>1. /\ Modes = {f[d] : d \in D} /\ DOMAIN f = D
          /\ {d.role : d \in D} = {g[d] : d \in D} /\ DOMAIN g = D
          /\ {d.tenant_id : d \in D} = {h[d] : d \in D} /\ DOMAIN h = D
      OBVIOUS
    <2> HIDE DEF f, g, h
    <2>2. IsFiniteSet({f[d] : d \in D})
      BY <1>1, <2>1, ImageFinite
    <2>3. IsFiniteSet({g[d] : d \in D})
      BY <1>1, <2>1, ImageFinite
    <2>4. IsFiniteSet({h[d] : d \in D})
      BY <1>1, <2>1, ImageFinite
    <2> QED
      BY <2>1, <2>2, <2>3, <2>4
  <1>4. /\ Roles = {d.role : d \in D} \ {"none"}
        /\ Tenants = {d.tenant_id : d \in D} \ {"none"}
    BY DEF Declared, D
  <1>5. IsFiniteSet(Roles) /\ IsFiniteSet(Tenants)
    <2> DEFINE R == {d.role : d \in D}
               T == {d.tenant_id : d \in D}
    <2>1. Roles \subseteq R /\ Tenants \subseteq T /\ IsFiniteSet(R) /\ IsFiniteSet(T)
      BY <1>3, <1>4
    <2> HIDE DEF R, T, Roles, Tenants
    <2> QED
      BY <2>1, FS_Subset
  <1>6. said.role # "none" => said.role = Established(Roles)
    <2>1. said.role # "none" => said.role \in Roles
      BY <1>1, <1>4
    <2> HIDE DEF Roles
    <2> QED
      BY <1>2, <1>5, <2>1, AtMostOne
  <1>7. said.tenant_id # "none" => said.tenant_id = Established(Tenants)
    <2>1. said.tenant_id # "none" => said.tenant_id \in Tenants
      BY <1>1, <1>4
    <2> HIDE DEF Tenants
    <2> QED
      BY <1>2, <1>5, <2>1, AtMostOne
  <1>8. Modes = {said.anonymous}
    <2>1. said.anonymous \in Modes
      BY <1>1
    <2> HIDE DEF Modes
    <2> QED
      BY <1>2, <1>3, <2>1, AtMostOne
  <1>9. \A d \in D : d.anonymous = said.anonymous
    <2>1. \A d \in D : d.anonymous \in Modes
      OBVIOUS
    <2> HIDE DEF Modes
    <2> QED
      BY <1>8, <2>1
  <1>10. said.anonymous = (\A d \in D : d.anonymous)
    BY <1>1, <1>9
  <1> QED
    BY <1>6, <1>7, <1>10 DEF said, D

\* A draft contradicts no case and asks its boundary, with its question spelled out.
SoundDraft(db, k, d) ==
    /\ \A id \in DOMAIN d.declared :
       \A c \in {x \in DOMAIN db.cases : id \in DOMAIN db.cases[x].who} :
           LET said == db.cases[c].who[id]
               drafted == d.declared[id]
           IN  /\ said.role \in {"none", drafted.role}
               /\ said.tenant_id \in {"none", drafted.tenant_id}
               /\ said.anonymous = drafted.anonymous
    /\ LET settled == IF k = "higher_privilege"
                      THEN Ranked(d.role_hierarchy, d.declared[d.owner].role)
                      ELSE k = "anonymous" \/ d.object_tenant # "none"
       IN  d.owner # "none" /\ settled =>
               \A id \in d.chosen :
                   k \in classify(d.role_hierarchy, d.declared[id], d.declared[d.owner],
                                  [tenant_id |-> d.object_tenant])

\* Who classify() puts in a class.
LEMMA ClassifyFacts ==
    ASSUME NEW h, NEW subject, subject.anonymous \in BOOLEAN, NEW owner, NEW tenant
    PROVE  LET classes == classify(h, subject, owner, [tenant_id |-> tenant])
           IN  /\ subject.anonymous => "anonymous" \in classes
               /\ ~subject.anonymous =>
                      /\ Outranks(h, subject.role, owner.role) => "higher_privilege" \in classes
                      /\ tenant # "none" /\ subject.tenant_id # "none" =>
                             /\ subject.tenant_id # tenant => "cross_tenant" \in classes
                             /\ subject.tenant_id = tenant => "same_tenant_peer" \in classes
  BY DEF classify, CLASSES

\* Every draft is sound (authorization_relationships.draft_for_boundary).
LEMMA DraftFacts ==
    ASSUME NEW db, HasCases(db), NEW e, NEW k \in CLASSES
    PROVE  SoundDraft(db, k, draft_for_boundary(db, e, k))
  <1> DEFINE table == merge_identities(db)
             usable == {i \in DOMAIN table : table[i].conflicts = {}}
             named == Established(Owners(db, e))
             owner == IF named \in usable THEN named ELSE "none"
             tenants == IF owner = "none" THEN {} ELSE ResourceTenants(db, e, owner)
             object == IF owner = "none" \/ Cardinality(tenants) > 1 THEN "none"
                       ELSE IF tenants # {} THEN Established(tenants) ELSE table[owner].tenant_id
             hierarchy == IF Cardinality(Hierarchies(db)) = 1
                          THEN CHOOSE h \in Hierarchies(db) : TRUE ELSE <<>>
             pool == {i \in usable : ~table[i].anonymous /\ i # owner}
             Placed(same) == {i \in pool : /\ table[i].tenant_id # "none"
                                           /\ (table[i].tenant_id = object) = same}
             Tenanted(same) ==
                 IF object # "none" THEN Placed(same)
                 ELSE IF Cardinality(tenants) > 1 THEN {}
                 ELSE {i \in pool : table[i].tenant_id # "none"}
             R == owner # "none" /\ Ranked(hierarchy, table[owner].role)
             Higher == {i \in pool : Outranks(hierarchy, table[i].role, table[owner].role)}
             chosen ==
                 IF k = "anonymous" THEN {i \in usable : table[i].anonymous}
                 ELSE IF k = "cross_tenant" THEN Tenanted(FALSE)
                 ELSE IF k = "same_tenant_peer" THEN Tenanted(TRUE)
                 ELSE IF R THEN Higher
                 ELSE {i \in pool : Ranked(hierarchy, table[i].role)}
             spoken == chosen \cup ({owner} \ {"none"})
             Said(i) == [role |-> table[i].role, tenant_id |-> table[i].tenant_id,
                         anonymous |-> table[i].anonymous]
             d == draft_for_boundary(db, e, k)
  <1>1. /\ d.owner = owner
        /\ d.object_tenant = object
        /\ d.chosen = chosen
        /\ d.role_hierarchy = IF k = "higher_privilege" THEN hierarchy ELSE <<>>
        /\ d.declared = [i \in spoken |-> Said(i)]
    BY DEF draft_for_boundary
  <1>2. ASSUME NEW i \in usable
        PROVE  /\ Conflicts(db, i) = {}
               /\ table[i].role = Established(Declared(db, i, "role"))
               /\ table[i].tenant_id = Established(Declared(db, i, "tenant_id"))
               /\ table[i].anonymous = (\A x \in Declarations(db, i) : x.anonymous)
    BY DEF merge_identities
  <1>3. ASSUME NEW i \in usable
        PROVE  /\ table[i].anonymous \in BOOLEAN
               /\ \A c \in DOMAIN db.cases : i \in DOMAIN db.cases[c].who =>
                      /\ db.cases[c].who[i].role \in {"none", table[i].role}
                      /\ db.cases[c].who[i].tenant_id \in {"none", table[i].tenant_id}
                      /\ db.cases[c].who[i].anonymous = table[i].anonymous
    <2> HIDE DEF table
    <2> QED
      BY <1>2, MergeFacts
  <1> HIDE DEF table, hierarchy, named, tenants, object, d
  <1>4. owner = "none" \/ owner \in usable
    OBVIOUS
  <1> HIDE DEF owner
  <1>5. /\ pool \subseteq usable
        /\ Tenanted(TRUE) \subseteq pool /\ Tenanted(FALSE) \subseteq pool
        /\ Higher \subseteq pool
        /\ {i \in pool : Ranked(hierarchy, table[i].role)} \subseteq pool
    OBVIOUS
  <1>6. chosen \subseteq usable
    BY <1>5
  <1>7. \A i \in spoken : i \in usable
    BY <1>4, <1>6
  <1>8. \A i \in spoken : /\ d.declared[i].role = table[i].role
                          /\ d.declared[i].tenant_id = table[i].tenant_id
                          /\ d.declared[i].anonymous = table[i].anonymous
    <2> HIDE DEF spoken
    <2> QED
      BY <1>1
  <1>9. DOMAIN d.declared = spoken
    <2> HIDE DEF spoken
    <2> QED
      BY <1>1
  <1>10. ASSUME NEW i \in DOMAIN d.declared, NEW c \in DOMAIN db.cases,
                i \in DOMAIN db.cases[c].who
         PROVE  /\ db.cases[c].who[i].role \in {"none", d.declared[i].role}
                /\ db.cases[c].who[i].tenant_id \in {"none", d.declared[i].tenant_id}
                /\ db.cases[c].who[i].anonymous = d.declared[i].anonymous
    <2> HIDE DEF spoken, usable
    <2> QED
      BY <1>3, <1>7, <1>8, <1>9, <1>10
  <1>11. ASSUME owner # "none",
                IF k = "higher_privilege" THEN Ranked(d.role_hierarchy, d.declared[owner].role)
                ELSE k = "anonymous" \/ object # "none",
                NEW id \in chosen
         PROVE  k \in classify(d.role_hierarchy, d.declared[id], d.declared[owner],
                               [tenant_id |-> object])
    <2> DEFINE subject == d.declared[id]
               boss == d.declared[owner]
    <2>1. id \in spoken /\ owner \in spoken
      BY <1>11
    <2>2. /\ subject.role = table[id].role
          /\ subject.tenant_id = table[id].tenant_id
          /\ subject.anonymous = table[id].anonymous
          /\ boss.role = table[owner].role
      BY <1>8, <2>1
    <2>3. table[id].anonymous \in BOOLEAN
      BY <1>3, <1>6, <1>11
    <2> HIDE DEF subject, boss
    <2>4. CASE k = "anonymous"
      <3>1. subject.anonymous
        BY <1>11, <2>2, <2>4
      <3>2. "anonymous" \in classify(d.role_hierarchy, subject, boss, [tenant_id |-> object])
        BY <3>1 DEF classify
      <3> QED
        BY <2>4, <3>2 DEF subject, boss
    <2>5. CASE k = "cross_tenant"
      <3>1. object # "none"
        BY <1>11, <2>5
      <3>2. id \in Placed(FALSE)
        <4> HIDE DEF Placed
        <4>1. chosen = Tenanted(FALSE)
          BY <2>5
        <4> QED
          BY <1>11, <3>1, <4>1
      <3>3. ~table[id].anonymous /\ table[id].tenant_id # "none" /\ table[id].tenant_id # object
        BY <3>2
      <3> QED
        BY <2>2, <2>3, <2>5, <3>1, <3>3, ClassifyFacts DEF subject, boss
    <2>6. CASE k = "same_tenant_peer"
      <3>1. object # "none"
        BY <1>11, <2>6
      <3>2. id \in Placed(TRUE)
        <4> HIDE DEF Placed
        <4>1. chosen = Tenanted(TRUE)
          BY <2>6
        <4> QED
          BY <1>11, <3>1, <4>1
      <3>3. ~table[id].anonymous /\ table[id].tenant_id # "none" /\ table[id].tenant_id = object
        BY <3>2
      <3> QED
        BY <2>2, <2>3, <2>6, <3>1, <3>3, ClassifyFacts DEF subject, boss
    <2>7. CASE k = "higher_privilege"
      <3>1. d.role_hierarchy = hierarchy /\ R
        BY <1>1, <1>11, <2>2, <2>7 DEF boss
      <3>2. id \in Higher
        BY <1>11, <2>7, <3>1
      <3>3. ~table[id].anonymous /\ Outranks(hierarchy, table[id].role, table[owner].role)
        BY <3>2
      <3> QED
        BY <2>2, <2>3, <2>7, <3>1, <3>3, ClassifyFacts DEF subject, boss
    <2> QED
      BY <2>4, <2>5, <2>6, <2>7 DEF CLASSES
  <1> HIDE DEF chosen, spoken
  <1> QED
    BY <1>1, <1>10, <1>11 DEF SoundDraft, d

---------------------------------------------------------------------------------
(* The passes of assess(), as an equivalence. *)

\* The items after the semantic pass.
Second(spec, executions, semantic, verified) ==
    apply_semantics(spec, FirstPass(spec, executions), executions, Safe(semantic), verified)

\* An item the semantic pass evaluated and the credential pass keeps.
Kept(spec, items, executions, id) ==
    items[id].state = "evaluated" /\ ~CredentialRejected(spec, id, items[id], executions)

\* The credential pass leaves evaluated exactly what it keeps.
LEMMA KeptFacts ==
    ASSUME NEW spec, NEW items, AreItems(items), NEW executions, NEW id \in DOMAIN items
    PROVE  CredentialPass(spec, items, executions)[id].state = "evaluated"
               <=> Kept(spec, items, executions, id)
  <1> DEFINE item == items[id]
             up == Update(item, "inconclusive", "credential_rejected")
             C == CredentialRejected(spec, id, item, executions)
  <1>1. CredentialPass(spec, items, executions)[id] = IF C THEN up ELSE item
    BY DEF CredentialPass
  <1>2. IsItem(item)
    BY DEF AreItems
  <1>3. up.state = "inconclusive"
    BY <1>2, UpdateFacts
  <1>4. Kept(spec, items, executions, id) <=> item.state = "evaluated" /\ ~C
    BY DEF Kept
  <1> HIDE DEF up, item, C
  <1> QED
    BY <1>1, <1>3, <1>4

\* An identity is evaluated in the report exactly when its item is kept, under the frozen
\* spec and an established preflight, next to a kept caller that must be allowed.
LEMMA FinalFacts ==
    ASSUME NEW spec, NEW executions, NEW verified \in BOOLEAN, NEW preflight, NEW semantic,
           NEW id \in spec.identities
    PROVE  LET second == Second(spec, executions, semantic, verified)
           IN  assess(spec, executions, verified, preflight, semantic).identities[id].state
                       = "evaluated"
               <=> /\ verified
                   /\ assess_preflight(spec, preflight, verified).status
                          \in {"passed", "not_configured"}
                   /\ Kept(spec, second, executions, id)
                   /\ \E other \in spec.identities : /\ DecisionFor(spec, other) = "allow"
                                                     /\ Kept(spec, second, executions, other)
  <1> DEFINE report == assess(spec, executions, verified, preflight, semantic)
             session == assess_preflight(spec, preflight, verified)
             second == Second(spec, executions, semantic, verified)
             credentials == CredentialPass(spec, second, executions)
             third == UnverifiedPass(credentials, verified)
             fourth == PreflightPass(third, session)
             items == BaselinePass(fourth, verified)
             ok == session.status \in {"passed", "not_configured"}
  <1>1. report.identities = items
    BY DEF assess, Safe, Second
  <1>2. /\ DOMAIN second = spec.identities
        /\ AreItems(second)
        /\ \A x \in spec.identities : second[x].expected_decision = DecisionFor(spec, x)
    BY SemanticFacts DEF Second
  <1> HIDE DEF second, session, report
  <1>3. /\ DOMAIN credentials = spec.identities
        /\ AreItems(credentials)
        /\ \A x \in spec.identities :
               /\ credentials[x].expected_decision = DecisionFor(spec, x)
               /\ credentials[x].state = "evaluated" <=> Kept(spec, second, executions, x)
    <2>1. OnlyDemotes(second, credentials) /\ AreItems(credentials)
      BY <1>2, CredentialFacts, DemotedAreItems
    <2>2. \A x \in spec.identities :
              credentials[x].state = "evaluated" <=> Kept(spec, second, executions, x)
      BY <1>2, KeptFacts
    <2> QED
      BY <1>2, <2>1, <2>2 DEF OnlyDemotes
  <1> HIDE DEF credentials
  <1>4. /\ DOMAIN third = spec.identities
        /\ AreItems(third)
        /\ \A x \in spec.identities :
               /\ third[x].expected_decision = DecisionFor(spec, x)
               /\ third[x].state = "evaluated" <=> verified /\ Kept(spec, second, executions, x)
    <2> DEFINE demoted == DemoteWhere(credentials, {"evaluated"}, "case_snapshot_unverified")
    <2>1. /\ OnlyDemotes(credentials, demoted)
          /\ AreItems(demoted)
          /\ \A x \in DOMAIN credentials : demoted[x].state # "evaluated"
      BY <1>3, DemoteFacts, DemotedAreItems
    <2>2. third = IF verified THEN credentials ELSE demoted
      BY DEF UnverifiedPass
    <2> HIDE DEF demoted, third
    <2>3. CASE verified
      BY <1>3, <2>2, <2>3
    <2>4. CASE ~verified
      BY <1>3, <2>1, <2>2, <2>4 DEF OnlyDemotes
    <2> QED
      BY <2>3, <2>4
  <1> HIDE DEF third
  <1>5. /\ DOMAIN fourth = spec.identities
        /\ AreItems(fourth)
        /\ \A x \in spec.identities :
               /\ fourth[x].expected_decision = DecisionFor(spec, x)
               /\ fourth[x].state = "evaluated" <=>
                      ok /\ verified /\ Kept(spec, second, executions, x)
    <2> DEFINE demoted == DemoteWhere(third, {"evaluated", "inconclusive", "missing"},
                                      "identity_preflight_not_established")
    <2>1. /\ OnlyDemotes(third, demoted)
          /\ AreItems(demoted)
          /\ \A x \in DOMAIN third : demoted[x].state # "evaluated"
      BY <1>4, DemoteFacts, DemotedAreItems
    <2>2. fourth = IF ok THEN third ELSE demoted
      BY DEF PreflightPass
    <2> HIDE DEF demoted, fourth, ok
    <2>3. CASE ok
      BY <1>4, <2>2, <2>3
    <2>4. CASE ~ok
      BY <1>4, <2>1, <2>2, <2>4 DEF OnlyDemotes
    <2> QED
      BY <2>3, <2>4
  <1> HIDE DEF fourth, ok
  <1>6. BaselineValid(fourth, verified) <=>
            /\ ok /\ verified
            /\ \E other \in spec.identities : /\ DecisionFor(spec, other) = "allow"
                                              /\ Kept(spec, second, executions, other)
    BY <1>5 DEF BaselineValid
  <1>7. items[id].state = "evaluated" <=>
            BaselineValid(fourth, verified) /\ fourth[id].state = "evaluated"
    <2> DEFINE demoted == DemoteWhere(fourth, {"evaluated"}, "legitimate_baseline_missing")
    <2>1. \A x \in DOMAIN fourth : demoted[x].state # "evaluated"
      BY <1>5, DemoteFacts
    <2>2. items = IF BaselineValid(fourth, verified) THEN fourth ELSE demoted
      BY DEF BaselinePass
    <2> HIDE DEF demoted, items
    <2> QED
      BY <1>5, <2>1, <2>2
  <1> HIDE DEF items
  <1> QED
    BY <1>1, <1>5, <1>6, <1>7 DEF ok, session, second, report

---------------------------------------------------------------------------------
(* The same upload with a row sent twice. *)

\* Two lists of rows say the same of an identity.
SayTheSame(a, b, id) ==
    /\ RowsOf(a, id) = RowsOf(b, id)
    /\ ReportedOnce(a, id) => RowOf(a, id) = RowOf(b, id)

\* Uploads that say the same of an identity treat it the same.
LEMMA AgreeFacts ==
    ASSUME NEW spec, NEW x, NEW y, NEW s, NEW t, NEW verified, NEW id \in spec.identities,
           SayTheSame(x, y, id), SayTheSame(Safe(s), Safe(t), id),
           \A row : IndexAgrees(row, x, id) = IndexAgrees(row, y, id)
    PROVE  Kept(spec, Second(spec, x, s, verified), x, id)
               = Kept(spec, Second(spec, y, t, verified), y, id)
  <1> DEFINE a == FirstPass(spec, x)
             b == FirstPass(spec, y)
             c == Second(spec, x, s, verified)
             d == Second(spec, y, t, verified)
             row == RowOf(Safe(s), id)
  <1>1. ReportedOnce(x, id) = ReportedOnce(y, id)
        /\ ReportedOnce(Safe(s), id) = ReportedOnce(Safe(t), id)
    BY DEF SayTheSame, ReportedOnce
  <1>2. /\ RowsOf(x, id) = RowsOf(y, id)
        /\ ReportedOnce(x, id) => RowOf(x, id) = RowOf(y, id)
        /\ RowsOf(Safe(s), id) = RowsOf(Safe(t), id)
        /\ ReportedOnce(Safe(s), id) => row = RowOf(Safe(t), id)
    BY DEF SayTheSame
  <1>3. DOMAIN a = spec.identities /\ DOMAIN b = spec.identities
    BY DEF FirstPass
  <1>4. a[id] = b[id]
    <2>1. \A decision : FirstReason(spec, decision, x, id) = FirstReason(spec, decision, y, id)
      BY <1>1, <1>2 DEF FirstReason
    <2> QED
      BY <1>1, <1>2, <2>1 DEF FirstPass
  <1>5. \A item : ApplyRow(spec, id, item, row, x, verified)
                      = ApplyRow(spec, id, item, row, y, verified)
    BY <1>1, <1>2 DEF ApplyRow
  <1> HIDE DEF a, b, row
  <1>6. c[id] = d[id]
    BY <1>1, <1>2, <1>3, <1>4, <1>5 DEF Second, apply_semantics, a, b, row
  <1> HIDE DEF c, d
  <1>7. \A item : CredentialRejected(spec, id, item, x) = CredentialRejected(spec, id, item, y)
    BY <1>1, <1>2 DEF CredentialRejected
  <1>8. Kept(spec, c, x, id) = Kept(spec, d, y, id)
    BY <1>6, <1>7 DEF Kept
  <1> QED
    BY <1>8 DEF c, d

\* A list with its first row sent again.
Again(rows) == Append(rows, Head(rows))

LEMMA AgainFacts ==
    ASSUME NEW rows, IsList(rows), rows # <<>>
    PROVE  LET more == Again(rows)
           IN  /\ IsList(more)
               /\ 1 \in DOMAIN rows
               /\ DOMAIN more = DOMAIN rows \cup {Len(rows) + 1}
               /\ Len(rows) + 1 \notin DOMAIN rows
               /\ \A i \in DOMAIN rows : more[i] = rows[i]
               /\ more[Len(rows) + 1] = rows[1]
  <1> DEFINE S == ToSet(rows)
             more == Again(rows)
             n == Len(rows)
  <1>1. rows \in Seq(S) /\ n \in Nat /\ DOMAIN rows = 1..n
    BY ListFacts DEF IsList
  <1> HIDE DEF S
  <1>2. n # 0
    BY <1>1, EmptySeq
  <1>3. 1 \in DOMAIN rows /\ Head(rows) = rows[1] /\ rows[1] \in S
    BY <1>1, <1>2
  <1>4. /\ more \in Seq(S) /\ Len(more) = n + 1
        /\ \A i \in 1..n : more[i] = rows[i]
        /\ more[n + 1] = rows[1]
    BY <1>1, <1>3, AppendProperties DEF Again
  <1>5. DOMAIN more = 1..(n + 1)
    BY <1>1, <1>4
  <1> HIDE DEF more, n
  <1>6. IsList(more)
    <2>1. ToSet(more) = {more[i] : i \in 1..(n + 1)}
      BY <1>5 DEF ToSet
    <2>2. more \in [1..(n + 1) -> ToSet(more)]
      <3>1. more = [i \in 1..(n + 1) |-> more[i]]
        BY <1>4, <1>5
      <3> QED
        BY <2>1, <3>1
    <2>3. n + 1 \in Nat
      BY <1>1
    <2> QED
      BY <2>2, <2>3, SeqDef DEF IsList
  <1>7. 1..(n + 1) = 1..n \cup {n + 1} /\ n + 1 \notin 1..n
    BY <1>1
  <1> QED
    BY <1>1, <1>3, <1>4, <1>5, <1>6, <1>7 DEF more, n

\* more is rows with its first row at n as well.
Repeats(rows, more, n) ==
    /\ IsFiniteSet(DOMAIN more)
    /\ 1 \in DOMAIN rows /\ n \notin DOMAIN rows
    /\ DOMAIN more = DOMAIN rows \cup {n}
    /\ \A i \in DOMAIN rows : more[i] = rows[i]
    /\ more[n] = rows[1]

\* A list sent with a row twice repeats it, before and after it is made safe.
LEMMA RepeatsFacts ==
    ASSUME NEW rows, IsList(rows), rows # <<>>
    PROVE  /\ Repeats(rows, Again(rows), Len(rows) + 1)
           /\ Repeats(Safe(rows), Safe(Again(rows)), Len(rows) + 1)
  <1> DEFINE more == Again(rows)
             n == Len(rows) + 1
  <1>1. /\ IsList(more)
        /\ 1 \in DOMAIN rows
        /\ DOMAIN more = DOMAIN rows \cup {n}
        /\ n \notin DOMAIN rows
        /\ \A i \in DOMAIN rows : more[i] = rows[i]
        /\ more[n] = rows[1]
    BY AgainFacts
  <1>2. IsFiniteSet(DOMAIN more)
    BY <1>1, ListFacts
  <1> HIDE DEF more, n
  <1>3. Repeats(rows, more, n)
    BY <1>1, <1>2 DEF Repeats
  <1>4. /\ DOMAIN Safe(rows) = DOMAIN rows /\ DOMAIN Safe(more) = DOMAIN more
        /\ \A i \in DOMAIN rows : Safe(rows)[i] = safe_semantic_row(rows[i])
        /\ \A i \in DOMAIN more : Safe(more)[i] = safe_semantic_row(more[i])
    BY DEF Safe
  <1>5. Repeats(Safe(rows), Safe(more), n)
    BY <1>1, <1>2, <1>4 DEF Repeats
  <1> QED
    BY <1>3, <1>5 DEF more, n

\* The repeated identity is ambiguous; nobody else is affected.
LEMMA RepeatedRows ==
    ASSUME NEW rows, NEW more, NEW n, Repeats(rows, more, n), NEW id
    PROVE  /\ id # rows[1].identity_id => SayTheSame(more, rows, id)
           /\ id = rows[1].identity_id => RowsOf(more, id) # {} /\ ~ReportedOnce(more, id)
  <1>1. ASSUME id # rows[1].identity_id
        PROVE  SayTheSame(more, rows, id)
    <2>1. RowsOf(more, id) = RowsOf(rows, id)
      BY <1>1 DEF Repeats, RowsOf
    <2>2. ASSUME ReportedOnce(more, id)
          PROVE  RowOf(more, id) = RowOf(rows, id)
      <3>1. PICK k \in DOMAIN more : RowsOf(more, id) = {k}
        BY <2>2, OnceFacts DEF Repeats
      <3>2. k \in DOMAIN rows
        BY <2>1, <3>1 DEF RowsOf
      <3>3. RowOf(more, id) = more[k] /\ RowOf(rows, id) = rows[k]
        BY <2>1, <3>1 DEF RowOf
      <3> QED
        BY <3>2, <3>3 DEF Repeats
    <2> QED
      BY <2>1, <2>2 DEF SayTheSame
  <1>2. ASSUME id = rows[1].identity_id
        PROVE  RowsOf(more, id) # {} /\ ~ReportedOnce(more, id)
    <2>1. 1 \in RowsOf(more, id) /\ n \in RowsOf(more, id) /\ n # 1
      BY <1>2 DEF Repeats, RowsOf
    <2>2. IsFiniteSet(DOMAIN more)
      BY DEF Repeats
    <2>3. ~ReportedOnce(more, id)
      BY <2>1, <2>2, OnceFacts
    <2> QED
      BY <2>1, <2>3
  <1> QED
    BY <1>1, <1>2

\* What the semantic pass evaluates is backed.
LEMMA KeptIsBacked ==
    ASSUME NEW spec, NEW executions, NEW semantic, NEW verified, NEW id \in spec.identities,
           Kept(spec, Second(spec, executions, semantic, verified), executions, id)
    PROVE  Backed(spec, executions, Safe(semantic), id, verified)
  <1>1. Second(spec, executions, semantic, verified)[id].state = "evaluated"
    BY DEF Kept
  <1> QED
    BY <1>1, SemanticFacts DEF Second

\* Sending an execution twice keeps no identity it did not keep before.
LEMMA RepeatedExecution ==
    ASSUME NEW spec, NEW executions, IsList(executions), executions # <<>>, NEW semantic,
           NEW verified, NEW id \in spec.identities,
           Kept(spec, Second(spec, Again(executions), semantic, verified), Again(executions), id)
    PROVE  Kept(spec, Second(spec, executions, semantic, verified), executions, id)
  <1> DEFINE more == Again(executions)
             n == Len(executions) + 1
  <1>1. Repeats(executions, more, n)
    BY RepeatsFacts
  <1>2. ReportedOnce(more, id)
    BY KeptIsBacked, BackedFacts
  <1> HIDE DEF more, n
  <1>3. id # executions[1].identity_id /\ SayTheSame(more, executions, id)
    BY <1>1, <1>2, RepeatedRows
  <1>4. SayTheSame(Safe(semantic), Safe(semantic), id)
    BY DEF SayTheSame
  <1>5. \A row : IndexAgrees(row, more, id) = IndexAgrees(row, executions, id)
    BY <1>1, <1>3 DEF IndexAgrees, Repeats
  <1> QED
    BY <1>3, <1>4, <1>5, AgreeFacts DEF more

\* Sending a semantic row twice keeps no identity it did not keep before.
LEMMA RepeatedSemantic ==
    ASSUME NEW spec, NEW executions, NEW semantic, IsList(semantic), semantic # <<>>,
           \A i \in DOMAIN semantic : DOMAIN semantic[i] = SemanticFields,
           NEW verified, NEW id \in spec.identities,
           Kept(spec, Second(spec, executions, Again(semantic), verified), executions, id)
    PROVE  Kept(spec, Second(spec, executions, semantic, verified), executions, id)
  <1> DEFINE more == Again(semantic)
             n == Len(semantic) + 1
  <1>1. Repeats(Safe(semantic), Safe(more), n)
    BY RepeatsFacts
  <1>2. RowsOf(Safe(more), id) = {} \/ ReportedOnce(Safe(more), id)
    BY KeptIsBacked DEF Backed, SemanticBacked
  <1> HIDE DEF more, n
  <1>3. SayTheSame(Safe(more), Safe(semantic), id)
    BY <1>1, <1>2, RepeatedRows
  <1>4. SayTheSame(executions, executions, id)
    BY DEF SayTheSame
  <1> QED
    BY <1>3, <1>4, AgreeFacts DEF more

\* A preflight sent twice establishes nothing.
LEMMA RepeatedPreflight ==
    ASSUME NEW spec, NEW preflight, IsList(preflight), preflight # <<>>, NEW verified
    PROVE  assess_preflight(spec, Again(preflight), verified).status
               \notin {"passed", "not_configured"}
  <1> DEFINE more == Again(preflight)
             n == Len(preflight) + 1
  <1> SUFFICES ASSUME assess_preflight(spec, more, verified).status
                          \in {"passed", "not_configured"}
               PROVE  FALSE
    OBVIOUS
  <1>1. Repeats(preflight, more, n) /\ IsList(more)
    BY RepeatsFacts, AgainFacts
  <1> HIDE DEF more, n
  <1> DEFINE who == preflight[1].identity_id
  <1>2. ~ReportedOnce(more, who) /\ 1 \in DOMAIN more /\ more[1].identity_id = who
    BY <1>1, RepeatedRows DEF Repeats
  <1>3. /\ \A id \in DOMAIN spec.preflight : ReportedOnce(more, id)
        /\ \A i \in DOMAIN more : more[i].identity_id \in DOMAIN spec.preflight
    BY <1>1, PreflightFacts
  <1> QED
    BY <1>2, <1>3

\* One report is at most as complete as another when it evaluates nobody else and the
\* other has no undeclared execution that it has not.
LEMMA RankFacts ==
    ASSUME NEW items, NEW u, NEW fewer, NEW v, DOMAIN fewer = DOMAIN items, v = 0 => u = 0,
           \A id \in DOMAIN items : fewer[id].state = "evaluated" => items[id].state = "evaluated"
    PROVE  StatusRank(Verdict(fewer, v)) <= StatusRank(Verdict(items, u))
  <1> DEFINE E == {id \in DOMAIN items : items[id].state = "evaluated"}
             F == {id \in DOMAIN fewer : fewer[id].state = "evaluated"}
             some == DOMAIN items # {}
  <1>1. F \subseteq E /\ E \subseteq DOMAIN items
    OBVIOUS
  <1>2. /\ Verdict(items, u) = IF some /\ E = DOMAIN items /\ u = 0 THEN "conclusive"
                               ELSE IF E # {} THEN "partial" ELSE "inconclusive"
        /\ Verdict(fewer, v) = IF some /\ F = DOMAIN items /\ v = 0 THEN "conclusive"
                               ELSE IF F # {} THEN "partial" ELSE "inconclusive"
    BY DEF Verdict
  <1> HIDE DEF E, F, some
  <1>3. \/ some /\ E = DOMAIN items /\ u = 0
        \/ ~(some /\ F = DOMAIN items /\ v = 0) /\ (F # {} => E # {})
    BY <1>1
  <1>4. \/ Verdict(items, u) = "conclusive"
        \/ Verdict(fewer, v) = "partial" /\ Verdict(items, u) = "partial"
        \/ Verdict(fewer, v) = "inconclusive"
    BY <1>2, <1>3
  <1>5. Verdict(fewer, v) \in {"conclusive", "partial", "inconclusive"}
    BY <1>2
  <1>6. /\ StatusRank("conclusive") = 2 /\ StatusRank("partial") = 1
        /\ StatusRank("inconclusive") = 0
    BY DEF StatusRank
  <1>7. 0 <= 2 /\ 1 <= 2 /\ 2 <= 2 /\ 1 <= 1 /\ 0 <= 1 /\ 0 <= 0
    OBVIOUS
  <1>8. StatusRank(Verdict(items, u)) \in {0, 1, 2}
    BY <1>2, <1>6
  <1> QED
    BY <1>4, <1>5, <1>6, <1>7, <1>8

\* The status of a report is its verdict.
LEMMA StatusFacts ==
    ASSUME NEW spec, NEW x, NEW verified, NEW p, NEW m
    PROVE  LET report == assess(spec, x, verified, p, m)
           IN  report.status = Verdict(report.identities, Unexpected(x, spec.identities))
  BY DEF assess

\* An upload with one row sent twice is never judged more complete.
LEMMA ExtraRowFacts ==
    ASSUME NEW spec, NEW x, NEW verified, NEW p, NEW m, IsUpload(spec, x, verified, p, m),
           NEW y, NEW q, NEW o,
           \/ x # <<>> /\ y = Again(x) /\ q = p /\ o = m
           \/ y = x /\ q = p /\ m # <<>> /\ o = Again(m)
           \/ y = x /\ p # <<>> /\ q = Again(p) /\ o = m
    PROVE  StatusRank(assess(spec, y, verified, q, o).status)
               <= StatusRank(assess(spec, x, verified, p, m).status)
  <1> DEFINE before == assess(spec, x, verified, p, m)
             after == assess(spec, y, verified, q, o)
             second == Second(spec, x, m, verified)
             again == Second(spec, y, o, verified)
             ids == spec.identities
  <1>1. /\ verified \in BOOLEAN
        /\ IsList(x) /\ IsList(p) /\ IsList(m)
        /\ \A i \in DOMAIN m : DOMAIN m[i] = SemanticFields
    BY DEF IsUpload
  <1>2. /\ before.status = Verdict(before.identities, Unexpected(x, ids))
        /\ after.status = Verdict(after.identities, Unexpected(y, ids))
    BY StatusFacts
  <1>3. DOMAIN before.identities = ids /\ DOMAIN after.identities = ids
    <2>1. /\ ReportSound(spec, x, verified, p, m, before)
          /\ ReportSound(spec, y, verified, q, o, after)
      BY <1>1, AssessFacts
    <2> HIDE DEF before, after
    <2> QED
      BY <2>1 DEF ReportSound
  <1>4. Unexpected(y, ids) = 0 => Unexpected(x, ids) = 0
    <2>1. CASE y = x
      BY <2>1
    <2>2. CASE x # <<>> /\ y = Again(x)
      <3> DEFINE few == {i \in DOMAIN x : x[i].identity_id \notin ids}
                 many == {i \in DOMAIN y : y[i].identity_id \notin ids}
      <3>1. Repeats(x, y, Len(x) + 1)
        BY <1>1, <2>2, RepeatsFacts
      <3>2. few \subseteq many /\ many \subseteq DOMAIN y /\ IsFiniteSet(DOMAIN y)
        BY <3>1 DEF Repeats
      <3>3. Unexpected(x, ids) = Cardinality(few) /\ Unexpected(y, ids) = Cardinality(many)
        BY DEF Unexpected
      <3> HIDE DEF few, many
      <3>4. IsFiniteSet(many) /\ IsFiniteSet(few)
        BY <3>2, FS_Subset
      <3> QED
        BY <3>2, <3>3, <3>4, FS_EmptySet
    <2> QED
      BY <2>1, <2>2
  <1>5. ASSUME NEW id \in ids, Kept(spec, again, y, id)
        PROVE  Kept(spec, second, x, id)
    <2>1. CASE x # <<>> /\ y = Again(x) /\ o = m
      BY <1>1, <1>5, <2>1, RepeatedExecution
    <2>2. CASE y = x /\ m # <<>> /\ o = Again(m)
      BY <1>1, <1>5, <2>2, RepeatedSemantic
    <2>3. CASE y = x /\ o = m
      BY <1>5, <2>3
    <2> QED
      BY <2>1, <2>2, <2>3
  <1>6. assess_preflight(spec, q, verified).status \in {"passed", "not_configured"} => q = p
    BY <1>1, RepeatedPreflight
  <1>7. ASSUME NEW id \in ids, after.identities[id].state = "evaluated"
        PROVE  before.identities[id].state = "evaluated"
    <2>1. /\ verified
          /\ assess_preflight(spec, q, verified).status \in {"passed", "not_configured"}
          /\ Kept(spec, again, y, id)
          /\ \E other \in ids : DecisionFor(spec, other) = "allow" /\ Kept(spec, again, y, other)
      <3> HIDE DEF again
      <3> QED
        BY <1>1, <1>7, FinalFacts DEF again
    <2>2. /\ verified
          /\ assess_preflight(spec, p, verified).status \in {"passed", "not_configured"}
          /\ Kept(spec, second, x, id)
          /\ \E other \in ids : DecisionFor(spec, other) = "allow" /\ Kept(spec, second, x, other)
      <3> HIDE DEF again, second
      <3> QED
        BY <1>5, <1>6, <2>1
    <2>3. before.identities[id].state = "evaluated" <=>
              /\ verified
              /\ assess_preflight(spec, p, verified).status \in {"passed", "not_configured"}
              /\ Kept(spec, second, x, id)
              /\ \E other \in ids : /\ DecisionFor(spec, other) = "allow"
                                    /\ Kept(spec, second, x, other)
      BY <1>1, FinalFacts
    <2> HIDE DEF before, second
    <2> QED
      BY <2>2, <2>3
  <1> HIDE DEF before, after
  <1>8. StatusRank(after.status) <= StatusRank(before.status)
    BY <1>2, <1>3, <1>4, <1>7, RankFacts
  <1> QED
    BY <1>8 DEF before, after

---------------------------------------------------------------------------------
(* Questions and answers. *)

AssessFields == {"topic", "spec", "executions", "verified", "preflight", "semantic"}

\* A question is one that can be asked, and its answer, once given, is the code's.
Posed ==
    /\ question.topic \in {"policy", "assess", "repeat", "draft"}
    /\ question.topic = "policy" =>
           /\ question.engagement \in Engagement
           /\ question.targets \in TargetList
           /\ question.now \in Instant
           /\ answer = NoAnswer \/ answer = Checked(question)
    /\ question.topic \in {"assess", "repeat"} =>
           /\ DOMAIN question = AssessFields
           /\ IsUpload(question.spec, question.executions, question.verified,
                       question.preflight, question.semantic)
           /\ answer = NoAnswer \/ answer = Assessed(question)
    /\ question.topic = "draft" =>
           /\ question.cases \in CaseTable
           /\ answer = NoAnswer \/ answer = DraftsFor(question)

\* An upload stays one when a row is sent twice.
LEMMA RepeatedUpload ==
    ASSUME NEW spec, NEW x, NEW verified, NEW p, NEW m, IsUpload(spec, x, verified, p, m)
    PROVE  /\ x # <<>> => IsUpload(spec, Again(x), verified, p, m)
           /\ p # <<>> => IsUpload(spec, x, verified, Again(p), m)
           /\ m # <<>> => IsUpload(spec, x, verified, p, Again(m))
  <1>1. x # <<>> => IsList(Again(x))
    BY AgainFacts DEF IsUpload
  <1>2. p # <<>> => IsList(Again(p))
    BY AgainFacts DEF IsUpload
  <1>3. ASSUME m # <<>>
        PROVE  /\ IsList(Again(m))
               /\ \A i \in DOMAIN Again(m) : DOMAIN Again(m)[i] = SemanticFields
    <2> DEFINE more == Again(m)
               n == Len(m) + 1
    <2>1. /\ IsList(more)
          /\ 1 \in DOMAIN m
          /\ DOMAIN more = DOMAIN m \cup {n}
          /\ \A i \in DOMAIN m : more[i] = m[i]
          /\ more[n] = m[1]
      BY <1>3, AgainFacts DEF IsUpload
    <2> HIDE DEF more, n
    <2>2. \A i \in DOMAIN more : DOMAIN more[i] = SemanticFields
      BY <2>1 DEF IsUpload
    <2> QED
      BY <2>1, <2>2 DEF more
  <1> QED
    BY <1>1, <1>2, <1>3 DEF IsUpload

\* The question a repetition asks, and what it repeats.
LEMMA RepeatFacts ==
    ASSUME Posed, RepeatRow
    PROVE  /\ question'.topic = "repeat"
           /\ DOMAIN question' = AssessFields
           /\ question'.spec = question.spec /\ question'.verified = question.verified
           /\ LET x == question.executions
                  p == question.preflight
                  m == question.semantic
                  y == question'.executions
                  q == question'.preflight
                  o == question'.semantic
              IN  \/ x # <<>> /\ y = Again(x) /\ q = p /\ o = m
                  \/ y = x /\ q = p /\ m # <<>> /\ o = Again(m)
                  \/ y = x /\ p # <<>> /\ q = Again(p) /\ o = m
  <1>1. DOMAIN question = AssessFields
    BY DEF Posed, RepeatRow
  <1>2. PICK field \in {"executions", "semantic", "preflight"} :
            /\ question[field] # <<>>
            /\ question' = [question EXCEPT ![field] = Append(@, Head(@)), !.topic = "repeat"]
    BY DEF RepeatRow
  <1>3. CASE field = "executions"
    BY <1>1, <1>2, <1>3 DEF AssessFields, Again
  <1>4. CASE field = "semantic"
    BY <1>1, <1>2, <1>4 DEF AssessFields, Again
  <1>5. CASE field = "preflight"
    BY <1>1, <1>2, <1>5 DEF AssessFields, Again
  <1> QED
    BY <1>2, <1>3, <1>4, <1>5

\* The first question can be asked.
LEMMA PosedInit == DecisionsInit => Posed
  <1> SUFFICES ASSUME DecisionsInit PROVE Posed
    OBVIOUS
  <1>1. answer = NoAnswer
    BY DEF DecisionsInit
  <1>2. ASSUME NEW e \in Engagement, NEW ts \in TargetList, NEW now \in Instant,
               question = [topic |-> "policy", engagement |-> e, targets |-> ts, now |-> now]
        PROVE  Posed
    BY <1>1, <1>2 DEF Posed
  <1>3. ASSUME NEW s \in AssessSpec, NEW x \in ExecutionList, NEW v \in BOOLEAN,
               NEW p \in PreflightList, NEW m \in SemanticList,
               question = [topic |-> "assess", spec |-> s, executions |-> x, verified |-> v,
                           preflight |-> p, semantic |-> m]
        PROVE  Posed
    <2>1. IsUpload(s, x, v, p, m)
      BY AssessAssumption DEF IsUpload
    <2>2. /\ question.topic = "assess" /\ DOMAIN question = AssessFields
          /\ question.spec = s /\ question.executions = x /\ question.verified = v
          /\ question.preflight = p /\ question.semantic = m
      BY <1>3 DEF AssessFields
    <2> QED
      BY <1>1, <2>1, <2>2 DEF Posed
  <1>4. ASSUME NEW t \in CaseTable, NEW e \in Operation,
               question = [topic |-> "draft", cases |-> t, endpoint |-> e]
        PROVE  Posed
    BY <1>1, <1>4 DEF Posed
  <1> QED
    BY <1>2, <1>3, <1>4 DEF DecisionsInit

\* Every step answers the question, or asks one that can be asked.
LEMMA PosedInductive == Posed /\ [DecisionsNext]_decisionVars => Posed'
  <1> SUFFICES ASSUME Posed, [DecisionsNext]_decisionVars PROVE Posed'
    OBVIOUS
  <1>1. CASE AnswerPolicy
    BY <1>1 DEF Posed, AnswerPolicy, Checked
  <1>2. CASE AnswerAssessment
    BY <1>2 DEF Posed, AnswerAssessment, Assessed
  <1>3. CASE AnswerDraft
    BY <1>3 DEF Posed, AnswerDraft, DraftsFor
  <1>4. CASE RepeatRow
    <2>1. IsUpload(question.spec, question.executions, question.verified,
                   question.preflight, question.semantic)
      BY <1>4 DEF Posed, RepeatRow
    <2>2. IsUpload(question'.spec, question'.executions, question'.verified,
                   question'.preflight, question'.semantic)
      BY <1>4, <2>1, RepeatFacts, RepeatedUpload
    <2>3. answer' = Assessed(question')
      BY <1>4 DEF RepeatRow
    <2>4. question'.topic = "repeat" /\ DOMAIN question' = AssessFields
      BY <1>4, RepeatFacts
    <2> QED
      BY <2>2, <2>3, <2>4 DEF Posed, AssessFields
  <1>5. CASE UNCHANGED decisionVars
    BY <1>5 DEF Posed, decisionVars, Checked, Assessed, DraftsFor
  <1> QED
    BY <1>1, <1>2, <1>3, <1>4, <1>5 DEF DecisionsNext

\* Every state holds a question that can be asked, with the code's answer or none.
LEMMA PosedAlways == DecisionsSpec => []Posed
  <1> QED
    BY PosedInit, PosedInductive, PTL DEF DecisionsSpec

\* For every engagement, scope, authorization history, target list and instant, a check that
\* comes back clear is justified (enforcement.check over policy.evaluate_all).
THEOREM ClearTheorem == DecisionsSpec => []ClearIsJustified
  <1>1. Posed => ClearIsJustified
    <2> SUFFICES ASSUME Posed, question.topic = "policy", answer # NoAnswer
                 PROVE  CarveOutsHold /\ AllowedIsStated /\ NewestAuthorityGoverns
      BY DEF ClearIsJustified, CarveOutsHold, AllowedIsStated, NewestAuthorityGoverns
    <2>1. Justified(question.engagement, question.targets, question.now, answer)
      <3>1. /\ question.engagement \in Engagement
            /\ question.targets \in TargetList
            /\ question.now \in Instant
            /\ answer = check(question.engagement, "scan", question.targets, question.now)
        BY DEF Posed, Checked
      <3> QED
        BY <3>1, CheckFacts
    <2>2. CarveOutsHold
      BY <2>1 DEF Justified, CarveOutsHold
    <2>3. AllowedIsStated
      BY <2>1 DEF Justified, AllowedIsStated
    <2>4. NewestAuthorityGoverns
      BY <2>1 DEF Justified, NewestAuthorityGoverns
    <2> QED
      BY <2>2, <2>3, <2>4
  <1> QED
    BY <1>1, PosedAlways, PTL

\* For every spec and upload, a conclusive report is earned and a protected identity has its
\* evidence (assessments.assess).
THEOREM VerdictTheorem == DecisionsSpec => []VerdictIsEarned
  <1>1. Posed => VerdictIsEarned
    <2> SUFFICES ASSUME Posed, Answered
                 PROVE  ConclusiveIsEarned /\ ProtectedNeedsEvidence
      BY DEF VerdictIsEarned, ConclusiveIsEarned, ProtectedNeedsEvidence
    <2>1. Earned(question.spec, question.executions, question.verified, question.preflight,
                 question.semantic, answer)
      <3>1. /\ IsUpload(question.spec, question.executions, question.verified,
                        question.preflight, question.semantic)
            /\ answer = assess(question.spec, question.executions, question.verified,
                               question.preflight, question.semantic)
        BY DEF Posed, Answered, Assessed
      <3> QED
        BY <3>1, EarnedFacts
    <2>2. ConclusiveIsEarned
      BY <2>1 DEF Earned, Settled, ConclusiveIsEarned, Times, RowsOf
    <2>3. ProtectedNeedsEvidence
      BY <2>1 DEF Earned, Evidenced, ProtectedNeedsEvidence, RowsOf
    <2> QED
      BY <2>2, <2>3
  <1> QED
    BY <1>1, PosedAlways, PTL

\* For every table of cases and every operation, each draft contradicts no case and asks its
\* boundary (authorization_relationships.draft_for_boundary).
THEOREM DraftTheorem == DecisionsSpec => []DraftIsSound
  <1>1. Posed => DraftIsSound
    <2> SUFFICES ASSUME Posed, Drafted
                 PROVE  DraftContradictsNoCase /\ DraftAsksItsBoundary
      BY DEF DraftIsSound, DraftContradictsNoCase, DraftAsksItsBoundary
    <2> DEFINE db == DraftDb(question)
    <2>1. db.cases = question.cases
      BY DEF DraftDb
    <2>2. HasCases(db)
      <3>1. question.cases \in CaseTable
        BY DEF Posed, Drafted
      <3> HIDE DEF db
      <3> QED
        BY <2>1, <3>1, DraftAssumption DEF HasCases
    <2>3. ASSUME NEW k \in CLASSES
          PROVE  SoundDraft(db, k, answer[k])
      <3>1. answer[k] = draft_for_boundary(db, question.endpoint, k)
        BY DEF Posed, Drafted, DraftsFor
      <3> HIDE DEF db
      <3> QED
        BY <2>2, <3>1, DraftFacts
    <2> HIDE DEF db
    <2>4. DraftContradictsNoCase
      BY <2>1, <2>3 DEF SoundDraft, DraftContradictsNoCase
    <2>5. DraftAsksItsBoundary
      BY <2>3 DEF SoundDraft, DraftAsksItsBoundary
    <2> QED
      BY <2>4, <2>5
  <1> QED
    BY <1>1, PosedAlways, PTL

\* For every spec and upload, sending a row twice never makes the report more complete
\* (assessments.assess, all passes).
THEOREM ExtraReportsTheorem == DecisionsSpec => ExtraReportsNeverHelp
  <1>1. ASSUME Posed, [DecisionsNext]_decisionVars
        PROVE  [question'.topic = "repeat" =>
                    StatusRank(answer'.status) <= StatusRank(answer.status)]_decisionVars
    <2> SUFFICES ASSUME DecisionsNext, question'.topic = "repeat"
                 PROVE  StatusRank(answer'.status) <= StatusRank(answer.status)
      BY <1>1
    <2>1. RepeatRow
      BY DEF DecisionsNext, AnswerPolicy, AnswerAssessment, AnswerDraft
    <2>2. /\ IsUpload(question.spec, question.executions, question.verified,
                      question.preflight, question.semantic)
          /\ answer = assess(question.spec, question.executions, question.verified,
                             question.preflight, question.semantic)
      BY <1>1, <2>1 DEF Posed, RepeatRow, Assessed
    <2>3. answer' = assess(question'.spec, question'.executions, question'.verified,
                           question'.preflight, question'.semantic)
      BY <2>1 DEF RepeatRow, Assessed
    <2> QED
      BY <1>1, <2>1, <2>2, <2>3, RepeatFacts, ExtraRowFacts
  <1> QED
    BY <1>1, PosedAlways, PTL DEF DecisionsSpec, ExtraReportsNeverHelp
===============================================================================
