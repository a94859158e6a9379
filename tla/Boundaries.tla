------------------------------- MODULE Boundaries -------------------------------
(* Which authorization boundaries the reviewed cases leave unevaluated, and the   *)
(* review-only draft that asks about one (authorization_relationships.py).        *)
(* A spec adds, to what Coverage reads of it, who: identity -> [role, tenant_id,  *)
(* anonymous, reference], resource: [owner_identity, tenant_id] and               *)
(* role_hierarchy, lowest role first.  "none" is an attribute never declared.     *)
EXTENDS Coverage, SequencesExt

CLASSES == {"cross_tenant", "same_tenant_peer", "higher_privilege", "anonymous"}

Specs(db) == {db.cases[c] : c \in DOMAIN db.cases}

---------------------------------------------------------------------------------
(* The engagement-wide view of an identity. *)

Declarations(db, id) == {s.who[id] : s \in {t \in Specs(db) : id \in DOMAIN t.who}}

\* The declared values of an attribute; omission is neutral.
Declared(db, id, attribute) == {d[attribute] : d \in Declarations(db, id)} \ {"none"}

Established(values) == IF Cardinality(values) = 1 THEN CHOOSE v \in values : TRUE ELSE "none"

\* Mutant of Conflicts: only the credential is compared.
CredentialConflicts(db, id) ==
    {a \in {"reference"} : Cardinality({d.reference : d \in Declarations(db, id)}) > 1}

Conflicts(db, id) ==
    {a \in {"role", "tenant_id", "anonymous", "reference"} :
        Cardinality(IF a = "anonymous" THEN {d.anonymous : d \in Declarations(db, id)}
                    ELSE IF a = "reference" THEN {d.reference : d \in Declarations(db, id)}
                    ELSE Declared(db, id, a)) > 1}

merge_identities(db) ==
    [id \in UNION {DOMAIN s.who : s \in Specs(db)} |->
        [role |-> Established(Declared(db, id, "role")),
         tenant_id |-> Established(Declared(db, id, "tenant_id")),
         anonymous |-> \A d \in Declarations(db, id) : d.anonymous,
         conflicts |-> Conflicts(db, id)]]

---------------------------------------------------------------------------------
(* The classes of a caller relative to the object's owner, from one spec alone. *)

\* hierarchy.index
RoleRank(hierarchy, role) ==
    CHOOSE i \in DOMAIN hierarchy :
        hierarchy[i] = role /\ \A j \in 1..(i - 1) : hierarchy[j] # role

Ranked(hierarchy, role) == \E i \in DOMAIN hierarchy : hierarchy[i] = role

Outranks(hierarchy, role, other) ==
    /\ Ranked(hierarchy, role) /\ Ranked(hierarchy, other)
    /\ RoleRank(hierarchy, role) > RoleRank(hierarchy, other)

\* Mutant of classify: the object is taken to be in its owner's tenant.
ClassifyByOwner(hierarchy, subject, owner, resource) ==
    LET placed == subject.tenant_id # "none" /\ owner.tenant_id # "none"
    IN  IF subject.anonymous THEN {"anonymous"}
        ELSE {k \in CLASSES :
                 \/ k = "cross_tenant" /\ placed /\ subject.tenant_id # owner.tenant_id
                 \/ k = "same_tenant_peer" /\ placed /\ subject.tenant_id = owner.tenant_id
                 \/ k = "higher_privilege" /\ Outranks(hierarchy, subject.role, owner.role)}

classify(hierarchy, subject, owner, resource) ==
    LET tenant == IF resource.tenant_id # "none" THEN resource.tenant_id ELSE owner.tenant_id
        placed == subject.tenant_id # "none" /\ tenant # "none"
    IN  IF subject.anonymous THEN {"anonymous"}
        ELSE {k \in CLASSES :
                 \/ k = "cross_tenant" /\ placed /\ subject.tenant_id # tenant
                 \/ k = "same_tenant_peer" /\ placed /\ subject.tenant_id = tenant
                 \/ k = "higher_privilege" /\ Outranks(hierarchy, subject.role, owner.role)}

\* The classes one case puts an identity in: none for the owner itself, and only
\* "anonymous" where the case declares no owner.
CaseClasses(spec, id) ==
    LET owner == spec.resource.owner_identity
    IN  IF id = owner THEN {}
        ELSE IF spec.who[id].anonymous THEN {"anonymous"}
        ELSE IF owner \in DOMAIN spec.who
             THEN classify(spec.role_hierarchy, spec.who[id], spec.who[owner], spec.resource)
        ELSE {}

---------------------------------------------------------------------------------
(* Hypotheses. *)

askable(db) ==
    LET table == merge_identities(db)
        clear == {i \in DOMAIN table : table[i].conflicts = {}}
        people == {i \in clear : ~table[i].anonymous}
        Tenants(who) == {table[i].tenant_id : i \in who} \ {"none"}
        ranked == {table[i].role : i \in people}
                      \cap UNION {ToSet(s.role_hierarchy) : s \in Specs(db)}
    IN  {k \in CLASSES :
            CASE k = "cross_tenant" -> Cardinality(Tenants(people)) >= 2
              [] k = "same_tenant_peer" ->
                     \E i, j \in people : /\ i # j
                                          /\ table[i].tenant_id # "none"
                                          /\ table[i].tenant_id = table[j].tenant_id
              [] k = "higher_privilege" -> Cardinality(ranked) >= 2
              [] OTHER -> \E i \in clear : table[i].anonymous}

\* <<case, identity>> pairs that put the class to a caller on this operation.
Asked(db, e, k) ==
    {p \in Matched(db, e) \X UNION {s.identities : s \in Specs(db)} :
        /\ p[2] \in db.cases[p[1]].identities \cap DOMAIN db.cases[p[1]].who
        /\ k \in CaseClasses(db.cases[p[1]], p[2])}

\* Mutant of Evaluated: having run is taken for having been evaluated.
EvaluatedWhenRun(db, e, k) == {p \in Asked(db, e, k) : Executed(db, p[1])}

Evaluated(db, e, k) ==
    {p \in Asked(db, e, k) : Executed(db, p[1]) /\ CellState(db, p[1], p[2]) = "evaluated"}

HypothesisStatus(db, e, k) ==
    LET waiting == {p[1] : p \in Asked(db, e, k)}
        owned == \E c \in Matched(db, e) :
                     db.cases[c].resource.owner_identity \in DOMAIN db.cases[c].who
    IN  IF Matched(db, e) # {} /\ ~owned /\ k # "anonymous" THEN "owner_context_missing"
        ELSE IF waiting = {} THEN "untested"
        ELSE IF Executed(db, Min(waiting)) THEN "inconclusive" ELSE "reviewed_not_run"

hypotheses(db, e) ==
    IF priority_reasons(db, e) = {} THEN {}
    ELSE {[boundary |-> k, status |-> HypothesisStatus(db, e, k)] :
             k \in {c \in askable(db) : Evaluated(db, e, c) = {}}}

---------------------------------------------------------------------------------
(* The draft for one boundary of one operation.  (The code keeps the first six    *)
(* chosen identities; the engagements asked about declare fewer.)                 *)

\* The tenants the operation's own cases state for each owner they name.
Owners(db, e) ==
    {db.cases[c].resource.owner_identity : c \in Matched(db, e)} \ {"none"}
ResourceTenants(db, e, owner) ==
    {db.cases[c].resource.tenant_id :
        c \in {d \in Matched(db, e) : db.cases[d].resource.owner_identity = owner}} \ {"none"}

Hierarchies(db) == {s.role_hierarchy : s \in Specs(db)} \ {<<>>}

draft_for_boundary(db, e, boundary) ==
    LET table == merge_identities(db)
        usable == {i \in DOMAIN table : table[i].conflicts = {}}
        named == Established(Owners(db, e))
        owner == IF named \in usable THEN named ELSE "none"
        tenants == IF owner = "none" THEN {} ELSE ResourceTenants(db, e, owner)
        object == IF owner = "none" \/ Cardinality(tenants) > 1 THEN "none"
                  ELSE IF tenants # {} THEN Established(tenants) ELSE table[owner].tenant_id
        hierarchy == IF Cardinality(Hierarchies(db)) = 1
                     THEN CHOOSE h \in Hierarchies(db) : TRUE ELSE <<>>
        pool == {i \in usable : ~table[i].anonymous /\ i # owner}
        Tenanted(same) ==
            IF object # "none" THEN {i \in pool : /\ table[i].tenant_id # "none"
                                              /\ (table[i].tenant_id = object) = same}
            ELSE IF Cardinality(tenants) > 1 THEN {}
            ELSE {i \in pool : table[i].tenant_id # "none"}
        chosen ==
            IF boundary = "anonymous" THEN {i \in usable : table[i].anonymous}
            ELSE IF boundary = "cross_tenant" THEN Tenanted(FALSE)
            ELSE IF boundary = "same_tenant_peer" THEN Tenanted(TRUE)
            ELSE IF owner # "none" /\ Ranked(hierarchy, table[owner].role)
                 THEN {i \in pool : Outranks(hierarchy, table[i].role, table[owner].role)}
            ELSE {i \in pool : Ranked(hierarchy, table[i].role)}
    IN  [owner |-> owner,
         object_tenant |-> object,
         chosen |-> chosen,
         role_hierarchy |-> IF boundary = "higher_privilege" THEN hierarchy ELSE <<>>,
         declared |-> [i \in chosen \cup ({owner} \ {"none"}) |->
                          [role |-> table[i].role, tenant_id |-> table[i].tenant_id,
                           anonymous |-> table[i].anonymous]],
         left_out |-> DOMAIN table \ usable]
===============================================================================
