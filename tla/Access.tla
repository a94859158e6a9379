--------------------------------- MODULE Access ---------------------------------
(* Who may reach what (deps.py) and the rows access hangs on: invitations           *)
(* (members.py), personal organizations, engagements and clients (engagements.py, *)
(* clients.py).  The handlers read without a lock and commit later, so one that   *)
(* writes what it checked is two steps.  u is the resolved user of the request.   *)
(* Engagement deletion and authority fields are JobControl's and Authority's.     *)
EXTENDS Integers, FiniteSets

CONSTANTS
    User, Org, EngagementId, ClientId,
    Caller,              \* overlapping requests
    Absent,              \* SQL NULL, or a row .first() does not find
    SharedOrg,           \* an organization that several people belong to
    SharedRoles,         \* its possible memberships: functions User -> role or Absent
    SharedEngagement,    \* an engagement in it; those outside may be invited to it
    MaxMembers           \* _MAX_MEMBERS, 20 in the code

ROLE_RANK == [viewer |-> 0, member |-> 1, admin |-> 2, owner |-> 3]

ASSUME AccessAssumption ==
    /\ SharedOrg \in Org /\ SharedEngagement \in EngagementId
    /\ MaxMembers \in Nat \ {0}
    /\ IsFiniteSet(User) /\ IsFiniteSet(Caller) /\ Caller # {}
    /\ Absent \notin Org \cup User \cup DOMAIN ROLE_RANK
    /\ SharedRoles \subseteq [User -> DOMAIN ROLE_RANK \cup {Absent}]

VARIABLES
    orgs,                \* organization -> [personal_for, roles], roles: user -> role
    engagements,         \* id -> [owner, org, client, members], members: user -> role
    clients,             \* id -> [owner, org]
    caller               \* request -> what it holds between its steps

accessVars == <<orgs, engagements, clients, caller>>
accessRows == <<orgs, engagements, clients>>

NoCall == [stage |-> "idle"]
With(f, k, v) == [x \in DOMAIN f \cup {k} |-> IF x = k THEN v ELSE f[x]]
Minus(f, k) == [x \in DOMAIN f \ {k} |-> f[x]]

\* Those outside the shared organization may all have been invited, if the limit allows.
AccessInit ==
    /\ \E roles \in SharedRoles, u \in User, invitation \in {Absent, "member"} :
         /\ roles[u] = "owner"
         /\ invitation # Absent => Cardinality({v \in User : roles[v] = Absent}) <= MaxMembers
         /\ orgs = With(<<>>, SharedOrg, [personal_for |-> Absent, roles |-> roles])
         /\ engagements = With(<<>>, SharedEngagement, [owner |-> u, org |-> SharedOrg,
                client |-> Absent,
                members |-> [v \in User |-> IF roles[v] = Absent THEN invitation ELSE Absent]])
    /\ clients = <<>>
    /\ caller = [c \in Caller |-> NoCall]

---------------------------------------------------------------------------------
(* deps.py: the grants. *)

org_role(o, u) == IF o = Absent THEN Absent ELSE orgs[o].roles[u]

\* Ownership, then the highest of the organization role and the invitation.
engagement_access(e, u) ==
    LET row == engagements[e]
        roles == {org_role(row.org, u), row.members[u]} \ {Absent}
    IN  IF row.owner = u THEN "owner"
        ELSE IF roles = {} THEN Absent
        ELSE CHOOSE r \in roles : \A s \in roles : ROLE_RANK[s] <= ROLE_RANK[r]

accessible_org_ids(u) ==
    {o \in DOMAIN orgs : orgs[o].roles[u] # Absent \/ orgs[o].personal_for = u}

\* Mutant of accessible_engagement_ids: owned and invited only.
OwnedAndInvited(u) ==
    {e \in DOMAIN engagements : engagements[e].owner = u \/ engagements[e].members[u] # Absent}

accessible_engagement_ids(u) ==
    LET owned == {e \in DOMAIN engagements : engagements[e].owner = u}
        org_ids == {o \in DOMAIN orgs : orgs[o].roles[u] # Absent}
        via_org == {e \in DOMAIN engagements : engagements[e].org \in org_ids}
        invited == {e \in DOMAIN engagements : engagements[e].members[u] # Absent}
    IN  owned \cup via_org \cup invited

\* _get_client_or_404, and the filter of resolve_owned_client_id.
ClientReachable(c, u) ==
    c \in DOMAIN clients /\ (clients[c].owner = u \/ clients[c].org \in accessible_org_ids(u))

_require_client_write(c, u) ==
    \/ clients[c].owner = u
    \/ LET role == org_role(clients[c].org, u)
       IN  role # Absent /\ ROLE_RANK[role] >= ROLE_RANK["member"]

---------------------------------------------------------------------------------
(* routers/members.py *)

Members(e) == {u \in User : engagements[e].members[u] # Absent}

\* Mutant of CheckMember: off by one at the limit.
CheckMemberLoose(c, u, e, m, role) ==
    /\ caller[c] = NoCall
    /\ engagements[e].owner = u /\ m # u
    /\ engagements[e].members[m] = Absent
    /\ Cardinality(Members(e)) <= MaxMembers
    /\ caller' = [caller EXCEPT ![c] = [stage |-> "add_member", engagement |-> e,
                                        member |-> m, role |-> role]]
    /\ UNCHANGED accessRows

\* require_engagement_owner, the duplicate and the count, all before the insert.
CheckMember(c, u, e, m, role) ==
    /\ caller[c] = NoCall
    /\ engagements[e].owner = u /\ m # u
    /\ engagements[e].members[m] = Absent
    /\ Cardinality(Members(e)) < MaxMembers
    /\ caller' = [caller EXCEPT ![c] = [stage |-> "add_member", engagement |-> e,
                                        member |-> m, role |-> role]]
    /\ UNCHANGED accessRows

\* Mutant of InsertMember: the unique constraint is gone and the later row is read.
InsertMemberAgain(c) ==
    /\ caller[c].stage = "add_member"
    /\ engagements' = [engagements EXCEPT ![caller[c].engagement].members[caller[c].member] =
                            caller[c].role]
    /\ caller' = [caller EXCEPT ![c] = NoCall]
    /\ UNCHANGED <<orgs, clients>>

\* uq_program_members refuses the second of two invitations of the same person.
InsertMember(c) ==
    /\ caller[c].stage = "add_member"
    /\ LET e == caller[c].engagement
           m == caller[c].member
       IN  engagements' = IF engagements[e].members[m] # Absent THEN engagements
                          ELSE [engagements EXCEPT ![e].members[m] = caller[c].role]
    /\ caller' = [caller EXCEPT ![c] = NoCall]
    /\ UNCHANGED <<orgs, clients>>

remove_member(c, u, e, m) ==
    /\ caller[c] = NoCall
    /\ engagements[e].owner = u /\ engagements[e].members[m] # Absent
    /\ engagements' = [engagements EXCEPT ![e].members[m] = Absent]
    /\ caller' = [caller EXCEPT ![c] = NoCall]
    /\ UNCHANGED <<orgs, clients>>

---------------------------------------------------------------------------------
(* create_engagement, create_client: the personal organization is looked up first. *)

\* Mutant of PersonalOrg: any organization the user belongs to.
AnyOrg(u) == {o \in DOMAIN orgs : orgs[o].roles[u] # Absent}

PersonalOrg(u) == {o \in DOMAIN orgs : orgs[o].personal_for = u}

\* kind is the row to create, link the client an engagement is to name.
FindOrg(c, u, kind, link) ==
    /\ caller[c] = NoCall
    /\ link # Absent => kind = "engagement" /\ ClientReachable(link, u)
    /\ \E o \in IF PersonalOrg(u) = {} THEN {Absent} ELSE PersonalOrg(u) :
         caller' = [caller EXCEPT ![c] = [stage |-> "create", kind |-> kind, user |-> u,
                                          org |-> o, link |-> link]]
    /\ UNCHANGED accessRows

\* Mutant of WithPersonalOrg: the organization is never added.
WithoutOrg(o, u) == orgs

\* personal_org when nothing was found: an organization with its one owner.
WithPersonalOrg(o, u) ==
    With(orgs, o, [personal_for |-> u, roles |-> [v \in User |-> IF v = u THEN "owner" ELSE Absent]])

\* Mutant of LinkHolds: the client's foreign key is not enforced.
LinkUnchecked(c) == TRUE

\* The foreign key: a client deleted since it was resolved fails the insert.
LinkHolds(c) == caller[c].link \in DOMAIN clients \cup {Absent}

InsertRow(c, id, fresh) ==
    /\ caller[c].stage = "create" /\ LinkHolds(c)
    /\ caller[c].org = Absent => fresh \in Org \ DOMAIN orgs
    /\ LET u == caller[c].user
           o == IF caller[c].org = Absent THEN fresh ELSE caller[c].org
       IN  /\ orgs' = IF caller[c].org = Absent THEN WithPersonalOrg(fresh, u) ELSE orgs
           /\ IF caller[c].kind = "client"
              THEN /\ id \in ClientId \ DOMAIN clients
                   /\ clients' = With(clients, id, [owner |-> u, org |-> o])
                   /\ UNCHANGED engagements
              ELSE /\ id \in EngagementId \ DOMAIN engagements
                   /\ engagements' = With(engagements, id, [owner |-> u, org |-> o,
                          client |-> caller[c].link, members |-> [v \in User |-> Absent]])
                   /\ UNCHANGED clients
    /\ caller' = [caller EXCEPT ![c] = NoCall]

\* update_engagement, for its client: resolved, then written; Absent unlinks it.
FindLink(c, u, e, id) ==
    /\ caller[c] = NoCall
    /\ engagements[e].owner = u /\ (id # Absent => ClientReachable(id, u))
    /\ caller' = [caller EXCEPT ![c] = [stage |-> "link", engagement |-> e, link |-> id]]
    /\ UNCHANGED accessRows

WriteLink(c) ==
    /\ caller[c].stage = "link" /\ LinkHolds(c)
    /\ engagements' = [engagements EXCEPT ![caller[c].engagement].client = caller[c].link]
    /\ caller' = [caller EXCEPT ![c] = NoCall]
    /\ UNCHANGED <<orgs, clients>>

InsertFails(c) ==
    /\ caller[c].stage \in {"create", "link"} /\ ~LinkHolds(c)
    /\ caller' = [caller EXCEPT ![c] = NoCall]
    /\ UNCHANGED accessRows

\* Engagements outlive their client: they are detached in the same transaction.
delete_client(c, u, id) ==
    /\ caller[c] = NoCall
    /\ ClientReachable(id, u) /\ _require_client_write(id, u)
    /\ engagements' = [e \in DOMAIN engagements |->
           IF engagements[e].client = id THEN [engagements[e] EXCEPT !.client = Absent]
           ELSE engagements[e]]
    /\ clients' = Minus(clients, id)
    /\ caller' = [caller EXCEPT ![c] = NoCall]
    /\ UNCHANGED orgs

MemberStep ==
    \E c \in Caller :
        \/ InsertMember(c)
        \/ \E u, m \in User, e \in DOMAIN engagements :
              \/ \E role \in {"member", "viewer"} : CheckMember(c, u, e, m, role)
              \/ remove_member(c, u, e, m)

TenantStep ==
    \E c \in Caller :
        \/ WriteLink(c) \/ InsertFails(c)
        \/ \E id \in EngagementId \cup ClientId, fresh \in Org : InsertRow(c, id, fresh)
        \/ \E u \in User :
              \/ \E kind \in {"client", "engagement"}, link \in DOMAIN clients \cup {Absent} :
                    FindOrg(c, u, kind, link)
              \/ \E id \in DOMAIN clients : delete_client(c, u, id)
              \/ \E e \in DOMAIN engagements, id \in DOMAIN clients \cup {Absent} :
                    FindLink(c, u, e, id)

AccessNext == MemberStep \/ TenantStep

AccessSpec == AccessInit /\ [][AccessNext]_accessVars

---------------------------------------------------------------------------------
(* Properties. *)

AccessTypeOK ==
    /\ DOMAIN orgs \subseteq Org
    /\ \A e \in DOMAIN engagements : engagements[e].owner \in User
                                     /\ engagements[e].org \in DOMAIN orgs
    /\ \A id \in DOMAIN clients : clients[id].owner \in User /\ clients[id].org \in DOMAIN orgs

\* The members are counted without a lock, so overlapping invitations may pass the
\* limit together: counting those on their way, by one per request beyond the first,
\* never more (add_member).
MembersOvershootByOverlap ==
    \A e \in DOMAIN engagements :
        LET pending == {c \in Caller : caller[c].stage = "add_member" /\ caller[c].engagement = e}
        IN  Cardinality(Members(e)) + Cardinality(pending) <= MaxMembers + Cardinality(Caller) - 1

\* The list endpoints and the single-engagement check are written apart and must agree:
\* an engagement is listed for exactly the people whose request for it is not a 404.
ListsAgreeWithAccess ==
    \A u \in User :
        accessible_engagement_ids(u) = {e \in DOMAIN engagements : engagement_access(e, u) # Absent}

\* Two first requests of a user may each create a personal organization.  Whichever one
\* a row lands in, its owner reaches it and nobody else does without an invitation, and
\* an invitation to an engagement opens no client (personal_org, clients.py).
TenantsStayApart ==
    /\ \A e \in DOMAIN engagements \ {SharedEngagement}, u \in User :
         engagement_access(e, u) # Absent
             <=> u = engagements[e].owner \/ engagements[e].members[u] # Absent
    /\ \A id \in DOMAIN clients, u \in User :
         ClientReachable(id, u) <=> u = clients[id].owner

\* An engagement never names a client that is gone, whichever of the link and the
\* deletion commits first (resolve_owned_client_id, delete_client).
NoDanglingClient ==
    \A e \in DOMAIN engagements : engagements[e].client \in DOMAIN clients \cup {Absent}

\* An invitation never changes the role another invitation gave: a role is given to a
\* person without one, and goes only with the membership (add_member, remove_member).
InvitationNeverOverwrites ==
    [][\A e \in DOMAIN engagements, u \in User :
          engagements[e].members[u] # Absent
              => engagements'[e].members[u] \in {engagements[e].members[u], Absent}]_accessVars
===============================================================================
