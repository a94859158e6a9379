------------------------------- MODULE Authority -------------------------------
(***************************************************************************)
(* What an engagement permits and who may change it: scope rows,           *)
(* authorization rows, the request-rate ceiling, the revision number that  *)
(* stands for all of them (managed_authority.py), and the agents'          *)
(* proposals to change them (routers/proposals.py, scope.py,               *)
(* authorizations.py, engagements.py).                                     *)
(*                                                                         *)
(* A handler that calls managed_authority.lock or advance is two steps:    *)
(* taking the engagement row lock, where it reads, and its commit, where   *)
(* the rows it computed are written.  reject_proposal and create_proposal  *)
(* take no lock and are split between their read and their write.          *)
(***************************************************************************)
EXTENDS Integers, FiniteSets

CONSTANTS
    Session,    \* requests of operators served at the same time
    Agent,      \* requests of agents served at the same time
    Proposal,   \* identifiers of proposals
    Payload,    \* the validated change each proposal carries
    Entry,      \* <<scope_type, value>> of a scope row
    Grant,      \* identifiers of authorization rows
    Rate,       \* request-rate ceilings an operator may set, None included
    MaxPending, \* _MAX_PENDING
    MaxRows,    \* bound: rows of one entry
    MaxRevision,\* bound: authority changes
    None

Change == [kind : {"scope"}, entry : Entry]
            \union [kind : {"authorization"}]
            \union [kind : {"rate_ceiling"}, rate : Rate \ {None}]

ASSUME ActorAssumption ==
    /\ IsFiniteSet(Agent) /\ Agent # {} /\ IsFiniteSet(Proposal)
    /\ None \notin Session /\ None \notin Proposal /\ None \notin Grant
ASSUME PayloadAssumption == Payload \in [Proposal -> Change] /\ None \in Rate
ASSUME BoundAssumption == MaxPending \in Nat \ {0} /\ MaxRows \in Nat \ {0} /\ MaxRevision \in Nat

VARIABLES
    revision,           \* Engagement.managed_authority_revision
    scope,              \* number of scope rows of each entry
    grants,             \* status of each authorization row
    max_request_rate,
    status,             \* AgentProposal.status, "absent" before it is created
    applied,            \* how often the proposal's change was committed
    lock,               \* the session that holds the engagement row, or None
    txn,                \* what the lock holder has read and will write
    rejecting,          \* the proposal a session has read as pending and will reject
    counted             \* agents whose count of pending proposals was below the limit

authority == <<scope, grants, max_request_rate>>
vars == <<revision, authority, status, applied, lock, txn, rejecting, counted>>

-------------------------------------------------------------------------------
Standing == {"active", "expired", "revoked"}
Kind == {"none", "add", "delete", "import", "authorize", "amend", "configure", "approve"}

\* The rows a transaction will write when it commits.
Write == [kind : Kind, revision : Nat, insert : SUBSET Entry, remove : SUBSET Entry,
          grant : Grant \union {None}, standing : Standing, rate : Rate,
          proposal : Proposal \union {None}]

Nothing == [kind |-> "none", revision |-> 0, insert |-> {}, remove |-> {},
            grant |-> None, standing |-> "active", rate |-> None, proposal |-> None]

TypeOK ==
    /\ revision \in 0..MaxRevision
    /\ scope \in [Entry -> Nat]
    /\ grants \in [Grant -> Standing \union {"absent"}]
    /\ max_request_rate \in Rate
    /\ status \in [Proposal -> {"absent", "pending", "approved", "rejected"}]
    /\ applied \in [Proposal -> Nat]
    /\ lock \in Session \union {None}
    /\ txn \in [Session -> Write]
    /\ rejecting \in [Session -> Proposal \union {None}]
    /\ counted \subseteq Agent

Init ==
    /\ revision = 0
    /\ scope = [e \in Entry |-> 0]
    /\ grants = [g \in Grant |-> "absent"]
    /\ max_request_rate = None
    /\ status = [p \in Proposal |-> "absent"]
    /\ applied = [p \in Proposal |-> 0]
    /\ lock = None
    /\ txn = [s \in Session |-> Nothing]
    /\ rejecting = [s \in Session |-> None]
    /\ counted = {}

Pending == {p \in Proposal : status[p] = "pending"}

-------------------------------------------------------------------------------
(* Handlers under the engagement row lock.                                 *)

Free(s) == txn[s].kind = "none" /\ rejecting[s] = None

\* Mutant of Lock: the row lock is not waited for.
LockNotAwaited(s, write) ==
    /\ Free(s)
    /\ write.revision <= MaxRevision
    /\ lock' = s
    /\ txn' = [txn EXCEPT ![s] = write]
    /\ UNCHANGED <<revision, authority, status, applied, rejecting, counted>>

\* managed_authority.lock, the handler's reads, and the writes it prepares
Lock(s, write) ==
    /\ Free(s)
    /\ lock = None
    /\ write.revision <= MaxRevision
    /\ lock' = s
    /\ txn' = [txn EXCEPT ![s] = write]
    /\ UNCHANGED <<revision, authority, status, applied, rejecting, counted>>

\* A transaction that has changed no row yet, and leaves this revision.
Writing(kind, rev) ==
    [kind |-> kind, revision |-> rev, insert |-> {}, remove |-> {}, grant |-> None,
     standing |-> "active", rate |-> max_request_rate, proposal |-> None]

\* managed_authority.advance
Advanced(kind) == Writing(kind, revision + 1)

\* add_in_scope_item and add_out_scope_item: no check for a row that is already there
AddScope(s, e) ==
    /\ scope[e] < MaxRows
    /\ Lock(s, [Advanced("add") EXCEPT !.insert = {e}])

DeleteScope(s, e) ==
    /\ scope[e] > 0
    /\ Lock(s, [Advanced("delete") EXCEPT !.remove = {e}])

\* import_scope with commit: only the entries no row has yet
NewEntries(E) == {e \in E : scope[e] = 0}

ImportScope(s, E) ==
    /\ NewEntries(E) # {}
    /\ Lock(s, [Advanced("import") EXCEPT !.insert = NewEntries(E)])

CreateAuthorization(s, g) ==
    /\ grants[g] = "absent"
    /\ Lock(s, [Advanced("authorize") EXCEPT !.grant = g])

\* update_authorization and update_engagement (max_request_rate standing for the fields that
\* carry authority): the revision moves only if the row changes.
Bumped(changed) == IF changed THEN revision + 1 ELSE revision

UpdateAuthorization(s, g, standing) ==
    /\ grants[g] # "absent"
    /\ Lock(s, [Writing("amend", Bumped(grants[g] # standing))
                EXCEPT !.grant = g, !.standing = standing])

UpdateEngagement(s, rate) ==
    Lock(s, [Writing("configure", Bumped(max_request_rate # rate)) EXCEPT !.rate = rate])

\* approve_proposal: lock, refresh, and _apply on the row as refreshed
Apply(p, g) ==
    LET write == [Advanced("approve") EXCEPT !.proposal = p]
    IN  CASE Payload[p].kind = "scope" -> [write EXCEPT !.insert = {Payload[p].entry}]
          [] Payload[p].kind = "authorization" -> [write EXCEPT !.grant = g]
          [] OTHER -> [write EXCEPT !.rate = Payload[p].rate]

\* Mutant of ApproveProposal: the status is not checked again after the refresh.
ApproveUnchecked(s, p, g) ==
    /\ status[p] # "absent"
    /\ Payload[p].kind = "scope" => scope[Payload[p].entry] < MaxRows
    /\ Payload[p].kind = "authorization" => grants[g] = "absent"
    /\ Lock(s, Apply(p, g))

ApproveProposal(s, p, g) ==
    /\ status[p] = "pending"
    /\ Payload[p].kind = "scope" => scope[Payload[p].entry] < MaxRows
    /\ Payload[p].kind = "authorization" => grants[g] = "absent"
    /\ Lock(s, Apply(p, g))

\* The commit of any of these: the rows are written by primary key, whatever a session
\* without the lock has written to them since they were read.
Commit(s) ==
    /\ txn[s].kind # "none"
    /\ LET w == txn[s] IN
        /\ revision' = w.revision
        /\ scope' = [e \in Entry |-> scope[e] + (IF e \in w.insert THEN 1 ELSE 0)
                                              - (IF e \in w.remove THEN 1 ELSE 0)]
        /\ grants' = [g \in Grant |-> IF g = w.grant THEN w.standing ELSE grants[g]]
        /\ max_request_rate' = w.rate
        /\ status' = [p \in Proposal |-> IF p = w.proposal THEN "approved" ELSE status[p]]
        /\ applied' = [p \in Proposal |-> IF p = w.proposal THEN applied[p] + 1 ELSE applied[p]]
    /\ lock' = None
    /\ txn' = [txn EXCEPT ![s] = Nothing]
    /\ UNCHANGED <<rejecting, counted>>

-------------------------------------------------------------------------------
(* Handlers without a lock.                                                *)

\* reject_proposal reads the proposal and checks it is pending
RejectProposal(s, p) ==
    /\ Free(s)
    /\ status[p] = "pending"
    /\ rejecting' = [rejecting EXCEPT ![s] = p]
    /\ UNCHANGED <<revision, authority, status, applied, lock, txn, counted>>

\* ... and writes it by primary key
CommitReject(s) ==
    /\ rejecting[s] # None
    /\ status' = [status EXCEPT ![rejecting[s]] = "rejected"]
    /\ rejecting' = [rejecting EXCEPT ![s] = None]
    /\ UNCHANGED <<revision, authority, applied, lock, txn, counted>>

\* Mutant of CountPending: > where the code has >=.
CountOneMore(a) ==
    /\ a \notin counted
    /\ Cardinality(Pending) <= MaxPending
    /\ counted' = counted \union {a}
    /\ UNCHANGED <<revision, authority, status, applied, lock, txn, rejecting>>

\* create_proposal counts the pending proposals
CountPending(a) ==
    /\ a \notin counted
    /\ Cardinality(Pending) < MaxPending
    /\ counted' = counted \union {a}
    /\ UNCHANGED <<revision, authority, status, applied, lock, txn, rejecting>>

\* ... and inserts its own
CreateProposal(a, p) ==
    /\ a \in counted
    /\ status[p] = "absent"
    /\ status' = [status EXCEPT ![p] = "pending"]
    /\ counted' = counted \ {a}
    /\ UNCHANGED <<revision, authority, applied, lock, txn, rejecting>>

-------------------------------------------------------------------------------
SessionStep(s) ==
    \/ \E e \in Entry : AddScope(s, e) \/ DeleteScope(s, e)
    \/ \E E \in SUBSET Entry : ImportScope(s, E)
    \/ \E g \in Grant : CreateAuthorization(s, g)
    \/ \E g \in Grant, standing \in Standing : UpdateAuthorization(s, g, standing)
    \/ \E rate \in Rate : UpdateEngagement(s, rate)
    \/ \E p \in Proposal, g \in Grant : ApproveProposal(s, p, g)
    \/ Commit(s)
    \/ \E p \in Proposal : RejectProposal(s, p)
    \/ CommitReject(s)

AgentStep(a) ==
    \/ CountPending(a)
    \/ \E p \in Proposal : CreateProposal(a, p)

Next ==
    \/ \E s \in Session : SessionStep(s)
    \/ \E a \in Agent : AgentStep(a)

Spec == Init /\ [][Next]_vars

-------------------------------------------------------------------------------
(* Properties.                                                             *)

\* managed_authority.advance: a revision number stands for one state of the scope, the
\* authorizations and the ceiling.  However handlers overlap, none of them changes without
\* the revision moving on, so no increment is lost.
RevisionNamesAuthority == [][authority' # authority => revision' > revision]_vars

\* approve_proposal: a pending proposal has changed nothing, an approved one was applied
\* exactly once, and none is ever applied twice, however approvals and rejections overlap.
AppliedExactlyOnce ==
    \A p \in Proposal :
        /\ applied[p] <= 1
        /\ status[p] \in {"absent", "pending"} => applied[p] = 0
        /\ status[p] = "approved" => applied[p] = 1

\* import_scope: an import that commits never duplicates a row, whatever was added since
\* the file was parsed.
ImportNeverDuplicates ==
    [][\A s \in Session : txn[s].kind = "import" /\ txn'[s].kind = "none" =>
          \A e \in txn[s].insert : scope[e] = 0 /\ scope'[e] = 1]_vars

\* create_proposal: the queue passes _MAX_PENDING by less than the number of requests
\* that are counted at the same time.
OvershootBounded == Cardinality(Pending) + Cardinality(counted) < MaxPending + Cardinality(Agent)

\* api.md on resolving a proposal: "A non-pending proposal returns `409`."  Approved or
\* rejected, a proposal keeps the resolution that was committed first.
ResolutionIsFinal ==
    [][\A p \in Proposal : status[p] \in {"approved", "rejected"} => status'[p] = status[p]]_vars
===============================================================================
