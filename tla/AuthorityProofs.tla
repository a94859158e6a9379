---------------------------- MODULE AuthorityProofs ----------------------------
(***************************************************************************)
(* Proofs about Authority: its type invariant, that a revision number      *)
(* names one state of the authority, that a proposal is applied exactly    *)
(* once, by how much the queue of proposals can pass its limit, and what   *)
(* it takes for a resolution to be rewritten.                              *)
(***************************************************************************)
EXTENDS Authority, FiniteSetTheorems, TLAPS

\* The writes a lock holder prepared still fit the rows it read them from.
Prepared(w) ==
    /\ w.revision \in {revision, revision + 1}
    /\ w.revision <= MaxRevision
    /\ \A e \in w.remove : scope[e] > 0 /\ e \notin w.insert
    /\ w.revision = revision =>
          /\ w.insert = {} /\ w.remove = {} /\ w.rate = max_request_rate
          /\ w.grant # None => grants[w.grant] = w.standing
    /\ w.kind = "import" => \A e \in w.insert : scope[e] = 0
    /\ w.kind = "import" => w.remove = {}
    /\ w.proposal # None => applied[w.proposal] = 0

\* The inductive invariant: only the lock holder has prepared writes, and they fit.
LockOwnsWrites ==
    \A s \in Session : txn[s].kind # "none" => lock = s /\ Prepared(txn[s])
Ownership == TypeOK /\ LockOwnsWrites /\ AppliedExactlyOnce

-------------------------------------------------------------------------------
\* Every handler that takes the lock changes only lock and txn, and what it prepares is a
\* well-typed write that fits the rows it read.
Locks(s) ==
    \E write \in Write : write.kind # "none" /\ Prepared(write) /\ Lock(s, write)

\* A transaction that has changed no row is a well-typed write.
LEMMA FreshWrite ==
    ASSUME TypeOK, NEW kind \in Kind, NEW rev \in Nat
    PROVE  Writing(kind, rev) \in Write
BY DEF TypeOK, Writing, Write, Standing

\* Each handler under the engagement lock (AddScope ... ApproveProposal) prepares such a write.
LEMMA HandlersLock ==
    ASSUME Ownership, NEW s \in Session,
           \/ \E e \in Entry : AddScope(s, e) \/ DeleteScope(s, e)
           \/ \E E \in SUBSET Entry : ImportScope(s, E)
           \/ \E g \in Grant : CreateAuthorization(s, g)
           \/ \E g \in Grant, standing \in Standing : UpdateAuthorization(s, g, standing)
           \/ \E rate \in Rate : UpdateEngagement(s, rate)
           \/ \E p \in Proposal, g \in Grant : ApproveProposal(s, p, g)
    PROVE  Locks(s)
<1> USE DEF Ownership
<1> revision \in Nat /\ max_request_rate \in Rate
  BY BoundAssumption DEF TypeOK, BoundAssumption
<1>1. ASSUME NEW e \in Entry, AddScope(s, e) PROVE Locks(s)
  <2> DEFINE w == [Advanced("add") EXCEPT !.insert = {e}]
  <2>1. w \in Write /\ w.kind # "none" /\ w.revision = revision + 1 /\ w.remove = {}
        /\ w.kind # "import" /\ w.proposal = None
    BY FreshWrite DEF Write, Kind, Advanced, Writing
  <2>2. Lock(s, w)
    BY <1>1 DEF AddScope
  <2> HIDE DEF w
  <2>3. Prepared(w)
    BY <2>1, <2>2 DEF Prepared, Lock
  <2> QED BY <2>1, <2>2, <2>3 DEF Locks
<1>2. ASSUME NEW e \in Entry, DeleteScope(s, e) PROVE Locks(s)
  <2> DEFINE w == [Advanced("delete") EXCEPT !.remove = {e}]
  <2>1. w \in Write /\ w.kind # "none" /\ w.revision = revision + 1 /\ w.remove = {e}
        /\ w.insert = {} /\ w.kind # "import" /\ w.proposal = None
    BY FreshWrite DEF Write, Kind, Advanced, Writing
  <2>2. Lock(s, w) /\ scope[e] > 0
    BY <1>2 DEF DeleteScope
  <2> HIDE DEF w
  <2>3. Prepared(w)
    BY <2>1, <2>2 DEF Prepared, Lock
  <2> QED BY <2>1, <2>2, <2>3 DEF Locks
<1>3. ASSUME NEW E \in SUBSET Entry, ImportScope(s, E) PROVE Locks(s)
  <2> DEFINE w == [Advanced("import") EXCEPT !.insert = NewEntries(E)]
  <2>1. w \in Write /\ w.kind # "none" /\ w.revision = revision + 1 /\ w.remove = {}
        /\ w.insert = NewEntries(E) /\ w.proposal = None
    BY FreshWrite DEF Write, Kind, Advanced, Writing, NewEntries
  <2>2. Lock(s, w) /\ \A e \in NewEntries(E) : scope[e] = 0
    BY <1>3 DEF ImportScope, NewEntries
  <2> HIDE DEF w
  <2>3. Prepared(w)
    BY <2>1, <2>2 DEF Prepared, Lock
  <2> QED BY <2>1, <2>2, <2>3 DEF Locks
<1>4. ASSUME NEW g \in Grant, CreateAuthorization(s, g) PROVE Locks(s)
  <2> DEFINE w == [Advanced("authorize") EXCEPT !.grant = g]
  <2>1. w \in Write /\ w.kind # "none" /\ w.revision = revision + 1 /\ w.remove = {}
        /\ w.kind # "import" /\ w.proposal = None
    BY FreshWrite DEF Write, Kind, Advanced, Writing
  <2>2. Lock(s, w)
    BY <1>4 DEF CreateAuthorization
  <2> HIDE DEF w
  <2>3. Prepared(w)
    BY <2>1, <2>2 DEF Prepared, Lock
  <2> QED BY <2>1, <2>2, <2>3 DEF Locks
<1>5. ASSUME NEW g \in Grant, NEW standing \in Standing, UpdateAuthorization(s, g, standing)
      PROVE  Locks(s)
  <2> DEFINE rev == Bumped(grants[g] # standing)
             w == [Writing("amend", rev) EXCEPT !.grant = g, !.standing = standing]
  <2>0. rev \in Nat /\ rev = IF grants[g] # standing THEN revision + 1 ELSE revision
    BY DEF Bumped
  <2> HIDE DEF rev
  <2>1. w \in Write /\ w.kind # "none" /\ w.remove = {} /\ w.insert = {} /\ w.kind # "import"
        /\ w.proposal = None /\ w.rate = max_request_rate /\ w.grant = g /\ w.standing = standing
        /\ w.revision = rev
    BY <2>0, FreshWrite DEF Write, Kind, Writing
  <2>2. Lock(s, w)
    BY <1>5 DEF UpdateAuthorization, rev
  <2> HIDE DEF w
  <2>3. Prepared(w)
    BY <2>0, <2>1, <2>2 DEF Prepared, Lock
  <2> QED BY <2>1, <2>2, <2>3 DEF Locks
<1>6. ASSUME NEW rate \in Rate, UpdateEngagement(s, rate) PROVE Locks(s)
  <2> DEFINE rev == Bumped(max_request_rate # rate)
             w == [Writing("configure", rev) EXCEPT !.rate = rate]
  <2>0. rev \in Nat /\ rev = IF max_request_rate # rate THEN revision + 1 ELSE revision
    BY DEF Bumped
  <2> HIDE DEF rev
  <2>1. w \in Write /\ w.kind # "none" /\ w.remove = {} /\ w.insert = {} /\ w.kind # "import"
        /\ w.proposal = None /\ w.rate = rate /\ w.grant = None /\ w.revision = rev
    BY <2>0, FreshWrite DEF Write, Kind, Writing
  <2>2. Lock(s, w)
    BY <1>6 DEF UpdateEngagement, rev
  <2> HIDE DEF w
  <2>3. Prepared(w)
    BY <2>0, <2>1, <2>2 DEF Prepared, Lock
  <2> QED BY <2>1, <2>2, <2>3 DEF Locks
<1>7. ASSUME NEW p \in Proposal, NEW g \in Grant, ApproveProposal(s, p, g) PROVE Locks(s)
  <2> DEFINE w == Apply(p, g)
  <2>1. Payload[p] \in Change
    BY PayloadAssumption DEF PayloadAssumption
  <2>2. w \in Write /\ w.kind = "approve" /\ w.remove = {} /\ w.revision = revision + 1
        /\ w.proposal = p
    <3> DEFINE write == [Advanced("approve") EXCEPT !.proposal = p]
    <3>0. /\ write = [kind |-> "approve", revision |-> revision + 1, insert |-> {}, remove |-> {},
                      grant |-> None, standing |-> "active", rate |-> max_request_rate,
                      proposal |-> p]
          /\ w = CASE Payload[p].kind = "scope" -> [write EXCEPT !.insert = {Payload[p].entry}]
                   [] Payload[p].kind = "authorization" -> [write EXCEPT !.grant = g]
                   [] OTHER -> [write EXCEPT !.rate = Payload[p].rate]
      BY DEF Apply, Advanced, Writing
    <3> HIDE DEF w, write
    <3>1. CASE Payload[p].kind = "scope"
      <4>1. Payload[p].entry \in Entry
        BY <2>1, <3>1 DEF Change
      <4>2. w = [write EXCEPT !.insert = {Payload[p].entry}]
        BY <3>0, <3>1
      <4> QED BY <3>0, <4>1, <4>2 DEF Write, Kind, Standing
    <3>2. CASE Payload[p].kind = "authorization"
      <4>1. w = [write EXCEPT !.grant = g]
        BY <3>0, <3>2
      <4>2. w = [kind |-> "approve", revision |-> revision + 1, insert |-> {}, remove |-> {},
                 grant |-> g, standing |-> "active", rate |-> max_request_rate, proposal |-> p]
        BY <3>0, <4>1
      <4> QED BY <4>2 DEF Write, Kind, Standing
    <3>3. CASE Payload[p].kind = "rate_ceiling"
      <4>1. Payload[p].rate \in Rate
        BY <2>1, <3>3 DEF Change
      <4>2. w = [write EXCEPT !.rate = Payload[p].rate]
        BY <3>0, <3>3
      <4>3. w = [kind |-> "approve", revision |-> revision + 1, insert |-> {}, remove |-> {},
                 grant |-> None, standing |-> "active", rate |-> Payload[p].rate, proposal |-> p]
        BY <3>0, <4>2
      <4> QED BY <4>1, <4>3 DEF Write, Kind, Standing
    <3> QED BY <2>1, <3>1, <3>2, <3>3 DEF Change
  <2>3. Lock(s, w) /\ applied[p] = 0
    BY <1>7 DEF ApproveProposal, AppliedExactlyOnce
  <2> HIDE DEF w
  <2>4. Prepared(w)
    BY <2>2, <2>3 DEF Prepared, Lock
  <2> QED BY <2>2, <2>3, <2>4 DEF Locks
<1> QED BY <1>1, <1>2, <1>3, <1>4, <1>5, <1>6, <1>7

\* SessionStep is a handler taking the lock, a commit, or one half of a rejection.
LEMMA SessionCases ==
    ASSUME Ownership, NEW s \in Session, SessionStep(s)
    PROVE  \/ Locks(s) \/ Commit(s) \/ CommitReject(s)
           \/ \E p \in Proposal : RejectProposal(s, p)
BY HandlersLock DEF SessionStep

-------------------------------------------------------------------------------
\* Taking the lock (managed_authority.lock) keeps the invariant.
LEMMA LockOwnership ==
    ASSUME Ownership, NEW s \in Session, Locks(s)
    PROVE  Ownership'
<1>1. PICK write \in Write : write.kind # "none" /\ Prepared(write) /\ Lock(s, write)
  BY DEF Locks
<1> USE DEF Ownership, Lock
<1>2. TypeOK'
  BY <1>1 DEF TypeOK, authority
<1>3. LockOwnsWrites'
  <2> SUFFICES ASSUME NEW t \in Session, txn'[t].kind # "none"
               PROVE  lock' = t /\ Prepared(txn[t])'
    BY DEF LockOwnsWrites
  <2>1. t = s
    BY <1>1, ActorAssumption DEF LockOwnsWrites, TypeOK, ActorAssumption
  <2>2. txn'[t] = write
    BY <1>1, <2>1 DEF TypeOK
  <2> QED BY <1>1, <2>1, <2>2 DEF Prepared, authority
<1>4. AppliedExactlyOnce'
  BY <1>1 DEF AppliedExactlyOnce
<1> QED BY <1>2, <1>3, <1>4

\* A commit writes what fits, and leaves no other writer behind.
LEMMA CommitOwnership ==
    ASSUME Ownership, NEW s \in Session, Commit(s)
    PROVE  Ownership'
<1> USE DEF Ownership, Commit
<1> DEFINE w == txn[s]
<1>1. w \in Write /\ lock = s /\ Prepared(w) /\ w.kind # "none"
  BY DEF TypeOK, LockOwnsWrites
<1>2. TypeOK'
  <2>1. revision' \in 0..MaxRevision
    BY <1>1, BoundAssumption DEF Prepared, Write, BoundAssumption
  <2>2. scope' \in [Entry -> Nat]
    <3> SUFFICES ASSUME NEW e \in Entry
                 PROVE  scope[e] + (IF e \in w.insert THEN 1 ELSE 0)
                                 - (IF e \in w.remove THEN 1 ELSE 0) \in Nat
      OBVIOUS
    <3>1. scope[e] \in Nat
      BY DEF TypeOK
    <3>2. e \in w.remove => scope[e] > 0 /\ e \notin w.insert
      BY <1>1 DEF Prepared
    <3> HIDE DEF w
    <3> QED BY <3>1, <3>2
  <2>3. grants' \in [Grant -> Standing \union {"absent"}]
    BY <1>1 DEF TypeOK, Write
  <2>4. max_request_rate' \in Rate
    BY <1>1 DEF Write
  <2>5. status' \in [Proposal -> {"absent", "pending", "approved", "rejected"}]
    BY DEF TypeOK
  <2>6. applied' \in [Proposal -> Nat]
    BY DEF TypeOK
  <2>7. Nothing \in Write
    BY PayloadAssumption DEF Nothing, Write, Kind, Standing, PayloadAssumption
  <2>8. txn' \in [Session -> Write] /\ lock' \in Session \union {None}
    BY <2>7 DEF TypeOK
  <2>9. rejecting' \in [Session -> Proposal \union {None}] /\ counted' \subseteq Agent
    BY DEF TypeOK
  <2> QED BY <2>1, <2>2, <2>3, <2>4, <2>5, <2>6, <2>8, <2>9 DEF TypeOK
<1>3. LockOwnsWrites'
  <2> SUFFICES ASSUME NEW t \in Session PROVE txn'[t].kind = "none"
    BY DEF LockOwnsWrites
  <2>1. CASE t = s
    BY <2>1 DEF TypeOK, Nothing
  <2>2. CASE t # s
    BY <1>1, <2>2 DEF LockOwnsWrites, TypeOK
  <2> QED BY <2>1, <2>2
<1>4. AppliedExactlyOnce'
  <2> SUFFICES ASSUME NEW p \in Proposal
               PROVE  /\ applied'[p] <= 1
                      /\ status'[p] \in {"absent", "pending"} => applied'[p] = 0
                      /\ status'[p] = "approved" => applied'[p] = 1
    BY DEF AppliedExactlyOnce
  <2>1. CASE p = w.proposal
    <3>1. applied[p] = 0
      BY <1>1, <2>1, ActorAssumption DEF Prepared, ActorAssumption
    <3>2. applied'[p] = 1 /\ status'[p] = "approved"
      BY <2>1, <3>1
    <3> QED BY <3>2
  <2>2. CASE p # w.proposal
    BY <2>2 DEF AppliedExactlyOnce
  <2> QED BY <2>1, <2>2
<1> QED BY <1>2, <1>3, <1>4

\* reject_proposal and create_proposal disturb neither the lock holder's writes nor what was
\* applied.
LEMMA UnlockedOwnership ==
    ASSUME Ownership,
           \/ \E s \in Session, p \in Proposal : RejectProposal(s, p)
           \/ \E s \in Session : CommitReject(s)
           \/ \E a \in Agent : AgentStep(a)
    PROVE  Ownership'
<1> USE DEF Ownership
<1>1. UNCHANGED <<revision, scope, grants, max_request_rate, applied, lock, txn>>
  BY DEF RejectProposal, CommitReject, AgentStep, CountPending, CreateProposal, authority
<1>2. LockOwnsWrites'
  BY <1>1 DEF LockOwnsWrites, Prepared
<1>3. ASSUME NEW s \in Session, NEW p \in Proposal, RejectProposal(s, p)
      PROVE  TypeOK' /\ AppliedExactlyOnce'
  BY <1>1, <1>3 DEF RejectProposal, TypeOK, AppliedExactlyOnce
<1>4. ASSUME NEW s \in Session, CommitReject(s) PROVE TypeOK' /\ AppliedExactlyOnce'
  <2>1. rejecting[s] \in Proposal
    BY <1>4 DEF CommitReject, TypeOK
  <2>2. TypeOK'
    BY <1>1, <1>4, <2>1 DEF CommitReject, TypeOK
  <2>3. AppliedExactlyOnce'
    BY <1>1, <1>4, <2>1 DEF CommitReject, TypeOK, AppliedExactlyOnce
  <2> QED BY <2>2, <2>3
<1>5. ASSUME NEW a \in Agent, CountPending(a) PROVE TypeOK' /\ AppliedExactlyOnce'
  BY <1>1, <1>5 DEF CountPending, TypeOK, AppliedExactlyOnce
<1>6. ASSUME NEW a \in Agent, NEW p \in Proposal, CreateProposal(a, p)
      PROVE  TypeOK' /\ AppliedExactlyOnce'
  BY <1>1, <1>6 DEF CreateProposal, TypeOK, AppliedExactlyOnce
<1> QED BY <1>2, <1>3, <1>4, <1>5, <1>6 DEF AgentStep

\* The initial engagement: nothing locked, nothing applied.
LEMMA InitOwnership == Init => Ownership
<1> SUFFICES ASSUME Init PROVE Ownership
  OBVIOUS
<1> USE DEF Init
<1>1. Nothing \in Write /\ Nothing.kind = "none"
  BY PayloadAssumption DEF Nothing, Write, Kind, Standing, PayloadAssumption
<1>2. TypeOK
  BY <1>1, PayloadAssumption, BoundAssumption DEF TypeOK, PayloadAssumption, BoundAssumption
<1>3. LockOwnsWrites
  BY <1>1 DEF LockOwnsWrites
<1>4. AppliedExactlyOnce
  BY DEF AppliedExactlyOnce
<1> QED BY <1>2, <1>3, <1>4 DEF Ownership

\* The inductive invariant of Authority: only the session that holds the engagement row lock
\* has writes outstanding, they fit the rows it read, and each proposal was applied at most once.
THEOREM AlwaysOwned == Spec => []Ownership
<1>1. Ownership /\ [Next]_vars => Ownership'
  <2> SUFFICES ASSUME Ownership, [Next]_vars PROVE Ownership'
    OBVIOUS
  <2>1. ASSUME NEW s \in Session, SessionStep(s) PROVE Ownership'
    BY <2>1, SessionCases, LockOwnership, CommitOwnership, UnlockedOwnership
  <2>2. ASSUME NEW a \in Agent, AgentStep(a) PROVE Ownership'
    BY <2>2, UnlockedOwnership
  <2>3. CASE UNCHANGED vars
    BY <2>3 DEF vars, authority, Ownership, TypeOK, LockOwnsWrites, Prepared, AppliedExactlyOnce
  <2> QED BY <2>1, <2>2, <2>3 DEF Next
<1> QED BY <1>1, InitOwnership, PTL DEF Spec

\* The type invariant of the authority and proposal state.
THEOREM AuthorityTyped == Spec => []TypeOK
BY AlwaysOwned, PTL DEF Ownership

\* approve_proposal applies each proposal exactly once, for any number of sessions.
THEOREM ProposalsAppliedOnce == Spec => []AppliedExactlyOnce
BY AlwaysOwned, PTL DEF Ownership

-------------------------------------------------------------------------------
\* Only a commit changes the authority, and a commit that changes it moves the revision.
LEMMA CommitAdvances ==
    ASSUME Ownership, NEW s \in Session, Commit(s), authority' # authority
    PROVE  revision' > revision
<1> DEFINE w == txn[s]
<1>1. w \in Write /\ Prepared(w)
  BY DEF Ownership, TypeOK, LockOwnsWrites, Commit
<1>2. revision \in Nat /\ revision' = w.revision
  BY BoundAssumption DEF Ownership, TypeOK, Commit, BoundAssumption
<1>3. ASSUME w.revision = revision PROVE FALSE
  <2>1. w.insert = {} /\ w.remove = {} /\ w.rate = max_request_rate
        /\ (w.grant # None => grants[w.grant] = w.standing)
    BY <1>1, <1>3 DEF Prepared
  <2>2. scope' = scope
    BY <2>1 DEF Commit, Ownership, TypeOK
  <2>3. grants' = grants
    BY <2>1, ActorAssumption DEF Commit, Ownership, TypeOK, ActorAssumption
  <2>4. max_request_rate' = max_request_rate
    BY <2>1 DEF Commit
  <2> QED BY <2>2, <2>3, <2>4 DEF authority
<1>4. w.revision = revision + 1
  BY <1>1, <1>3 DEF Prepared
<1> QED BY <1>2, <1>4

\* A commit of an import adds exactly the rows that were missing.
LEMMA CommitImportsOnce ==
    ASSUME Ownership, NEW s \in Session, Commit(s), NEW t \in Session,
           txn[t].kind = "import", txn'[t].kind = "none", NEW e \in txn[t].insert
    PROVE  scope[e] = 0 /\ scope'[e] = 1
<1>1. lock = t /\ lock = s
  BY DEF Ownership, LockOwnsWrites, Commit
<1>2. Prepared(txn[s]) /\ txn[s] \in Write
  BY DEF Ownership, LockOwnsWrites, Commit, TypeOK
<1>3. e \in Entry /\ scope[e] = 0 /\ txn[s].remove = {} /\ e \in txn[s].insert
  BY <1>1, <1>2 DEF Prepared, Write
<1>4. scope'[e] = scope[e] + (IF e \in txn[s].insert THEN 1 ELSE 0)
                           - (IF e \in txn[s].remove THEN 1 ELSE 0)
  BY <1>3 DEF Commit
<1> QED BY <1>3, <1>4

\* For any number of overlapping handlers, the authority never changes under an unchanged
\* managed_authority_revision.
THEOREM RevisionTracksAuthority == Spec => RevisionNamesAuthority
<1>1. Ownership /\ [Next]_vars => [authority' # authority => revision' > revision]_vars
  <2> SUFFICES ASSUME Ownership, Next, authority' # authority PROVE revision' > revision
    OBVIOUS
  <2>1. ASSUME NEW a \in Agent, AgentStep(a) PROVE FALSE
    BY <2>1 DEF AgentStep, CountPending, CreateProposal
  <2>2. PICK s \in Session : SessionStep(s)
    BY <2>1 DEF Next
  <2>3. CASE Commit(s)
    BY <2>3, CommitAdvances
  <2>4. CASE Locks(s) \/ CommitReject(s) \/ \E p \in Proposal : RejectProposal(s, p)
    BY <2>4 DEF Locks, Lock, CommitReject, RejectProposal
  <2> QED BY <2>2, <2>3, <2>4, SessionCases
<1> QED BY <1>1, AlwaysOwned, PTL DEF Spec, RevisionNamesAuthority

\* import_scope never duplicates a row, for any number of overlapping handlers.
THEOREM ImportsAddOnlyNew == Spec => ImportNeverDuplicates
<1>1. Ownership /\ [Next]_vars =>
        [\A s \in Session : txn[s].kind = "import" /\ txn'[s].kind = "none" =>
            \A e \in txn[s].insert : scope[e] = 0 /\ scope'[e] = 1]_vars
  <2> SUFFICES ASSUME Ownership, Next, NEW t \in Session,
                      txn[t].kind = "import", txn'[t].kind = "none"
               PROVE  \A e \in txn[t].insert : scope[e] = 0 /\ scope'[e] = 1
    OBVIOUS
  <2>1. ASSUME NEW a \in Agent, AgentStep(a) PROVE FALSE
    BY <2>1 DEF AgentStep, CountPending, CreateProposal
  <2>2. PICK s \in Session : SessionStep(s)
    BY <2>1 DEF Next
  <2>3. CASE Commit(s)
    BY <2>3, CommitImportsOnce
  <2>4. CASE CommitReject(s) \/ \E p \in Proposal : RejectProposal(s, p)
    BY <2>4 DEF CommitReject, RejectProposal
  <2>5. CASE Locks(s)
    BY <2>5 DEF Locks, Lock, Free, Ownership, TypeOK
  <2> QED BY <2>2, <2>3, <2>4, <2>5, SessionCases
<1> QED BY <1>1, AlwaysOwned, PTL DEF Spec, ImportNeverDuplicates

-------------------------------------------------------------------------------
\* The queue and the agents in flight are finite, and no step but create_proposal's insert
\* adds a pending proposal.
LEMMA QueueFinite ==
    ASSUME TypeOK
    PROVE  /\ IsFiniteSet(Pending) /\ Cardinality(Pending) \in Nat
           /\ IsFiniteSet(counted) /\ Cardinality(counted) \in Nat
           /\ Cardinality(counted) <= Cardinality(Agent)
           /\ Cardinality(Agent) \in Nat \ {0}
<1>1. Pending \subseteq Proposal /\ counted \subseteq Agent
  BY DEF Pending, TypeOK
<1>2. IsFiniteSet(Proposal) /\ IsFiniteSet(Agent) /\ Agent # {}
  BY ActorAssumption DEF ActorAssumption
<1>3. IsFiniteSet(Pending)
  BY <1>1, <1>2, FS_Subset
<1>4. IsFiniteSet(counted) /\ Cardinality(counted) <= Cardinality(Agent)
  BY <1>1, <1>2, FS_Subset
<1>5. Cardinality(Agent) # 0
  BY <1>2, FS_EmptySet
<1>6. Cardinality(Pending) \in Nat /\ Cardinality(counted) \in Nat /\ Cardinality(Agent) \in Nat
  BY <1>2, <1>3, <1>4, FS_CardinalityType
<1> QED BY <1>3, <1>4, <1>5, <1>6

\* A step that adds no pending proposal and no counted agent keeps the bound.
LEMMA ShrinkingQueue ==
    ASSUME TypeOK, TypeOK', OvershootBounded, Pending' \subseteq Pending, counted' = counted
    PROVE  OvershootBounded'
<1>1. IsFiniteSet(Pending) /\ Cardinality(Pending) \in Nat /\ Cardinality(counted) \in Nat
      /\ Cardinality(Agent) \in Nat
  BY QueueFinite
<1>2. Cardinality(Pending') <= Cardinality(Pending) /\ Cardinality(Pending') \in Nat
  BY <1>1, FS_Subset, FS_CardinalityType
<1>3. Cardinality(counted') = Cardinality(counted)
  OBVIOUS
<1> QED BY <1>1, <1>2, <1>3, BoundAssumption DEF OvershootBounded, BoundAssumption

\* However many agents race through create_proposal's unlocked count, the queue passes
\* _MAX_PENDING by less than their number.
THEOREM OvershootAlwaysBounded == Spec => []OvershootBounded
<1>1. Init => OvershootBounded
  <2> SUFFICES ASSUME Init PROVE OvershootBounded
    OBVIOUS
  <2>1. Pending = {} /\ counted = {}
    BY DEF Init, Pending
  <2>2. TypeOK
    BY InitOwnership DEF Ownership
  <2>3. Cardinality(Agent) \in Nat \ {0}
    BY <2>2, QueueFinite
  <2> QED BY <2>1, <2>3, FS_EmptySet, BoundAssumption DEF OvershootBounded, BoundAssumption
<1>2. TypeOK /\ TypeOK' /\ Ownership /\ OvershootBounded /\ [Next]_vars => OvershootBounded'
  <2> SUFFICES ASSUME TypeOK, TypeOK', Ownership, OvershootBounded, [Next]_vars
               PROVE  OvershootBounded'
    OBVIOUS
  <2>0. /\ IsFiniteSet(Pending) /\ Cardinality(Pending) \in Nat
        /\ IsFiniteSet(counted) /\ Cardinality(counted) \in Nat
        /\ Cardinality(counted) <= Cardinality(Agent)
        /\ Cardinality(Agent) \in Nat \ {0} /\ MaxPending \in Nat
    BY QueueFinite, BoundAssumption DEF BoundAssumption
  <2>1. ASSUME NEW a \in Agent, CountPending(a) PROVE OvershootBounded'
    <3>1. counted' \subseteq Agent /\ IsFiniteSet(Agent)
      BY ActorAssumption DEF TypeOK, ActorAssumption
    <3>2. Cardinality(counted') <= Cardinality(Agent) /\ Cardinality(counted') \in Nat
      BY <3>1, FS_Subset, FS_CardinalityType
    <3>3. Pending' = Pending /\ Cardinality(Pending) < MaxPending
      BY <2>1 DEF CountPending, Pending
    <3> QED BY <2>0, <3>2, <3>3 DEF OvershootBounded
  <2>2. ASSUME NEW a \in Agent, NEW p \in Proposal, CreateProposal(a, p) PROVE OvershootBounded'
    <3>1. Pending' = Pending \union {p} /\ p \notin Pending
      BY <2>2 DEF CreateProposal, Pending, TypeOK
    <3>2. Cardinality(Pending') = Cardinality(Pending) + 1
      BY <2>0, <3>1, FS_AddElement
    <3>3. counted' = counted \ {a} /\ a \in counted
      BY <2>2 DEF CreateProposal
    <3>4. Cardinality(counted') = Cardinality(counted) - 1
      BY <2>0, <3>3, FS_RemoveElement
    <3> QED BY <2>0, <3>2, <3>4 DEF OvershootBounded
  <2>3. ASSUME NEW s \in Session, SessionStep(s) PROVE OvershootBounded'
    <3>1. Pending' \subseteq Pending /\ counted' = counted
      <4>1. CASE Locks(s) \/ \E p \in Proposal : RejectProposal(s, p)
        BY <4>1 DEF Locks, Lock, RejectProposal, Pending
      <4>2. CASE Commit(s)
        BY <4>2 DEF Commit, Pending
      <4>3. CASE CommitReject(s)
        <5>1. rejecting[s] \in Proposal
          BY <4>3 DEF CommitReject, TypeOK
        <5> QED BY <4>3, <5>1 DEF CommitReject, Pending, TypeOK
      <4> QED BY <2>3, <4>1, <4>2, <4>3, SessionCases
    <3> QED BY <3>1, ShrinkingQueue
  <2>4. CASE UNCHANGED vars
    BY <2>4, ShrinkingQueue DEF vars, Pending
  <2> QED BY <2>1, <2>2, <2>3, <2>4 DEF Next, AgentStep
<1> QED BY <1>1, <1>2, AlwaysOwned, AuthorityTyped, PTL DEF Spec

-------------------------------------------------------------------------------
(* Why a resolution can change: two of them overlap.                       *)

\* No rejection is under way together with an approval or another rejection of its proposal.
ResolutionsApart ==
    \A s \in Session : rejecting[s] # None =>
        \A t \in Session :
            /\ txn[t].proposal # rejecting[s]
            /\ rejecting[t] = rejecting[s] => t = s

\* What then stays true of the handlers that have read a proposal and not yet written it.
ReadsPending ==
    \A s \in Session :
        /\ txn[s].proposal # None => txn[s].kind # "none" /\ status[txn[s].proposal] = "pending"
        /\ rejecting[s] # None => status[rejecting[s]] = "pending"

\* A handler that takes the lock changes no status, and only approve_proposal carries a
\* proposal: the one it has just read as pending.
LEMMA LockCarriesPending ==
    ASSUME NEW s \in Session, TypeOK,
           \/ \E e \in Entry : AddScope(s, e) \/ DeleteScope(s, e)
           \/ \E E \in SUBSET Entry : ImportScope(s, E)
           \/ \E g \in Grant : CreateAuthorization(s, g)
           \/ \E g \in Grant, standing \in Standing : UpdateAuthorization(s, g, standing)
           \/ \E rate \in Rate : UpdateEngagement(s, rate)
           \/ \E p \in Proposal, g \in Grant : ApproveProposal(s, p, g)
    PROVE  /\ UNCHANGED <<status, rejecting>>
           /\ \A t \in Session \ {s} : txn'[t] = txn[t]
           /\ txn'[s].proposal # None =>
                 txn'[s].kind # "none" /\ status[txn'[s].proposal] = "pending"
<1> DEFINE Carries(write) ==
      write.proposal # None => write.kind # "none" /\ status[write.proposal] = "pending"
<1>1. \E write : Lock(s, write) /\ Carries(write)
  <2>1. ASSUME NEW e \in Entry, AddScope(s, e) PROVE <1>1!:
    BY <2>1 DEF AddScope, Advanced, Writing
  <2>2. ASSUME NEW e \in Entry, DeleteScope(s, e) PROVE <1>1!:
    BY <2>2 DEF DeleteScope, Advanced, Writing
  <2>3. ASSUME NEW E \in SUBSET Entry, ImportScope(s, E) PROVE <1>1!:
    BY <2>3 DEF ImportScope, Advanced, Writing
  <2>4. ASSUME NEW g \in Grant, CreateAuthorization(s, g) PROVE <1>1!:
    BY <2>4 DEF CreateAuthorization, Advanced, Writing
  <2>5. ASSUME NEW g \in Grant, NEW standing \in Standing, UpdateAuthorization(s, g, standing)
        PROVE <1>1!:
    <3> DEFINE w == [Writing("amend", Bumped(grants[g] # standing))
                     EXCEPT !.grant = g, !.standing = standing]
    <3>1. w.proposal = None
      BY DEF Writing
    <3>2. Lock(s, w)
      BY <2>5 DEF UpdateAuthorization
    <3> QED BY <3>1, <3>2
  <2>6. ASSUME NEW rate \in Rate, UpdateEngagement(s, rate) PROVE <1>1!:
    BY <2>6 DEF UpdateEngagement, Writing
  <2>7. ASSUME NEW p \in Proposal, NEW g \in Grant, ApproveProposal(s, p, g) PROVE <1>1!:
    <3>1. Apply(p, g).proposal = p /\ Apply(p, g).kind = "approve"
      BY DEF Apply, Advanced, Writing
    <3> QED BY <2>7, <3>1 DEF ApproveProposal
  <2> QED BY <2>1, <2>2, <2>3, <2>4, <2>5, <2>6, <2>7
<1>2. PICK write : Lock(s, write) /\ Carries(write)
  BY <1>1
<1>3. txn'[s] = write
  BY <1>2 DEF Lock, TypeOK
<1> QED BY <1>2, <1>3 DEF Lock, TypeOK

\* While resolutions stay apart, whoever will write a proposal has read it as it still is.
LEMMA ApartKeepsReads ==
    ASSUME Ownership, ResolutionsApart, ReadsPending, [Next]_vars
    PROVE  /\ ReadsPending'
           /\ \A p \in Proposal : status[p] \in {"approved", "rejected"} => status'[p] = status[p]
<1> DEFINE Kept == \A p \in Proposal : status[p] \in {"approved", "rejected"} => status'[p] = status[p]
<1> USE DEF Ownership
<1>1. ASSUME NEW s \in Session, Commit(s) PROVE ReadsPending' /\ Kept
  <2>1. txn[s] \in Write /\ lock = s
    BY <1>1 DEF TypeOK, LockOwnsWrites, Commit
  <2>2. \A t \in Session : txn'[t].proposal = None
    <3> SUFFICES ASSUME NEW t \in Session PROVE txn'[t].proposal = None
      OBVIOUS
    <3>1. CASE t = s
      BY <1>1, <3>1 DEF Commit, TypeOK, Nothing
    <3>2. CASE t # s
      BY <1>1, <2>1, <3>2 DEF Commit, TypeOK, LockOwnsWrites, ReadsPending
    <3> QED BY <3>1, <3>2
  <2>3. \A p \in Proposal : p # txn[s].proposal => status'[p] = status[p]
    BY <1>1 DEF Commit
  <2>4. Kept
    <3> SUFFICES ASSUME NEW p \in Proposal, status[p] \in {"approved", "rejected"}
                 PROVE  status'[p] = status[p]
      OBVIOUS
    <3>1. p # txn[s].proposal
      BY ActorAssumption DEF ReadsPending, ActorAssumption
    <3> QED BY <2>3, <3>1
  <2>5. ASSUME NEW t \in Session, rejecting'[t] # None PROVE status'[rejecting'[t]] = "pending"
    <3>1. rejecting'[t] = rejecting[t] /\ rejecting[t] \in Proposal
      BY <1>1, <2>5 DEF Commit, TypeOK
    <3>2. rejecting[t] # txn[s].proposal
      BY <2>5, <3>1 DEF ResolutionsApart
    <3> QED BY <2>3, <2>5, <3>1, <3>2 DEF ReadsPending
  <2> QED BY <2>2, <2>4, <2>5 DEF ReadsPending
<1>2. ASSUME NEW s \in Session, CommitReject(s) PROVE ReadsPending' /\ Kept
  <2>1. /\ rejecting[s] # None /\ rejecting[s] \in Proposal /\ txn' = txn
        /\ \A t \in Session : rejecting'[t] = IF t = s THEN None ELSE rejecting[t]
    BY <1>2 DEF CommitReject, TypeOK
  <2>2. \A p \in Proposal : p # rejecting[s] => status'[p] = status[p]
    BY <1>2 DEF CommitReject, TypeOK
  <2>3. \A t \in Session : /\ txn[t].proposal # rejecting[s]
                           /\ t # s => rejecting[t] # rejecting[s]
                           /\ txn[t].proposal \in Proposal \union {None}
                           /\ rejecting[t] \in Proposal \union {None}
    BY <2>1 DEF ResolutionsApart, TypeOK, Write
  <2>4. status[rejecting[s]] = "pending"
    BY <2>1 DEF ReadsPending
  <2>5. ReadsPending'
    BY <2>1, <2>2, <2>3 DEF ReadsPending
  <2> QED BY <2>1, <2>2, <2>4, <2>5
<1>3. ASSUME NEW s \in Session, NEW p \in Proposal, RejectProposal(s, p)
      PROVE  ReadsPending' /\ Kept
  BY <1>3 DEF RejectProposal, ReadsPending, TypeOK
<1>4. ASSUME NEW a \in Agent, AgentStep(a) PROVE ReadsPending' /\ Kept
  <2>1. txn' = txn /\ rejecting' = rejecting
    BY <1>4 DEF AgentStep, CountPending, CreateProposal
  <2>2. \A p \in Proposal : status[p] # "absent" => status'[p] = status[p]
    BY <1>4 DEF AgentStep, CountPending, CreateProposal, TypeOK
  <2>3. \A t \in Session : /\ txn[t].proposal \in Proposal \union {None}
                           /\ rejecting[t] \in Proposal \union {None}
    BY DEF TypeOK, Write
  <2> QED BY <2>1, <2>2, <2>3 DEF ReadsPending
<1>5. ASSUME NEW s \in Session, SessionStep(s) PROVE ReadsPending' /\ Kept
  <2>1. CASE Commit(s)
    BY <1>1, <2>1
  <2>2. CASE CommitReject(s) \/ \E p \in Proposal : RejectProposal(s, p)
    BY <1>2, <1>3, <2>2
  <2>3. CASE ~(Commit(s) \/ CommitReject(s) \/ \E p \in Proposal : RejectProposal(s, p))
    <3>1. /\ UNCHANGED <<status, rejecting>>
          /\ \A t \in Session \ {s} : txn'[t] = txn[t]
          /\ txn'[s].proposal # None =>
                txn'[s].kind # "none" /\ status[txn'[s].proposal] = "pending"
      BY <1>5, <2>3, LockCarriesPending DEF SessionStep
    <3> QED BY <3>1 DEF ReadsPending
  <2> QED BY <2>1, <2>2, <2>3
<1>6. CASE UNCHANGED vars
  BY <1>6 DEF vars, ReadsPending
<1> QED BY <1>4, <1>5, <1>6 DEF Next

\* The overlap of two resolutions of one proposal is the only way a resolution is rewritten:
\* in any run in which reject_proposal overlaps no other resolution of its proposal (what
\* taking the engagement lock would ensure), a resolved proposal stays as it was resolved.
THEOREM ResolutionFinalWhenApart == Spec /\ []ResolutionsApart => ResolutionIsFinal
<1>1. Init => ReadsPending
  BY DEF Init, ReadsPending, Nothing
<1>2. Ownership /\ ResolutionsApart /\ ReadsPending /\ [Next]_vars => ReadsPending'
  BY ApartKeepsReads
<1>3. Ownership /\ ResolutionsApart /\ ReadsPending /\ [Next]_vars =>
        [\A p \in Proposal : status[p] \in {"approved", "rejected"} => status'[p] = status[p]]_vars
  BY ApartKeepsReads
<1> QED BY <1>1, <1>2, <1>3, AlwaysOwned, PTL DEF Spec, ResolutionIsFinal
===============================================================================
