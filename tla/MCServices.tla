------------------------------- MODULE MCServices -------------------------------
(* The services beside the execution core.  They keep separate tables and never      *)
(* call one another inside a transaction, so a behaviour runs one of them, chosen at *)
(* the start, and the others rest in their initial states.  Access is run once with  *)
(* invitations and once with tenants, findings once with their evidence and once     *)
(* with their reports.                                                               *)
EXTENDS LocalAuth, ApiKeys, Access, MCInventory, ApiSurface, FindingRecords, TLC

CONSTANTS
    r1, r2,      \* requests: the callers of every service
    n1, n2       \* ids still to be drawn, of services and of personal organizations

VARIABLE focus

servicesVars ==
    <<focus, authVars, keyVars, accessVars, inventoryVars, apiVars, recordVars>>

---------------------------------------------------------------------------------
(* Instances. *)

\* The shared organization has an owner, a viewer and a user outside it.
MCSharedRoles ==
    {CHOOSE roles \in [User -> {"owner", "viewer", Absent}] :
        \A role \in {"owner", "viewer", Absent} : \E u \in User : roles[u] = role}

\* No definition names a request or an id still to be drawn.
Interchangeable == Permutations({r1, r2}) \cup Permutations({n1, n2})

---------------------------------------------------------------------------------

ServicesInit ==
    /\ focus \in {"auth", "keys", "members", "tenants", "inventory", "api", "evidence", "report"}
    /\ AuthInit /\ KeysInit /\ AccessInit /\ InventoryInit /\ ApiInit /\ RecordsInit
    /\ focus \notin {"evidence", "report"} => evidence = [e \in LegacyEvidence |-> Unlinked]
    /\ focus \notin {"members", "tenants"} =>
          \A u \in User : engagements[SharedEngagement].members[u] = Absent

ServicesNext ==
    /\ UNCHANGED focus
    /\ \/ /\ focus = "auth" /\ AuthNext
          /\ UNCHANGED <<keyVars, accessVars, inventoryVars, apiVars, recordVars>>
       \/ /\ focus = "keys" /\ KeysNext
          /\ UNCHANGED <<authVars, accessVars, inventoryVars, apiVars, recordVars>>
       \/ /\ \/ focus = "members" /\ MemberStep
             \/ focus = "tenants" /\ TenantStep
          /\ UNCHANGED <<authVars, keyVars, inventoryVars, apiVars, recordVars>>
       \/ /\ focus = "inventory" /\ InventoryNext
          /\ UNCHANGED <<authVars, keyVars, accessVars, apiVars, recordVars>>
       \/ /\ focus = "api" /\ ApiNext
          /\ UNCHANGED <<authVars, keyVars, accessVars, inventoryVars, recordVars>>
       \/ /\ \/ FindingStep
             \/ focus = "evidence" /\ EvidenceStep
             \/ focus = "report" /\ ReportStep
          /\ focus \in {"evidence", "report"}
          /\ UNCHANGED <<authVars, keyVars, accessVars, inventoryVars, apiVars>>

ServicesSpec == ServicesInit /\ [][ServicesNext]_servicesVars

---------------------------------------------------------------------------------
(* What the services promise in common, each for its own rows. *)

\* No row names one that is gone, whichever of two overlapping requests commits first: sessions,
\* memberships, client links, provenance links, asset edges and evidence (the foreign keys, and
\* the handlers that check before they write).
ReferencesHold ==
    /\ AuthTypeOK
    /\ AccessTypeOK
    /\ InventoryTypeOK
    /\ NoDanglingClient
    /\ NoOrphanEvidence

\* A limit counted without a lock is passed by overlapping requests only (create_api_key,
\* add_member).
LimitsOvershootByOverlap == KeysOvershootByOverlap /\ MembersOvershootByOverlap

\* Access is what the grants say: lists and single checks agree, and no tenant reaches another's
\* rows without an invitation (deps.py).
AccessFollowsGrants == ListsAgreeWithAccess /\ TenantsStayApart

\* The inventory tells once, and completely, what was reported: no row twice, no observation
\* lost, and exchanges counted exactly until requests overlap (imports.py, services.py,
\* api_surface.py).
InventoryIsExact ==
    /\ RowsNeverDuplicated
    /\ ObservationsKept
    /\ ServiceStoredOnce
    /\ CountExactUntilOverlap

\* A finding's history is complete, as stored and as a report shows it (finding_history.py,
\* deliverables.py).
HistoryIsComplete == HistoryTellsFinding /\ ReportHistoryNotBehind

\* What was revoked admits nobody, not even a request that read it before (sessions and keys).
RevocationHolds == RevokedStaysRevoked /\ RevokedKeyAdmitsNobody

\* The loser of a race overwrites nothing and is not lost: invitations of one person, promotions
\* of one operation, links of one evidence item.
RacesLoseNothing == InvitationNeverOverwrites /\ PromotionNeverLost /\ EvidenceNeverMoves
=================================================================================
