SPECIFICATION ServicesSpec
CHECK_DEADLOCK FALSE
SYMMETRY Interchangeable
CONSTANTS
    h1 = h1
    r1 = r1
    r2 = r2
    n1 = n1
    n2 = n2
    MaxTokens = 3
    Request = {r1, r2}
    FAILURE_WINDOW = 2
    MaxFailures = 2
    SESSION_LIFETIME = 3
    IDLE_LIFETIME = 2
    MaxTime = 3
    MaxPassword = 2
    KeyOwner = {w1, w2}
    Key = {y1, y2, y3}
    KeyCall = {r1, r2}
    MaxKeys = 1
    User = {u1, u2, u3}
    Org = {o1, n1, n2}
    EngagementId = {e1, e2}
    ClientId = {b1}
    Caller = {r1, r2}
    Absent = Absent
    SharedOrg = o1
    SharedRoles <- MCSharedRoles
    SharedEngagement = e1
    MaxMembers = 1
    MaxRows = 3
    ServiceId = {n1, n2}
    ScanJob = {j1}
    Handler = {r1, r2}
    Batch <- MCBatch
    Listening <- MCListening
    Nothing = Nothing
    Operation = {a1, a2}
    Exchange = {x1, x2, x3}
    ApiCall = {r1, r2}
    FindingId = {f1, f2}
    EvidenceId = {d1, d2}
    Legacy = {f1}
    LegacyEvidence = {d1}
    RecordCall = {r1, r2}
    Unlinked = Unlinked
    MaxEntries = 3
    MaxRevisions = 2
INVARIANTS ReferencesHold GuessesBounded SessionsFollowPassword LimitsOvershootByOverlap
    AccessFollowsGrants InventoryIsExact HistoryIsComplete
PROPERTIES RevocationHolds RacesLoseNothing RevisionsBuildOnLatest
