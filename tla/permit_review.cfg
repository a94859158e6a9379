SPECIFICATION ConfiguredSpec
CONSTANTS
    None = None
    Job = {g1}
    GateJob = {g1}
    Poller = {}
    Version = {2, 3}
    Origins <- MCOrigins
    ConcLimit = {1}
    TargetLimit = {1}
    DurationLimit = {3}
    Request <- Managed
    Approval = {a1, a2}
    Artifact = {x1}
    Session = {s1}
    LeaseSeconds = 1
    MaxSeconds = 3
    MaxExecutions = 1
    MaxTime = 1
    MaxRevision = 2
INVARIANTS ManagedRowsAgree
PROPERTIES RunsAsReviewed
