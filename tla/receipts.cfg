SPECIFICATION ManagedSpec
CONSTANTS
    None = None
    Job = {g1}
    GateJob = {g1}
    Poller = {p1}
    Version = {2}
    Origins <- MCOrigins
    ConcLimit = {1}
    TargetLimit = {1}
    DurationLimit = {3}
    Request <- Managed
    Approval = {a1}
    Artifact = {x1, x2}
    Session = {s1}
    LeaseSeconds = 1
    MaxSeconds = 3
    MaxExecutions = 1
    MaxTime = 1
    MaxRevision = 3
INVARIANTS ReceiptsAgree
PROPERTIES ReceiptsFinal ImplementsControlAndStore
