SPECIFICATION ConfiguredSpec
SYMMETRY Symmetry
CONSTANTS
    None = None
    Job = {g1}
    GateJob = {g1}
    Poller = {}
    Version = {2}
    Origins <- MCOrigins
    ConcLimit = {1}
    TargetLimit = {1}
    DurationLimit = {3}
    Request <- Managed
    Approval = {a1}
    Artifact = {x1}
    Session = {s1, s2}
    LeaseSeconds = 2
    MaxSeconds = 3
    MaxExecutions = 1
    MaxTime = 3
    MaxRevision = 0
PROPERTIES ClockNeverBack DeadPermitStaysDead LeaseNeverRevives
