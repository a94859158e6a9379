SPECIFICATION Spec
CONSTANTS
    None = None
    Job = {g1, r1}
    GateJob = {g1}
    Poller = {p1}
    Version = {2}
    Origins <- MCOrigins
    ConcLimit = {}
    TargetLimit = {}
    DurationLimit = {}
    Request <- Legacy
PROPERTIES FinishedNeverReopens
