SPECIFICATION QueueSpec
CHECK_DEADLOCK FALSE
CONSTANTS
    None = None
    Job = {g1, r1}
    GateJob = {g1}
    Poller = {p1}
    Version = {2}
    Origins <- MCOrigins
    ConcLimit = {None, 1}
    TargetLimit = {}
    DurationLimit = {}
    Request <- Budgeted
    Stream = {s1}
    Thread = {t1, t2}
    QueueSize = 2
    MaxEvents = 4
INVARIANTS RowsAgree StreamsLoseNothing
PROPERTIES AttemptNeverRevives QueueNeverHangs QueuedIsDelivered
