SPECIFICATION Spec
CHECK_DEADLOCK FALSE
CONSTANTS
    None = None
    Job = {g1, g2}
    GateJob = {g1, g2}
    Poller = {}
    Version = {2, 3}
    Origins <- MCOrigins
    ConcLimit = {None, 1}
    TargetLimit = {None, 2, 3}
    DurationLimit = {None, 2}
    Request <- Budgeted
INVARIANTS RowsAgree ChargesSumWithinAccount
PROPERTIES AccountingNeverErased OutcomesKept ImplementsBudgets
