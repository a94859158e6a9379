SPECIFICATION DecidingSpec
CONSTANTS
    Engagement <- MCEngagement
    TargetList <- MCTargetList
    AssessSpec <- MCAssessSpec
    ExecutionList <- MCExecutionList
    PreflightList <- MCPreflightList
    SemanticList <- MCSemanticList
    CaseTable <- MCCaseTable
    Operation <- MCOperation
    Instant = {2}
    None = None
    p1 = p1
    p2 = p2
    p3 = p3
    Session = {s1, s2}
    Agent = {a1, a2}
    Proposal = {p1, p2, p3}
    Payload <- MCPayload
    Entry <- MCEntry
    Grant = {g1, g2}
    Rate <- MCRate
    MaxPending = 2
    MaxRows = 2
    MaxRevision = 2
    Job = {j1, j2}
    CaseSpec <- MCCaseSpec
    Endpoint <- MCEndpoint
    Exchange <- MCExchange
    Body <- MCBody
    TriageStatus = {"promoted", "false_positive"}
    MaxRemoved = 0
SYMMETRY MCSymmetry
INVARIANTS ClearIsJustified VerdictIsEarned DraftIsSound
    AppliedExactlyOnce OvershootBounded
    ViewsAreBacked
PROPERTIES ExtraReportsNeverHelp
    RevisionNamesAuthority ImportNeverDuplicates
    FlaggedUntilTriaged
