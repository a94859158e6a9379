SPECIFICATION GateSpec
CONSTANTS
    Job = {j1, j2}
    CaseSpec <- MCCaseSpec
    Endpoint <- MCEndpoint
    Exchange <- MCExchange
    Body <- MCBody
    TriageStatus = {"promoted", "false_positive"}
    MaxRemoved = 0
SYMMETRY MCSymmetry
CHECK_DEADLOCK FALSE
INVARIANTS CoverageIsOfWhatRan
