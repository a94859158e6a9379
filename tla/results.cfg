SPECIFICATION GateSpec
CONSTANTS
    Job = {j1, j2}
    CaseSpec <- MCCaseSpec
    Endpoint <- MCEndpoint
    Exchange <- MCExchange
    Body <- MCStored
    TriageStatus = {"promoted"}
    MaxRemoved = 4
SYMMETRY MCSymmetry
CHECK_DEADLOCK FALSE
INVARIANTS ResultsAgree
PROPERTIES ImplementsResultStore
